---------------------------- MODULE RtbusProofs ----------------------------
(***************************************************************************)
(* Proofs about the event bus, for every entry table, pool, clock width    *)
(* and set of posts.                                                       *)
(***************************************************************************)
EXTENDS Rtbus, HeapLemmas, SequenceTheorems, FiniteSetTheorems

TableType == [Levels -> Seq(NodeType)]

\* linklist_new with a block that bmalloc just returned keeps nodes and blocks
\* together, and the head of every list that has one.
LEMMA AppendOwns ==
  ASSUME NEW h, Sound(h), NEW tbl \in TableType, OwnBlocks(h, tbl),
         NEW ev \in EventType, NEW p \in Levels,
         NEW r \in Malloc(h, NodeLen(ev)), r.ptr # NoBlock
  PROVE  /\ Queued(tbl, p, r.ptr, ev) \in TableType
         /\ Sound(r.heap)
         /\ OwnBlocks(r.heap, Queued(tbl, p, r.ptr, ev))
         /\ \A q \in Levels : tbl[q] # <<>> =>
              /\ Queued(tbl, p, r.ptr, ev)[q] # <<>>
              /\ Queued(tbl, p, r.ptr, ev)[q][1] = tbl[q][1]
<1> DEFINE x == [ptr |-> r.ptr, ev |-> ev]
           t == Queued(tbl, p, r.ptr, ev)
<1>0. t = [tbl EXCEPT ![p] = Appended(@, x)]
  BY DEF Queued
<1> HIDE DEF t
<1>1. ev.len \in Nat /\ NodeLen(ev) \in Nat /\ NodeLen(ev) = NodeSize + ev.len
  BY DEF EventType, NodeLen, NodeSize
<1>2. /\ Sound(r.heap)
      /\ r.ptr \in Nat
      /\ r.ptr - HdrSize \notin h.busy
      /\ r.heap.busy = h.busy \cup {r.ptr - HdrSize}
      /\ r.ptr + NodeLen(ev) <= r.heap.next[r.ptr - HdrSize]
      /\ \A a \in h.busy : r.heap.next[a] = h.next[a]
  BY <1>1, MallocSound
<1>3. x \in NodeType
  BY <1>2 DEF NodeType
<1>4. \A q \in Levels : tbl[q] \in Seq(NodeType)
  BY DEF TableType
<1>5. t[p] = Append(tbl[p], x) /\ \A q \in Levels : q # p => t[q] = tbl[q]
  BY <1>0 DEF TableType, Appended
<1>6. /\ Len(t[p]) = Len(tbl[p]) + 1
      /\ \A k \in 1 .. Len(tbl[p]) : t[p][k] = tbl[p][k]
      /\ t[p][Len(tbl[p]) + 1] = x
      /\ t[p] \in Seq(NodeType)
  BY <1>3, <1>4, <1>5, AppendProperties
<1>7. t \in TableType
  BY <1>0, <1>6, <1>4, <1>5 DEF TableType
<1>8. \A q \in Levels : tbl[q] # <<>> => t[q] # <<>> /\ t[q][1] = tbl[q][1]
  <2> SUFFICES ASSUME NEW q \in Levels, tbl[q] # <<>>
               PROVE  t[q] # <<>> /\ t[q][1] = tbl[q][1]
    OBVIOUS
  <2>1. CASE q # p
    BY <2>1, <1>5
  <2>2. CASE q = p
    <3>1. Len(tbl[p]) \in Nat /\ Len(tbl[p]) # 0
      BY <2>2, <1>4, EmptySeq
    <3>2. QED
      BY <2>2, <3>1, <1>6
  <2>3. QED
    BY <2>1, <2>2
\* Where a node of the new lists comes from.
<1>9. \A q \in Levels : \A k \in DOMAIN t[q] :
        \/ q = p /\ k = Len(tbl[p]) + 1 /\ t[q][k] = x
        \/ k \in DOMAIN tbl[q] /\ t[q][k] = tbl[q][k]
  <2> SUFFICES ASSUME NEW q \in Levels, NEW k \in DOMAIN t[q]
               PROVE  \/ q = p /\ k = Len(tbl[p]) + 1 /\ t[q][k] = x
                      \/ k \in DOMAIN tbl[q] /\ t[q][k] = tbl[q][k]
    OBVIOUS
  <2>1. CASE q # p
    BY <2>1, <1>5
  <2>2. CASE q = p
    <3>1. DOMAIN t[p] = 1 .. Len(t[p]) /\ DOMAIN tbl[p] = 1 .. Len(tbl[p])
          /\ Len(tbl[p]) \in Nat
      BY <1>4, <1>6, LenProperties
    <3>2. QED
      BY <2>2, <3>1, <1>6
  <2>3. QED
    BY <2>1, <2>2
<1>10. \A q \in Levels : \A k \in DOMAIN tbl[q] : k \in DOMAIN t[q] /\ t[q][k] = tbl[q][k]
  <2> SUFFICES ASSUME NEW q \in Levels, NEW k \in DOMAIN tbl[q]
               PROVE  k \in DOMAIN t[q] /\ t[q][k] = tbl[q][k]
    OBVIOUS
  <2>1. DOMAIN t[p] = 1 .. Len(t[p]) /\ DOMAIN tbl[p] = 1 .. Len(tbl[p])
        /\ Len(tbl[p]) \in Nat
    BY <1>4, <1>6, LenProperties
  <2>2. QED
    BY <2>1, <1>5, <1>6
<1>11. Len(tbl[p]) + 1 \in DOMAIN t[p]
  <2>1. DOMAIN t[p] = 1 .. Len(t[p]) /\ Len(tbl[p]) \in Nat
    BY <1>4, <1>6, LenProperties
  <2>2. QED
    BY <2>1, <1>6
<1>12. \A q \in Levels : \A k \in DOMAIN tbl[q] :
         /\ tbl[q][k].ptr \in Nat /\ tbl[q][k].ev.len \in Nat
         /\ tbl[q][k].ptr - HdrSize \in h.busy
         /\ tbl[q][k].ptr + NodeSize + tbl[q][k].ev.len <= h.next[tbl[q][k].ptr - HdrSize]
  <2> SUFFICES ASSUME NEW q \in Levels, NEW k \in DOMAIN tbl[q]
               PROVE  /\ tbl[q][k].ptr \in Nat /\ tbl[q][k].ev.len \in Nat
                      /\ tbl[q][k].ptr - HdrSize \in h.busy
                      /\ tbl[q][k].ptr + NodeSize + tbl[q][k].ev.len
                           <= h.next[tbl[q][k].ptr - HdrSize]
    OBVIOUS
  <2>1. tbl[q][k] \in NodeType
    BY <1>4, ElementOfSeq, LenProperties
  <2>2. QED
    BY <2>1 DEF OwnBlocks, NodeType, EventType
<1> HIDE DEF x
<1>13. x.ptr = r.ptr /\ x.ev = ev
  BY DEF x
<1>14. \A q \in Levels : \A k \in DOMAIN t[q] :
         /\ t[q][k].ptr - HdrSize \in r.heap.busy
         /\ t[q][k].ptr + NodeSize + t[q][k].ev.len <= r.heap.next[t[q][k].ptr - HdrSize]
  <2> SUFFICES ASSUME NEW q \in Levels, NEW k \in DOMAIN t[q]
               PROVE  /\ t[q][k].ptr - HdrSize \in r.heap.busy
                      /\ t[q][k].ptr + NodeSize + t[q][k].ev.len
                           <= r.heap.next[t[q][k].ptr - HdrSize]
    OBVIOUS
  <2>1. CASE t[q][k] = x
    BY <2>1, <1>1, <1>2, <1>13 DEF NodeSize, HdrSize
  <2>2. CASE k \in DOMAIN tbl[q] /\ t[q][k] = tbl[q][k]
    BY <2>2, <1>2, <1>12
  <2>3. QED
    BY <1>9, <2>1, <2>2
<1>15. \A b \in r.heap.busy :
         \E q \in Levels : \E k \in DOMAIN t[q] : t[q][k].ptr = b + HdrSize
  <2> SUFFICES ASSUME NEW b \in r.heap.busy
               PROVE  \E q \in Levels : \E k \in DOMAIN t[q] : t[q][k].ptr = b + HdrSize
    OBVIOUS
  <2>1. CASE b = r.ptr - HdrSize
    <3>1. t[p][Len(tbl[p]) + 1].ptr = b + HdrSize
      BY <2>1, <1>2, <1>6, <1>13 DEF HdrSize, x
    <3>2. QED
      BY <3>1, <1>11
  <2>2. CASE b \in h.busy
    BY <2>2, <1>10 DEF OwnBlocks
  <2>3. QED
    BY <1>2, <2>1, <2>2
<1>16. \A q, s \in Levels : \A k \in DOMAIN t[q], m \in DOMAIN t[s] :
         t[q][k].ptr = t[s][m].ptr => q = s /\ k = m
  <2> SUFFICES ASSUME NEW q \in Levels, NEW s \in Levels, NEW k \in DOMAIN t[q],
                      NEW m \in DOMAIN t[s], t[q][k].ptr = t[s][m].ptr
               PROVE  q = s /\ k = m
    OBVIOUS
  <2>1. \A u \in Levels : \A j \in DOMAIN tbl[u] : tbl[u][j].ptr # r.ptr
    BY <1>2, <1>12
  <2>2. QED
    BY <2>1, <1>9, <1>13 DEF OwnBlocks
<1>17. OwnBlocks(r.heap, t)
  BY <1>14, <1>15, <1>16 DEF OwnBlocks
<1>18. QED
  BY <1>2, <1>7, <1>8, <1>17 DEF t

\* linklist_remove of the head node, with its bfree, keeps nodes and blocks
\* together.
LEMMA RemoveOwns ==
  ASSUME NEW h, Sound(h), NEW tbl \in TableType, OwnBlocks(h, tbl),
         NEW p \in Levels, tbl[p] # <<>>,
         NEW ptr, ptr = tbl[p][1].ptr
  PROVE  /\ Removed(tbl, p, ptr) \in TableType
         /\ Sound(Free(h, ptr))
         /\ OwnBlocks(Free(h, ptr), Removed(tbl, p, ptr))
<1> DEFINE t == Removed(tbl, p, ptr)
<1>0. t = [tbl EXCEPT ![p] = Unlinked(@, ptr)]
  BY DEF Removed
<1> HIDE DEF t
<1>1. \A q \in Levels : tbl[q] \in Seq(NodeType) /\ Len(tbl[q]) \in Nat
                        /\ DOMAIN tbl[q] = 1 .. Len(tbl[q])
  BY LenProperties DEF TableType
<1>2. Len(tbl[p]) # 0 /\ 1 \in DOMAIN tbl[p]
  BY <1>1, EmptySeq
<1>3. \A q \in Levels : \A k \in DOMAIN tbl[q] :
         /\ tbl[q][k] \in NodeType
         /\ tbl[q][k].ptr \in Nat /\ tbl[q][k].ev.len \in Nat
         /\ tbl[q][k].ptr - HdrSize \in h.busy
         /\ tbl[q][k].ptr + NodeSize + tbl[q][k].ev.len <= h.next[tbl[q][k].ptr - HdrSize]
  <2> SUFFICES ASSUME NEW q \in Levels, NEW k \in DOMAIN tbl[q]
               PROVE  /\ tbl[q][k] \in NodeType
                      /\ tbl[q][k].ptr \in Nat /\ tbl[q][k].ev.len \in Nat
                      /\ tbl[q][k].ptr - HdrSize \in h.busy
                      /\ tbl[q][k].ptr + NodeSize + tbl[q][k].ev.len
                           <= h.next[tbl[q][k].ptr - HdrSize]
    OBVIOUS
  <2>1. tbl[q][k] \in NodeType
    BY <1>1, ElementOfSeq
  <2>2. QED
    BY <2>1 DEF OwnBlocks, NodeType, EventType
<1>4. \A q, s \in Levels : \A k \in DOMAIN tbl[q], m \in DOMAIN tbl[s] :
         tbl[q][k].ptr = tbl[s][m].ptr => q = s /\ k = m
  BY DEF OwnBlocks
<1>5. /\ ptr \in Nat /\ ptr - HdrSize \in h.busy
      /\ \A k \in DOMAIN tbl[p] : tbl[p][k].ptr = ptr <=> k = 1
  BY <1>2, <1>3, <1>4
<1>6. h.active
  BY <1>5 DEF Sound, HeapType, Tiled
<1>7. /\ Sound(Free(h, ptr))
      /\ Free(h, ptr).busy = h.busy \ {ptr - HdrSize}
      /\ \A a \in h.busy : a # ptr - HdrSize => Free(h, ptr).next[a] = h.next[a]
  BY <1>5, <1>6, FreeSound
<1>8. Unlinked(tbl[p], ptr) = [j \in 1 .. Len(tbl[p]) - 1 |-> tbl[p][j + 1]]
  <2>1. \E k \in DOMAIN tbl[p] : tbl[p][k].ptr = ptr
    BY <1>2, <1>5
  <2>2. (CHOOSE k \in DOMAIN tbl[p] : tbl[p][k].ptr = ptr) = 1
    BY <1>2, <1>5
  <2>3. \A j \in 1 .. Len(tbl[p]) - 1 : ~(j < 1)
    BY <1>1
  <2>4. QED
    BY <2>1, <2>2, <2>3 DEF Unlinked
<1>9. /\ t[p] = [j \in 1 .. Len(tbl[p]) - 1 |-> tbl[p][j + 1]]
      /\ \A q \in Levels : q # p => t[q] = tbl[q]
      /\ DOMAIN t = Levels
  BY <1>0, <1>8 DEF TableType
<1>10. /\ DOMAIN t[p] = 1 .. Len(tbl[p]) - 1
       /\ \A j \in DOMAIN t[p] : j + 1 \in DOMAIN tbl[p] /\ t[p][j] = tbl[p][j + 1]
  BY <1>1, <1>9
<1>11. t[p] \in Seq(NodeType)
  <2>1. Len(tbl[p]) - 1 \in Nat
    BY <1>1, <1>2
  <2>2. \A j \in 1 .. Len(tbl[p]) - 1 : tbl[p][j + 1] \in NodeType
    BY <1>3, <1>10
  <2>3. QED
    BY <2>1, <2>2, <1>9, SeqDef
<1>12. t \in TableType
  <2>1. t = [q \in Levels |-> t[q]]
    BY <1>0 DEF TableType
  <2>2. \A q \in Levels : t[q] \in Seq(NodeType)
    BY <1>1, <1>9, <1>11
  <2>3. QED
    BY <2>1, <2>2 DEF TableType
\* Every remaining node was there before and is not the one removed.
<1>13. \A q \in Levels : \A k \in DOMAIN t[q] :
          \E m \in DOMAIN tbl[q] : /\ t[q][k] = tbl[q][m]
                                   /\ tbl[q][m].ptr # ptr
                                   /\ m = IF q = p THEN k + 1 ELSE k
  <2> SUFFICES ASSUME NEW q \in Levels, NEW k \in DOMAIN t[q]
               PROVE  \E m \in DOMAIN tbl[q] : /\ t[q][k] = tbl[q][m]
                                               /\ tbl[q][m].ptr # ptr
                                               /\ m = IF q = p THEN k + 1 ELSE k
    OBVIOUS
  <2>1. CASE q = p
    <3>1. k \in 1 .. Len(tbl[p]) - 1 /\ k + 1 \in DOMAIN tbl[p] /\ k + 1 # 1
      BY <2>1, <1>10, <1>1
    <3>2. QED
      BY <2>1, <3>1, <1>5, <1>10
  <2>2. CASE q # p
    BY <2>2, <1>2, <1>4, <1>9
  <2>3. QED
    BY <2>1, <2>2
<1>14. \A q \in Levels : \A m \in DOMAIN tbl[q] :
          tbl[q][m].ptr # ptr => \E k \in DOMAIN t[q] : t[q][k] = tbl[q][m]
  <2> SUFFICES ASSUME NEW q \in Levels, NEW m \in DOMAIN tbl[q], tbl[q][m].ptr # ptr
               PROVE  \E k \in DOMAIN t[q] : t[q][k] = tbl[q][m]
    OBVIOUS
  <2>1. CASE q = p
    <3>1. m # 1 /\ m - 1 \in 1 .. Len(tbl[p]) - 1 /\ (m - 1) + 1 = m
      BY <2>1, <1>1, <1>5
    <3>2. QED
      BY <2>1, <3>1, <1>10
  <2>2. CASE q # p
    BY <2>2, <1>9
  <2>3. QED
    BY <2>1, <2>2
<1> DEFINE g == Free(h, ptr)
<1> HIDE DEF g
<1>15. \A q \in Levels : \A k \in DOMAIN t[q] :
         /\ t[q][k].ptr - HdrSize \in g.busy
         /\ t[q][k].ptr + NodeSize + t[q][k].ev.len <= g.next[t[q][k].ptr - HdrSize]
  <2> SUFFICES ASSUME NEW q \in Levels, NEW k \in DOMAIN t[q]
               PROVE  /\ t[q][k].ptr - HdrSize \in g.busy
                      /\ t[q][k].ptr + NodeSize + t[q][k].ev.len
                           <= g.next[t[q][k].ptr - HdrSize]
    OBVIOUS
  <2>1. PICK m \in DOMAIN tbl[q] : t[q][k] = tbl[q][m] /\ tbl[q][m].ptr # ptr
    BY <1>13
  <2>2. tbl[q][m].ptr - HdrSize # ptr - HdrSize
    BY <2>1, <1>3, <1>5 DEF HdrSize
  <2>3. QED
    BY <2>1, <2>2, <1>3, <1>7 DEF g
<1>16. \A b \in g.busy :
         \E q \in Levels : \E k \in DOMAIN t[q] : t[q][k].ptr = b + HdrSize
  <2> SUFFICES ASSUME NEW b \in g.busy
               PROVE  \E q \in Levels : \E k \in DOMAIN t[q] : t[q][k].ptr = b + HdrSize
    OBVIOUS
  <2>1. b \in h.busy /\ b # ptr - HdrSize /\ b \in Nat
    BY <1>7 DEF g, Sound, HeapType
  <2>2. PICK q \in Levels : \E m \in DOMAIN tbl[q] : tbl[q][m].ptr = b + HdrSize
    BY <2>1 DEF OwnBlocks
  <2>3. PICK m \in DOMAIN tbl[q] : tbl[q][m].ptr = b + HdrSize
    BY <2>2
  <2>4. tbl[q][m].ptr # ptr
    BY <2>1, <2>3, <1>5 DEF HdrSize
  <2>5. QED
    BY <2>3, <2>4, <1>14
<1>17. \A q, s \in Levels : \A k \in DOMAIN t[q], m \in DOMAIN t[s] :
         t[q][k].ptr = t[s][m].ptr => q = s /\ k = m
  <2> SUFFICES ASSUME NEW q \in Levels, NEW s \in Levels, NEW k \in DOMAIN t[q],
                      NEW m \in DOMAIN t[s], t[q][k].ptr = t[s][m].ptr
               PROVE  q = s /\ k = m
    OBVIOUS
  <2>1. PICK k1 \in DOMAIN tbl[q] :
          t[q][k] = tbl[q][k1] /\ k1 = IF q = p THEN k + 1 ELSE k
    BY <1>13
  <2>2. PICK m1 \in DOMAIN tbl[s] :
          t[s][m] = tbl[s][m1] /\ m1 = IF s = p THEN m + 1 ELSE m
    BY <1>13
  <2>3. q = s /\ k1 = m1
    BY <2>1, <2>2, <1>4
  <2>4. CASE q = p
    <3>1. k \in Int /\ m \in Int
      BY <2>3, <2>4, <1>10, <1>1
    <3>2. QED
      BY <2>1, <2>2, <2>3, <2>4, <3>1
  <2>5. CASE q # p
    BY <2>1, <2>2, <2>3, <2>5
  <2>6. QED
    BY <2>4, <2>5
<1>18. OwnBlocks(g, t)
  BY <1>15, <1>16, <1>17 DEF OwnBlocks
<1>19. QED
  BY <1>7, <1>12, <1>18 DEF g, t

-----------------------------------------------------------------------------
\* The clock comparisons of src/rtbus.c on a due time that is l ms away.
LEMMA ClockFacts ==
  ASSUME NEW t \in 0 .. 2 * Half - 1, NEW due \in 0 .. 2 * Half - 1,
         NEW l \in Span, After32(due, t, l)
  PROVE  /\ DueReached(t, due) <=> l <= 0
         /\ TimeoutUntil(t, due) \in Nat
         /\ TimeoutUntil(t, due) = 0 \/ TimeoutUntil(t, due) <= l
<1>1. Half \in Nat /\ Half # 0
  BY RtbusAssumption
<1>2. \A x \in Int : Wrap(x) \in Int
  BY <1>1 DEF Wrap
<1>3. CASE due - (t + l) = 0
  BY <1>1, <1>3 DEF Wrap, DueReached, TimeoutUntil, Span
<1>4. CASE due - (t + l) = 2 * Half
  BY <1>1, <1>4 DEF Wrap, DueReached, TimeoutUntil, Span
<1>5. CASE due - (t + l) = -2 * Half
  BY <1>1, <1>5 DEF Wrap, DueReached, TimeoutUntil, Span
<1>6. QED
  BY <1>3, <1>4, <1>5 DEF After32

\* k_uptime_get_32 counts a millisecond, and a due time is one closer.
LEMMA MillisecondPasses ==
  ASSUME NEW t \in 0 .. 2 * Half - 1, NEW u \in 0 .. 2 * Half - 1,
         u - t \in {1, 1 - 2 * Half},
         NEW due \in 0 .. 2 * Half - 1, NEW l \in Span, After32(due, t, l)
  PROVE  After32(due, u, l - 1)
<1>1. Half \in Nat /\ Half # 0 /\ l \in Int /\ l <= Half /\ 1 - Half <= l
  BY RtbusAssumption DEF Span
<1>2. CASE u = t + 1
  BY <1>1, <1>2 DEF After32
<1>3. CASE u = t + 1 - 2 * Half
  <2>1. u = 0 /\ t = 2 * Half - 1
    BY <1>1, <1>3
  <2>2. due - (t + l) # 2 * Half
    BY <1>1, <2>1
  <2>3. due - (u + (l - 1)) = due - (t + l) + 2 * Half
    BY <1>1, <1>3
  <2>4. due - (t + l) = 0 \/ due - (t + l) = -2 * Half
    BY <2>2 DEF After32
  <2>5. due - (u + (l - 1)) = 2 * Half \/ due - (u + (l - 1)) = 0
    BY <1>1, <2>3, <2>4
  <2>6. QED
    BY <2>5 DEF After32
<1>4. QED
  BY <1>1, <1>2, <1>3

\* emos_post keeps nodes and blocks together, and the heads of the lists;
\* before start-up it is refused.
LEMMA PostKeeps ==
  ASSUME TypeOK, NodesOwnBlocks, TableChecked,
         NEW ev \in EventType, NEW given \in BOOLEAN, NEW ok \in BOOLEAN,
         emos_post(ev, given, ok)
  PROVE  /\ task_tbl' \in TableType
         /\ HeapType(heap')
         /\ Sound(heap') /\ OwnBlocks(heap', task_tbl')
         /\ sem' \in 0 .. 1
         /\ \A q \in Levels : task_tbl[q] # <<>> =>
              task_tbl'[q] # <<>> /\ task_tbl'[q][1] = task_tbl[q][1]
         /\ entry_count = 0 => task_tbl' = task_tbl
<1>1. task_tbl \in TableType /\ sem \in 0 .. 1 /\ Sound(heap) /\ OwnBlocks(heap, task_tbl)
  BY DEF TypeOK, QueueOK, NodesOwnBlocks, TableType
<1>2. CASE UNCHANGED queue
  BY <1>1, <1>2 DEF queue, Sound
<1>3. CASE ~Refused(ev, given)
  <2>1. PICK r \in Malloc(heap, NodeLen(ev)) :
          /\ ok = (r.ptr # NoBlock)
          /\ heap' = r.heap
          /\ task_tbl' = IF ok THEN Queued(task_tbl, LevelOf(ev.task), r.ptr, ev)
                         ELSE task_tbl
          /\ sem' = IF ok THEN 1 ELSE sem
    BY <1>3 DEF emos_post
  <2>2. entry_count # 0 /\ Registered(ev.task)
    BY <1>3 DEF Refused
  <2>3. LevelOf(ev.task) \in Levels
    BY <2>2 DEF TableChecked, EntriesRejected, LevelOf, Registered
  <2>4. NodeLen(ev) \in Nat
    BY DEF NodeLen, NodeSize, EventType
  <2>5. CASE r.ptr # NoBlock
    <3> DEFINE t == Queued(task_tbl, LevelOf(ev.task), r.ptr, ev)
    <3>1. task_tbl' = t
      BY <2>1, <2>5
    <3>2. /\ t \in TableType
          /\ Sound(r.heap)
          /\ OwnBlocks(r.heap, t)
          /\ \A q \in Levels : task_tbl[q] # <<>> => t[q] # <<>> /\ t[q][1] = task_tbl[q][1]
      BY <1>1, <2>3, <2>5, AppendOwns
    <3> HIDE DEF t
    <3>3. QED
      BY <1>1, <2>1, <2>2, <3>1, <3>2 DEF Sound
  <2>6. CASE r.ptr = NoBlock
    <3>1. r.heap = heap
      BY <1>1, <2>4, <2>6, MallocSound DEF NoBlock
    <3>2. QED
      BY <1>1, <2>1, <2>2, <2>6, <3>1 DEF Sound
  <2>7. QED
    BY <2>5, <2>6
<1>4. QED
  BY <1>2, <1>3 DEF emos_post

\* Before emos_init has run nothing is queued and the pool is detached.
LEMMA BusInvInit == RtbusInit => BusInv
<1> SUFFICES ASSUME RtbusInit PROVE BusInv
  OBVIOUS
<1>1. entry_tbl \in Seq(Entry)
  BY RtbusAssumption DEF RtbusInit
<1>2. heap = InitPool(0, 0) /\ Sound(heap) /\ heap.busy = {}
  BY InitPoolSound DEF RtbusInit, InitPool
<1>3. \A p \in Levels : task_tbl[p] = <<>> /\ DOMAIN task_tbl[p] = {}
  BY DEF RtbusInit
<1>4. NodesOwnBlocks
  BY <1>2, <1>3 DEF NodesOwnBlocks, OwnBlocks
<1>5. TypeOK
  <2>1. task_tbl \in [Levels -> Seq(NodeType)]
    BY <1>3, EmptySeq DEF RtbusInit
  <2>2. msgq \in Seq(EventType) /\ Len(msgq) <= AsyncDepth
    BY EmptySeq, RtbusAssumption DEF RtbusInit
  <2>3. /\ 0 \in Levels
        /\ delayed_events \in [1 .. Depth -> SlotType]
        /\ left \in [1 .. Depth -> -Half .. Half]
        /\ 0 \in 0 .. HeldMax
    BY RtbusAssumption DEF RtbusInit, Levels, SlotType, HeldMax
  <2>4. TableOK /\ QueueOK
    BY <1>2, <2>1 DEF RtbusInit, TableOK, QueueOK, Sound, Entries
  <2>5. SlotsOK /\ ThreadOK /\ LedgerOK
    BY <2>2, <2>3, RtbusAssumption DEF RtbusInit, SlotsOK, ThreadOK, LedgerOK
  <2>6. QED
    BY <2>4, <2>5 DEF TypeOK
<1>6. \A s \in 1 .. Depth : ~Used(s)
  BY DEF RtbusInit, Used, Unused
<1>7. QED
  BY <1>3, <1>4, <1>5, <1>6 DEF BusInv, RtbusInit, TableChecked, ServedIsHead,
                                DueTellsLeft, DueToldLeft, NoOversleep

-----------------------------------------------------------------------------
\* The facts about the types that the steps below use.
LEMMA Types ==
  ASSUME TypeOK
  PROVE  /\ entry_tbl \in Seq(Entry) /\ Len(entry_tbl) \in Nat
         /\ Entries = 1 .. Len(entry_tbl)
         /\ task_tbl \in TableType
         /\ \A p \in Levels : task_tbl[p] # <<>> => task_tbl[p][1] \in NodeType
         /\ \A s \in 1 .. Depth : Used(s) =>
              /\ delayed_events[s].ev \in EventType
              /\ delayed_events[s].due \in 0 .. 2 * Half - 1
<1>1. entry_tbl \in Seq(Entry) /\ Len(entry_tbl) \in Nat /\ Entries = 1 .. Len(entry_tbl)
  BY RtbusAssumption, LenProperties DEF TypeOK, TableOK, Entries
<1>2. \A p \in Levels : task_tbl[p] # <<>> => task_tbl[p][1] \in NodeType
  <2> SUFFICES ASSUME NEW p \in Levels, task_tbl[p] # <<>>
               PROVE  task_tbl[p][1] \in NodeType
    OBVIOUS
  <2>1. task_tbl[p] \in Seq(NodeType)
    BY DEF TypeOK, QueueOK
  <2>2. Len(task_tbl[p]) \in Nat \ {0}
    BY <2>1, EmptySeq
  <2>3. QED
    BY <2>1, <2>2, ElementOfSeq
<1>3. \A s \in 1 .. Depth : Used(s) =>
        /\ delayed_events[s].ev \in EventType
        /\ delayed_events[s].due \in 0 .. 2 * Half - 1
  <2> SUFFICES ASSUME NEW s \in 1 .. Depth, Used(s)
               PROVE  /\ delayed_events[s].ev \in EventType
                      /\ delayed_events[s].due \in 0 .. 2 * Half - 1
    OBVIOUS
  <2>1. delayed_events[s] \in SlotType
    BY DEF TypeOK, SlotsOK
  <2>2. delayed_events[s] # Unused
    BY DEF Used, Unused
  <2>3. QED
    BY <2>1, <2>2 DEF SlotType
<1>4. QED
  BY <1>1, <1>2, <1>3 DEF TypeOK, QueueOK, TableType

\* The types survive where nothing changes, and where the runtime thread only
\* moves on.
LEMMA Stays ==
  /\ TableOK /\ UNCHANGED <<table, polling>> => TableOK'
  /\ QueueOK /\ UNCHANGED queue => QueueOK'
  /\ SlotsOK /\ UNCHANGED <<delayed, now>> => SlotsOK'
  /\ LedgerOK /\ UNCHANGED <<msgq, ledger>> => LedgerOK'
  /\ ThreadOK /\ UNCHANGED <<thread, table>> => ThreadOK'
<1>1. TableOK /\ UNCHANGED <<table, polling>> => TableOK'
  BY DEF TableOK, table, polling, Entries
<1>2. QueueOK /\ UNCHANGED queue => QueueOK'
  BY DEF QueueOK, queue
<1>3. SlotsOK /\ UNCHANGED <<delayed, now>> => SlotsOK'
  BY DEF SlotsOK, delayed
<1>4. LedgerOK /\ UNCHANGED <<msgq, ledger>> => LedgerOK'
  BY DEF LedgerOK, ledger
<1>5. ThreadOK /\ UNCHANGED <<thread, table>> => ThreadOK'
  BY DEF ThreadOK, thread, locals, table, Entries
<1>6. QED
  BY <1>1, <1>2, <1>3, <1>4, <1>5

\* The runtime thread's moves from one call to the next keep its own types.
LEMMA Moves ==
  ASSUME ThreadOK, now \in 0 .. 2 * Half - 1
  PROVE  /\ \A label \in {"init", "drain", "pick", "sleep", "dead"} :
              Goto(label) => ThreadOK' /\ pc' = label
         /\ pc # "poll" /\ Advance => ThreadOK' /\ pc' = pc
         /\ StartPass => ThreadOK' /\ pc' = "move"
<1>1. /\ 0 \in 0 .. 2 * Half - 1 /\ 0 \in Levels /\ 0 \in 0 .. TimeoutMax
      /\ 1 \in Nat \ {0} /\ 0 \in 0 .. HeldMax
  BY RtbusAssumption DEF Levels, HeldMax
<1>2. ASSUME NEW label \in {"init", "drain", "pick", "sleep", "dead"}, Goto(label)
      PROVE  ThreadOK' /\ pc' = label
  BY <1>1, <1>2 DEF Goto, Enter, ThreadOK
<1>3. ASSUME pc # "poll", Advance
      PROVE  ThreadOK' /\ pc' = pc
  <2>1. i + 1 \in Nat \ {0}
    BY DEF ThreadOK
  <2>2. QED
    BY <1>3, <2>1 DEF Advance, ThreadOK
<1>4. ASSUME StartPass
      PROVE  ThreadOK' /\ pc' = "move"
  BY <1>1, <1>4 DEF StartPass, ThreadOK
<1>5. QED
  BY <1>2, <1>3, <1>4

\* A step that leaves the clock and the slots alone keeps what is known of the
\* time that is left, outside of the pass over the slots and the sleep.
LEMMA ClockUnchanged ==
  ASSUME DueTellsLeft, UNCHANGED <<delayed, now>>, pc' \notin {"move", "doze", "wait"}
  PROVE  DueTellsLeft' /\ DueToldLeft' /\ NoOversleep'
  BY DEF DueTellsLeft, DueToldLeft, NoOversleep, delayed, Used, After32

\* rtbus_move_due_events reads the clock: what it read tells the time left.
LEMMA PassStarts ==
  ASSUME DueTellsLeft, TypeOK, UNCHANGED <<delayed, now>>, StartPass
  PROVE  DueTellsLeft' /\ DueToldLeft' /\ NoOversleep'
<1>1. DueTellsLeft' /\ NoOversleep'
  BY DEF DueTellsLeft, NoOversleep, delayed, Used, After32, StartPass
<1>2. DueToldLeft'
  <2> SUFFICES ASSUME NEW s \in 1 .. Depth, Used(s)', left'[s] # -Half
               PROVE  (\E l \in Span : left[s] <= l
                                      /\ After32(delayed_events[s].due, now_ms, l))'
    BY DEF DueToldLeft
  <2>1. Used(s) /\ left' = left /\ delayed_events' = delayed_events /\ now_ms' = now
    BY DEF delayed, Used, StartPass
  <2>2. left[s] \in Span /\ After32(delayed_events[s].due, now, left[s])
    BY <2>1 DEF DueTellsLeft
  <2>3. left[s] <= left[s]
    BY <2>2, RtbusAssumption DEF Span
  <2>4. QED
    BY <2>1, <2>2, <2>3 DEF After32
<1>3. QED
  BY <1>1, <1>2

-----------------------------------------------------------------------------
(***************************************************************************)
(* One lemma per step: the invariant survives.                             *)
(***************************************************************************)

\* emos_init checks the table and attaches the pool, or gives up.
LEMMA BootKeeps == BusInv /\ Boot => BusInv'
<1> SUFFICES ASSUME BusInv, Boot PROVE BusInv'
  OBVIOUS
<1> USE DEF BusInv
<1>1. /\ entry_tbl \in Seq(Entry) /\ Len(entry_tbl) \in Nat /\ Entries = 1 .. Len(entry_tbl)
      /\ task_tbl \in TableType
  BY Types
<1>2. /\ heap' = InitPool(Pool.start, Pool.len) /\ Sound(heap') /\ heap'.busy = {}
  BY RtbusAssumption, InitPoolSound DEF Boot, InitPool
<1>3. /\ pc' \in {"dead", "init"} /\ i' = 1 /\ now_ms' = 0 /\ level' = 0
      /\ proc' = NoBlock /\ wait' = 0 /\ held' = 0
      /\ entry_count' \in {0, Len(entry_tbl)}
      /\ pc' = "init" => entry_count' = Len(entry_tbl) /\ ~EntriesRejected
      /\ pc' = "dead" => entry_count' = 0
      /\ entry_tbl' = entry_tbl /\ task_tbl' = task_tbl /\ sem' = sem
      /\ UNCHANGED <<polling, delayed, msgq, now, posts, done, lost>>
  BY DEF Boot, Goto, Enter, ledger
<1>4. \A p \in Levels : task_tbl[p] = <<>> /\ DOMAIN task_tbl[p] = {}
  BY DEF TableChecked, Boot
<1>5. poll_next_index = 0 /\ entry_count = 0
  BY DEF TypeOK, TableOK, TableChecked, Boot
<1>6. TypeOK'
  <2>1. TableOK'
    <3>1. poll_next_index' = 0 /\ overtaken' = overtaken /\ Entries' = Entries
      BY <1>3, <1>5 DEF polling, Entries
    <3>2. \A n \in Nat : 0 \in 0 .. (IF n = 0 THEN 0 ELSE n - 1)
      OBVIOUS
    <3>3. entry_count' \in Nat
      BY <1>1, <1>3
    <3>4. QED
      BY <1>3, <3>1, <3>2, <3>3 DEF TypeOK, TableOK
  <2>2. QueueOK' /\ SlotsOK' /\ LedgerOK'
    BY <1>2, <1>3 DEF TypeOK, QueueOK, SlotsOK, LedgerOK, delayed, Sound
  <2>3. ThreadOK'
    BY <1>3, RtbusAssumption DEF ThreadOK, Levels, HeldMax
  <2>4. QED
    BY <2>1, <2>2, <2>3 DEF TypeOK
<1>7. NodesOwnBlocks'
  BY <1>2, <1>3, <1>4 DEF NodesOwnBlocks, OwnBlocks
<1>8. TableChecked' /\ ServedIsHead'
  <2>1. entry_tbl # <<>> => Len(entry_tbl) # 0
    BY <1>1, EmptySeq
  <2>2. EntriesRejected' <=> EntriesRejected
    BY <1>3 DEF EntriesRejected, Entries
  <2>3. ~EntriesRejected => Len(entry_tbl) # 0
    BY <2>1 DEF EntriesRejected
  <2>4. QED
    BY <1>3, <1>5, <2>2, <2>3 DEF TableChecked, ServedIsHead
<1>9. DueTellsLeft' /\ DueToldLeft' /\ NoOversleep'
  BY <1>3, ClockUnchanged
<1>10. QED
  BY <1>6, <1>7, <1>8, <1>9

\* emos_init posts SYS_INIT; a post that fails ends the runtime thread.
LEMMA PostInitKeeps == BusInv /\ PostInit => BusInv'
<1> SUFFICES ASSUME BusInv, PostInit PROVE BusInv'
  OBVIOUS
<1> USE DEF BusInv
<1>1. /\ entry_tbl \in Seq(Entry) /\ Len(entry_tbl) \in Nat /\ Entries = 1 .. Len(entry_tbl)
      /\ task_tbl \in TableType
  BY Types
<1>2. /\ pc = "init" /\ i \in Nat \ {0} /\ now \in 0 .. 2 * Half - 1
      /\ UNCHANGED <<table, polling, delayed, msgq, now, ledger>>
  BY DEF PostInit, TypeOK, ThreadOK, SlotsOK
<1>3. TableOK' /\ SlotsOK' /\ LedgerOK'
  BY <1>2, Stays DEF TypeOK
<1>4. CASE StartPass /\ UNCHANGED queue
  <2>1. TypeOK' /\ pc' = "move"
    BY <1>2, <1>3, <1>4, Stays, Moves DEF TypeOK
  <2>2. NodesOwnBlocks' /\ ServedIsHead' /\ TableChecked'
    BY <1>2, <1>4, <2>1 DEF NodesOwnBlocks, ServedIsHead, TableChecked, EntriesRejected,
                            Entries, queue, table
  <2>3. DueTellsLeft' /\ DueToldLeft' /\ NoOversleep'
    BY <1>2, <1>4, PassStarts
  <2>4. QED
    BY <2>1, <2>2, <2>3
<1>5. CASE Advance /\ UNCHANGED queue
  <2>1. TypeOK' /\ pc' = "init"
    BY <1>2, <1>3, <1>5, Stays, Moves DEF TypeOK
  <2>2. NodesOwnBlocks' /\ ServedIsHead' /\ TableChecked'
    BY <1>2, <1>5, <2>1 DEF NodesOwnBlocks, ServedIsHead, TableChecked, EntriesRejected,
                            Entries, queue, table
  <2>3. DueTellsLeft' /\ DueToldLeft' /\ NoOversleep'
    BY <1>2, <2>1, ClockUnchanged
  <2>4. QED
    BY <2>1, <2>2, <2>3
<1>6. CASE i <= entry_count /\ \E ok \in BOOLEAN :
             /\ emos_post(Event(entry_tbl[i].task, 0, 0, FALSE), FALSE, ok)
             /\ IF ok THEN Advance ELSE Goto("dead")
  <2>1. PICK ok \in BOOLEAN :
          /\ emos_post(Event(entry_tbl[i].task, 0, 0, FALSE), FALSE, ok)
          /\ IF ok THEN Advance ELSE Goto("dead")
    BY <1>6
  <2>2. i \in 1 .. Len(entry_tbl)
    BY <1>1, <1>2, <1>6 DEF TypeOK, TableOK
  <2>3. entry_tbl[i] \in Entry
    BY <1>1, <2>2, ElementOfSeq
  <2>4. Event(entry_tbl[i].task, 0, 0, FALSE) \in EventType
    BY <2>3 DEF Event, EventType, Entry
  <2>5. /\ task_tbl' \in TableType /\ HeapType(heap')
        /\ Sound(heap') /\ OwnBlocks(heap', task_tbl') /\ sem' \in 0 .. 1
    BY <2>1, <2>4, PostKeeps
  <2>6. ThreadOK' /\ pc' \in {"init", "dead"}
    BY <1>2, <2>1, Moves DEF TypeOK
  <2>7. TypeOK'
    BY <1>3, <2>5, <2>6 DEF TypeOK, QueueOK, TableType
  <2>8. NodesOwnBlocks' /\ ServedIsHead' /\ TableChecked'
    BY <1>2, <2>5, <2>6 DEF NodesOwnBlocks, ServedIsHead, TableChecked, EntriesRejected,
                            Entries, table
  <2>9. DueTellsLeft' /\ DueToldLeft' /\ NoOversleep'
    BY <1>2, <2>6, ClockUnchanged
  <2>10. QED
    BY <2>7, <2>8, <2>9
<1>7. QED
  <2>1. i > entry_count \/ i <= entry_count
    BY <1>1, <1>2 DEF TypeOK, TableOK
  <2>2. QED
    BY <1>4, <1>5, <1>6, <2>1 DEF PostInit

\* rtbus_move_due_events: a slot stays, or it is emptied because it was due and
\* emos_post took its event.
LEMMA MoveDueKeeps == BusInv /\ MoveDue => BusInv'
<1> SUFFICES ASSUME BusInv, MoveDue PROVE BusInv'
  OBVIOUS
<1> USE DEF BusInv
<1>1. /\ pc = "move" /\ i \in Nat \ {0} /\ now \in 0 .. 2 * Half - 1
      /\ delayed_events \in [1 .. Depth -> SlotType]
      /\ left \in [1 .. Depth -> -Half .. Half]
      /\ UNCHANGED <<table, polling, msgq, now, ledger>>
  BY DEF MoveDue, TypeOK, ThreadOK, SlotsOK
<1>2. TableOK' /\ LedgerOK'
  BY <1>1, Stays DEF TypeOK
<1>3. CASE Goto("drain") /\ UNCHANGED <<queue, delayed>>
  <2>1. TypeOK' /\ pc' = "drain"
    BY <1>1, <1>2, <1>3, Stays, Moves DEF TypeOK
  <2>2. NodesOwnBlocks' /\ ServedIsHead' /\ TableChecked'
    BY <1>1, <1>3, <2>1 DEF NodesOwnBlocks, ServedIsHead, TableChecked, EntriesRejected,
                            Entries, queue, table
  <2>3. DueTellsLeft' /\ DueToldLeft' /\ NoOversleep'
    BY <1>1, <1>3, <2>1, ClockUnchanged
  <2>4. QED
    BY <2>1, <2>2, <2>3
<1>4. CASE Advance /\ UNCHANGED <<queue, delayed>>
  <2>1. TypeOK' /\ pc' = "move"
    BY <1>1, <1>2, <1>4, Stays, Moves DEF TypeOK
  <2>2. NodesOwnBlocks' /\ ServedIsHead' /\ TableChecked'
    BY <1>1, <1>4, <2>1 DEF NodesOwnBlocks, ServedIsHead, TableChecked, EntriesRejected,
                            Entries, queue, table
  <2>3. DueTellsLeft' /\ DueToldLeft' /\ NoOversleep'
    BY <1>1, <1>4, <2>1 DEF DueTellsLeft, DueToldLeft, NoOversleep, delayed, Used,
                            After32, Advance
  <2>4. QED
    BY <2>1, <2>2, <2>3
<1>5. CASE i <= Depth /\ IsDue(i) /\ \E ok \in BOOLEAN :
             /\ emos_post(delayed_events[i].ev, TRUE, ok)
             /\ IF ok THEN Emptied(i) /\ Advance
                      ELSE GivesUp /\ UNCHANGED delayed
  <2>1. PICK ok \in BOOLEAN :
          /\ emos_post(delayed_events[i].ev, TRUE, ok)
          /\ IF ok THEN Emptied(i) /\ Advance ELSE GivesUp /\ UNCHANGED delayed
    BY <1>5
  <2>2. i \in 1 .. Depth /\ delayed_events[i].ev \in EventType
    BY <1>1, <1>5, RtbusAssumption, Types DEF IsDue
  <2>3. /\ task_tbl' \in TableType /\ HeapType(heap')
        /\ Sound(heap') /\ OwnBlocks(heap', task_tbl') /\ sem' \in 0 .. 1
    BY <2>1, <2>2, PostKeeps
  <2>4. ThreadOK' /\ pc' = IF ok THEN "move" ELSE "sleep"
    BY <1>1, <2>1, Moves DEF TypeOK, GivesUp
  <2>5. /\ \A s \in 1 .. Depth : Used(s)' => /\ Used(s)
                                              /\ delayed_events'[s] = delayed_events[s]
                                              /\ left'[s] = left[s]
        /\ SlotsOK'
    <3>1. CASE ok
      <4>1. /\ delayed_events' = [delayed_events EXCEPT ![i] = Unused]
            /\ left' = [left EXCEPT ![i] = 0]
        BY <2>1, <3>1 DEF Emptied
      <4>2. Unused \in SlotType /\ Unused.used = FALSE
        BY DEF SlotType, Unused
      <4>3. SlotsOK'
        BY <1>1, <2>2, <4>1, <4>2, RtbusAssumption DEF SlotsOK
      <4>4. \A s \in 1 .. Depth : s # i => /\ delayed_events'[s] = delayed_events[s]
                                           /\ left'[s] = left[s]
        BY <1>1, <4>1
      <4>5. delayed_events'[i] = Unused
        BY <1>1, <2>2, <4>1
      <4>6. QED
        BY <4>2, <4>3, <4>4, <4>5 DEF Used
    <3>2. CASE ~ok
      BY <1>1, <2>1, <3>2, Stays DEF delayed, Used, TypeOK
    <3>3. QED
      BY <3>1, <3>2
  <2>6. TypeOK'
    BY <1>2, <2>3, <2>4, <2>5 DEF TypeOK, QueueOK, TableType
  <2>7. NodesOwnBlocks' /\ ServedIsHead' /\ TableChecked'
    BY <1>1, <2>3, <2>4 DEF NodesOwnBlocks, ServedIsHead, TableChecked, EntriesRejected,
                            Entries, table
  <2>8. DueTellsLeft' /\ NoOversleep'
    BY <1>1, <2>4, <2>5 DEF DueTellsLeft, NoOversleep, After32
  <2>9. pc' = "move" => now_ms' = now_ms
    BY <2>1, <2>4 DEF Advance
  <2>10. DueToldLeft'
    BY <1>1, <2>5, <2>9 DEF DueToldLeft, After32
  <2>11. QED
    BY <2>6, <2>7, <2>8, <2>10
<1>6. QED
  <2>1. i > Depth \/ i <= Depth
    BY <1>1, RtbusAssumption
  <2>2. QED
    BY <1>3, <1>4, <1>5, <2>1 DEF MoveDue

\* rtbus_process_async_posts moves a message to a list or drops it.
LEMMA DrainAsyncKeeps == BusInv /\ DrainAsync => BusInv'
<1> SUFFICES ASSUME BusInv, DrainAsync PROVE BusInv'
  OBVIOUS
<1> USE DEF BusInv
<1>1. /\ pc = "drain" /\ now \in 0 .. 2 * Half - 1 /\ msgq \in Seq(EventType)
      /\ UNCHANGED <<table, polling, delayed, now, posts, done>>
  BY DEF DrainAsync, TypeOK, ThreadOK, SlotsOK, LedgerOK
<1>2. TableOK' /\ SlotsOK'
  BY <1>1, Stays DEF TypeOK
<1>3. CASE Goto("pick") /\ UNCHANGED <<queue, msgq, lost>>
  <2>1. TypeOK' /\ pc' = "pick"
    BY <1>1, <1>2, <1>3, Stays, Moves DEF TypeOK, ledger
  <2>2. NodesOwnBlocks' /\ ServedIsHead' /\ TableChecked'
    BY <1>1, <1>3, <2>1 DEF NodesOwnBlocks, ServedIsHead, TableChecked, EntriesRejected,
                            Entries, queue, table
  <2>3. DueTellsLeft' /\ DueToldLeft' /\ NoOversleep'
    BY <1>1, <2>1, ClockUnchanged
  <2>4. QED
    BY <2>1, <2>2, <2>3
<1>4. CASE msgq # <<>> /\ \E ok \in BOOLEAN :
             /\ emos_post(Head(msgq), TRUE, ok)
             /\ msgq' = Fetched(ok)
             /\ lost' = IF ok THEN lost ELSE lost \cup Counted(Head(msgq))
             /\ IF ok THEN UNCHANGED thread ELSE Goto("sleep")
  <2>1. PICK ok \in BOOLEAN :
          /\ emos_post(Head(msgq), TRUE, ok)
          /\ msgq' = Tail(msgq)
          /\ lost' = IF ok THEN lost ELSE lost \cup Counted(Head(msgq))
          /\ IF ok THEN UNCHANGED thread ELSE Goto("sleep")
    BY <1>4 DEF Fetched
  <2>2. /\ Head(msgq) \in EventType /\ Tail(msgq) \in Seq(EventType)
        /\ Len(Tail(msgq)) = Len(msgq) - 1 /\ Len(msgq) \in Nat
    BY <1>1, <1>4, HeadTailProperties, LenProperties
  <2>3. /\ task_tbl' \in TableType /\ HeapType(heap')
        /\ Sound(heap') /\ OwnBlocks(heap', task_tbl') /\ sem' \in 0 .. 1
    BY <2>1, <2>2, PostKeeps
  <2>4. ThreadOK' /\ pc' \in {"drain", "sleep"}
    BY <1>1, <2>1, Moves, Stays DEF TypeOK, thread
  <2>5. LedgerOK'
    <3>1. Counted(Head(msgq)) \subseteq 1 .. MaxPosts
      BY DEF Counted
    <3>2. Len(msgq) <= AsyncDepth /\ AsyncDepth \in Nat
      BY RtbusAssumption DEF TypeOK, LedgerOK
    <3>3. Len(msgq') <= AsyncDepth
      BY <2>1, <2>2, <3>2
    <3>4. lost' \subseteq 1 .. MaxPosts
      BY <2>1, <3>1 DEF TypeOK, LedgerOK
    <3>5. QED
      BY <1>1, <2>1, <2>2, <3>3, <3>4 DEF TypeOK, LedgerOK
  <2>6. TypeOK'
    BY <1>2, <2>3, <2>4, <2>5 DEF TypeOK, QueueOK, TableType
  <2>7. NodesOwnBlocks' /\ ServedIsHead' /\ TableChecked'
    BY <1>1, <2>3, <2>4 DEF NodesOwnBlocks, ServedIsHead, TableChecked, EntriesRejected,
                            Entries, table
  <2>8. DueTellsLeft' /\ DueToldLeft' /\ NoOversleep'
    BY <1>1, <2>4, ClockUnchanged
  <2>9. QED
    BY <2>6, <2>7, <2>8
<1>5. QED
  BY <1>3, <1>4 DEF DrainAsync

\* emos_process_queued_event hands the head of a list to its handler.
LEMMA CallHandlerKeeps == BusInv /\ CallHandler => BusInv'
<1> SUFFICES ASSUME BusInv, CallHandler PROVE BusInv'
  OBVIOUS
<1> USE DEF BusInv
<1>1. /\ pc = "pick" /\ now \in 0 .. 2 * Half - 1
      /\ UNCHANGED <<table, queue, polling, delayed, msgq, now, posts, lost>>
  BY DEF CallHandler, TypeOK, SlotsOK
<1>2. PICK p \in Pending : /\ Enter("handler", 1, p, Head(task_tbl[p]).ptr, 0)
                           /\ done' = done \cup Counted(Head(task_tbl[p]).ev)
  BY DEF CallHandler
<1>3. /\ p \in Levels /\ task_tbl[p] # <<>>
      /\ Head(task_tbl[p]) = task_tbl[p][1] /\ task_tbl[p][1] \in NodeType
  BY Types DEF Pending
<1>4. TableOK' /\ SlotsOK' /\ QueueOK'
  BY <1>1, Stays DEF TypeOK
<1>5. ThreadOK' /\ pc' = "handler" /\ level' = p /\ proc' = task_tbl[p][1].ptr
  BY <1>2, <1>3, RtbusAssumption DEF Enter, ThreadOK, NodeType, HeldMax
<1>6. LedgerOK'
  BY <1>1, <1>2, <1>3 DEF TypeOK, LedgerOK, Counted
<1>7. NodesOwnBlocks' /\ ServedIsHead' /\ TableChecked'
  BY <1>1, <1>3, <1>5 DEF NodesOwnBlocks, ServedIsHead, TableChecked, EntriesRejected,
                          Entries, queue, table
<1>8. DueTellsLeft' /\ DueToldLeft' /\ NoOversleep'
  BY <1>1, <1>5, ClockUnchanged
<1>9. QED
  BY <1>4, <1>5, <1>6, <1>7, <1>8 DEF TypeOK

\* linklist_remove unlinks the node that was served and frees its block: it is
\* still the head, so the list and the pool lose the same node.
LEMMA HandlerReturnsKeeps == BusInv /\ HandlerReturns => BusInv'
<1> SUFFICES ASSUME BusInv, HandlerReturns PROVE BusInv'
  OBVIOUS
<1> USE DEF BusInv
<1>1. /\ pc = "handler" /\ now \in 0 .. 2 * Half - 1
      /\ task_tbl' = Removed(task_tbl, level, proc)
      /\ heap' = Free(heap, proc)
      /\ Goto("sleep")
      /\ UNCHANGED <<table, sem, polling, delayed, msgq, now, ledger>>
  BY DEF HandlerReturns, TypeOK, SlotsOK
<1>2. TableOK' /\ SlotsOK' /\ LedgerOK'
  BY <1>1, Stays DEF TypeOK
<1>3. ThreadOK' /\ pc' = "sleep"
  BY <1>1, Moves DEF TypeOK
<1>4. /\ level \in Levels /\ task_tbl[level] # <<>> /\ proc = task_tbl[level][1].ptr
      /\ task_tbl \in TableType /\ Sound(heap) /\ OwnBlocks(heap, task_tbl)
  BY <1>1, Types DEF TypeOK, ThreadOK, ServedIsHead, NodesOwnBlocks
<1>5. /\ task_tbl' \in TableType /\ Sound(heap') /\ OwnBlocks(heap', task_tbl')
  BY <1>1, <1>4, RemoveOwns
<1>6. TypeOK'
  BY <1>1, <1>2, <1>3, <1>5 DEF TypeOK, QueueOK, TableType, Sound
<1>7. NodesOwnBlocks' /\ ServedIsHead' /\ TableChecked'
  BY <1>1, <1>3, <1>5 DEF NodesOwnBlocks, ServedIsHead, TableChecked, EntriesRejected,
                          Entries, table
<1>8. DueTellsLeft' /\ DueToldLeft' /\ NoOversleep'
  BY <1>1, <1>3, ClockUnchanged
<1>9. QED
  BY <1>6, <1>7, <1>8

\* emos_process_poll_event picks an index inside the entry table.
LEMMA CallPollKeeps == BusInv /\ CallPoll => BusInv'
<1> SUFFICES ASSUME BusInv, CallPoll PROVE BusInv'
  OBVIOUS
<1> USE DEF BusInv
<1>1. /\ pc = "pick" /\ now \in 0 .. 2 * Half - 1
      /\ UNCHANGED <<table, queue, polling, delayed, msgq, now, ledger>>
  BY DEF CallPoll, TypeOK, SlotsOK
<1>2. TableOK' /\ SlotsOK' /\ QueueOK' /\ LedgerOK'
  BY <1>1, Stays DEF TypeOK
<1>3. ThreadOK' /\ pc' \in {"poll", "sleep"}
  <2>1. CASE Goto("sleep")
    BY <1>1, <2>1, Moves DEF TypeOK
  <2>2. ASSUME NEW k \in 0 .. entry_count - 1, Enter("poll", After(k), 0, NoBlock, 0)
        PROVE  ThreadOK' /\ pc' \in {"poll", "sleep"}
    <3>1. /\ entry_count = Len(entry_tbl) /\ Entries = 1 .. Len(entry_tbl)
          /\ Len(entry_tbl) \in Nat /\ entry_count # 0
          /\ poll_next_index \in 0 .. entry_count - 1
      BY <1>1, Types DEF TypeOK, TableOK, TableChecked
    <3>2. After(k) \in 1 .. Len(entry_tbl)
      BY <3>1 DEF After
    <3>3. Entries' = 1 .. Len(entry_tbl)
      BY <1>1, <3>1 DEF table, Entries
    <3>4. QED
      BY <2>2, <3>1, <3>2, <3>3, RtbusAssumption DEF Enter, ThreadOK, Levels, HeldMax
  <2>3. QED
    BY <2>1, <2>2 DEF CallPoll
<1>4. NodesOwnBlocks' /\ ServedIsHead' /\ TableChecked'
  BY <1>1, <1>3 DEF NodesOwnBlocks, ServedIsHead, TableChecked, EntriesRejected,
                    Entries, queue, table
<1>5. DueTellsLeft' /\ DueToldLeft' /\ NoOversleep'
  BY <1>1, <1>3, ClockUnchanged
<1>6. QED
  BY <1>2, <1>3, <1>4, <1>5 DEF TypeOK

\* The index of the next poll stays inside the entry table.
LEMMA PollReturnsKeeps == BusInv /\ PollReturns => BusInv'
<1> SUFFICES ASSUME BusInv, PollReturns PROVE BusInv'
  OBVIOUS
<1> USE DEF BusInv
<1>1. /\ pc = "poll" /\ now \in 0 .. 2 * Half - 1
      /\ poll_next_index' = PastIndex(i)
      /\ overtaken' = [e \in Entries |-> IF e = i \/ ~entry_tbl[e].always THEN 0
                                         ELSE overtaken[e] + 1]
      /\ Goto("sleep")
      /\ UNCHANGED <<table, queue, delayed, msgq, now, ledger>>
  BY DEF PollReturns, TypeOK, SlotsOK
<1>2. SlotsOK' /\ QueueOK' /\ LedgerOK'
  BY <1>1, Stays DEF TypeOK
<1>3. TableOK'
  <2>1. /\ entry_count = Len(entry_tbl) /\ Len(entry_tbl) \in Nat /\ entry_count # 0
        /\ i \in 1 .. Len(entry_tbl)
    BY <1>1, Types DEF TypeOK, TableOK, ThreadOK, TableChecked
  <2>2. PastIndex(i) \in 0 .. entry_count - 1
    BY <2>1 DEF PastIndex
  <2>3. overtaken' \in [Entries -> Nat]
    BY <1>1 DEF TypeOK, TableOK
  <2>4. QED
    BY <1>1, <2>1, <2>2, <2>3 DEF TypeOK, TableOK, table, Entries
<1>4. ThreadOK' /\ pc' = "sleep"
  BY <1>1, Moves DEF TypeOK
<1>5. NodesOwnBlocks' /\ ServedIsHead' /\ TableChecked'
  BY <1>1, <1>4 DEF NodesOwnBlocks, ServedIsHead, TableChecked, EntriesRejected,
                    Entries, queue, table
<1>6. DueTellsLeft' /\ DueToldLeft' /\ NoOversleep'
  BY <1>1, <1>4, ClockUnchanged
<1>7. QED
  BY <1>2, <1>3, <1>4, <1>5, <1>6 DEF TypeOK

\* The sleep is no longer than what rtbus_next_timeout_ms computes for any slot.
LEMMA SleepKeeps == BusInv /\ Sleep => BusInv'
<1> SUFFICES ASSUME BusInv, Sleep PROVE BusInv'
  OBVIOUS
<1> USE DEF BusInv
<1>1. /\ pc = "sleep" /\ now \in 0 .. 2 * Half - 1
      /\ UNCHANGED <<table, queue, polling, delayed, msgq, now, ledger>>
  BY DEF Sleep, TypeOK, SlotsOK
<1>2. PICK t \in Timeouts \cup {TimeoutMax} :
        /\ \A u \in Timeouts \cup {TimeoutMax} : t <= u
        /\ Enter("doze", 1, 0, NoBlock, t)
  BY DEF Sleep
<1> DEFINE until(s) == TimeoutUntil(now, delayed_events[s].due)
<1>3. \A s \in 1 .. Depth : Used(s) => until(s) \in Nat
  BY <1>1, Types, RtbusAssumption DEF TimeoutUntil, Wrap
<1>4. \A s \in 1 .. Depth : Used(s) /\ left[s] # -Half =>
        /\ left[s] \in Span
        /\ until(s) = 0 \/ until(s) <= left[s]
  <2> SUFFICES ASSUME NEW s \in 1 .. Depth, Used(s), left[s] # -Half
               PROVE  /\ left[s] \in Span
                      /\ until(s) = 0 \/ until(s) <= left[s]
    OBVIOUS
  <2>1. delayed_events[s].due \in 0 .. 2 * Half - 1
    BY Types
  <2>2. left[s] \in Span /\ After32(delayed_events[s].due, now, left[s])
    BY DEF DueTellsLeft
  <2>3. QED
    BY <1>1, <2>1, <2>2, ClockFacts
<1> HIDE DEF until
<1>5. t \in Nat /\ t <= TimeoutMax /\ \A s \in 1 .. Depth : Used(s) => t <= until(s)
  BY <1>2, <1>3, RtbusAssumption DEF Timeouts, until
<1>6. TableOK' /\ SlotsOK' /\ QueueOK' /\ LedgerOK'
  BY <1>1, Stays DEF TypeOK
<1>7. ThreadOK' /\ pc' = "doze" /\ wait' = t /\ held' = 0
  BY <1>2, <1>5, RtbusAssumption DEF Enter, ThreadOK, Levels, HeldMax
<1>8. NodesOwnBlocks' /\ ServedIsHead' /\ TableChecked'
  BY <1>1, <1>7 DEF NodesOwnBlocks, ServedIsHead, TableChecked, EntriesRejected,
                    Entries, queue, table
<1>9. DueTellsLeft' /\ DueToldLeft'
  BY <1>1, <1>7 DEF DueTellsLeft, DueToldLeft, delayed, Used, After32
<1>10. NoOversleep'
  <2> SUFFICES ASSUME NEW s \in 1 .. Depth, Used(s)', left'[s] # -Half
               PROVE  (wait = 0 \/ wait <= left[s] + held)'
    BY DEF NoOversleep
  <2>1. Used(s) /\ left' = left
    BY <1>1 DEF delayed, Used
  <2>2. left[s] \in Int /\ left[s] + 0 = left[s]
    BY <1>4, <2>1, RtbusAssumption DEF Span
  <2>3. until(s) \in Nat /\ t <= until(s) /\ (until(s) = 0 \/ until(s) <= left[s])
    BY <1>3, <1>4, <1>5, <2>1
  <2>4. t = 0 \/ t <= left[s]
    BY <1>5, <2>2, <2>3
  <2>5. QED
    BY <1>7, <2>1, <2>2, <2>4
<1>11. QED
  BY <1>6, <1>7, <1>8, <1>9, <1>10 DEF TypeOK

\* runtime_event_wait starts the timeout that was computed.
LEMMA StartWaitKeeps == BusInv /\ StartWait => BusInv'
<1> SUFFICES ASSUME BusInv, StartWait PROVE BusInv'
  OBVIOUS
<1> USE DEF BusInv
<1>1. /\ pc = "doze" /\ pc' = "wait"
      /\ UNCHANGED <<table, queue, polling, delayed, msgq, now, locals, ledger>>
  BY DEF StartWait
<1>2. TableOK' /\ SlotsOK' /\ QueueOK' /\ LedgerOK'
  BY <1>1, Stays DEF TypeOK
<1>3. ThreadOK'
  BY <1>1 DEF TypeOK, ThreadOK, locals
<1>4. NodesOwnBlocks' /\ ServedIsHead' /\ TableChecked'
  BY <1>1 DEF NodesOwnBlocks, ServedIsHead, TableChecked, EntriesRejected,
              Entries, queue, table
<1>5. DueTellsLeft' /\ DueToldLeft' /\ NoOversleep'
  BY <1>1 DEF DueTellsLeft, DueToldLeft, NoOversleep, delayed, Used, After32, locals
<1>6. QED
  BY <1>2, <1>3, <1>4, <1>5 DEF TypeOK

\* k_sem_take returns and the thread starts a pass over the slots.
LEMMA WakeKeeps == BusInv /\ Wake => BusInv'
<1> SUFFICES ASSUME BusInv, Wake PROVE BusInv'
  OBVIOUS
<1> USE DEF BusInv
<1>1. /\ now \in 0 .. 2 * Half - 1 /\ sem' = 0 /\ StartPass
      /\ UNCHANGED <<table, heap, task_tbl, polling, delayed, msgq, now, ledger>>
  BY DEF Wake, TypeOK, SlotsOK
<1>2. TableOK' /\ SlotsOK' /\ LedgerOK'
  BY <1>1, Stays DEF TypeOK
<1>3. QueueOK'
  BY <1>1 DEF TypeOK, QueueOK
<1>4. ThreadOK' /\ pc' = "move"
  BY <1>1, Moves DEF TypeOK
<1>5. NodesOwnBlocks' /\ ServedIsHead' /\ TableChecked'
  BY <1>1, <1>4 DEF NodesOwnBlocks, ServedIsHead, TableChecked, EntriesRejected,
                    Entries, table, Wake
<1>6. DueTellsLeft' /\ DueToldLeft' /\ NoOversleep'
  BY <1>1, PassStarts
<1>7. QED
  BY <1>2, <1>3, <1>4, <1>5, <1>6 DEF TypeOK

-----------------------------------------------------------------------------
\* rtbus_post in another context, or in a handler, between two steps of the
\* runtime thread.
LEMMA PosterKeeps ==
  ASSUME BusInv, NEW ev \in EventType, NEW given \in BOOLEAN, NEW ok \in BOOLEAN,
         emos_post(ev, given, ok), Numbered(ok),
         UNCHANGED <<table, polling, delayed, msgq, now, thread>>
  PROVE  BusInv'
<1> USE DEF BusInv
<1>1. TableOK' /\ SlotsOK' /\ ThreadOK'
  BY Stays DEF TypeOK
<1>2. /\ task_tbl' \in TableType /\ HeapType(heap')
      /\ Sound(heap') /\ OwnBlocks(heap', task_tbl') /\ sem' \in 0 .. 1
      /\ \A q \in Levels : task_tbl[q] # <<>> =>
           task_tbl'[q] # <<>> /\ task_tbl'[q][1] = task_tbl[q][1]
      /\ entry_count = 0 => task_tbl' = task_tbl
  BY PostKeeps
<1>3. LedgerOK'
  BY RtbusAssumption DEF TypeOK, LedgerOK, Numbered
<1>4. TypeOK'
  BY <1>1, <1>2, <1>3 DEF TypeOK, QueueOK, TableType
<1>5. /\ pc' = pc /\ level' = level /\ proc' = proc /\ now_ms' = now_ms
      /\ wait' = wait /\ held' = held
  BY DEF thread, locals
<1>6. NodesOwnBlocks' /\ TableChecked'
  BY <1>2, <1>5 DEF NodesOwnBlocks, TableChecked, EntriesRejected, Entries, table
<1>7. ServedIsHead'
  BY <1>2, <1>5 DEF ServedIsHead, TypeOK, ThreadOK
<1>8. DueTellsLeft' /\ DueToldLeft' /\ NoOversleep'
  BY <1>5 DEF DueTellsLeft, DueToldLeft, NoOversleep, delayed, Used, After32
<1>9. QED
  BY <1>4, <1>6, <1>7, <1>8

\* The event that rtbus_post and its variants build is well typed.
LEMMA EventIsTyped ==
  ASSUME TypeOK, NEW task \in Tasks, NEW len \in Lens, NEW async \in BOOLEAN
  PROVE  /\ Event(task, len, posts + 1, async) \in EventType
         /\ Event(CliTask, 0, posts + 1, async) \in EventType
BY RtbusAssumption DEF Event, EventType, TypeOK, LedgerOK

\* rtbus_post_delay in a handler: the due time it stores in a free slot tells
\* the delay, across the wrap of the clock.
LEMMA HandlerPostsLaterKeeps ==
  ASSUME BusInv, NEW task \in Tasks, NEW len \in Lens, NEW delay \in Delays,
         HandlerPostsLater(task, len, delay)
  PROVE  BusInv'
<1> USE DEF BusInv
<1> DEFINE ev == Event(task, len, posts + 1, FALSE)
           ms == IF delay <= Half THEN delay ELSE delay - 2 * Half
<1>1. PICK s \in 1 .. Depth :
        /\ ~Used(s)
        /\ delayed_events' = [delayed_events EXCEPT ![s] = Armed(ev, Wrap(now + delay))]
        /\ left' = [left EXCEPT ![s] = ms]
  BY DEF HandlerPostsLater, FreeSlots
<1>2. /\ pc \in {"handler", "poll"} /\ delay # 0 /\ sem' = 1 /\ Numbered(TRUE)
      /\ UNCHANGED <<table, heap, task_tbl, polling, msgq, now, thread>>
  BY DEF HandlerPostsLater, InHandler
<1>3. ev \in EventType
  BY EventIsTyped
<1>4. /\ now \in 0 .. 2 * Half - 1 /\ delay \in 1 .. 2 * Half - 1
      /\ Half \in Nat /\ Half # 0
      /\ delayed_events \in [1 .. Depth -> SlotType]
      /\ left \in [1 .. Depth -> -Half .. Half]
  BY <1>2, RtbusAssumption DEF TypeOK, SlotsOK
<1> HIDE DEF ev
<1>5. /\ Wrap(now + delay) \in 0 .. 2 * Half - 1
      /\ ms \in Span
      /\ After32(Wrap(now + delay), now, ms)
  BY <1>4 DEF Wrap, Span, After32
<1> HIDE DEF ms
<1>6. /\ Armed(ev, Wrap(now + delay)) \in SlotType
      /\ Armed(ev, Wrap(now + delay)).due = Wrap(now + delay)
  BY <1>3, <1>5 DEF Armed, SlotType
<1>7. /\ delayed_events'[s].due = Wrap(now + delay) /\ left'[s] = ms
      /\ \A r \in 1 .. Depth : r # s => /\ delayed_events'[r] = delayed_events[r]
                                        /\ left'[r] = left[r]
  BY <1>1, <1>4, <1>6
<1>8. SlotsOK'
  <2>1. ms \in -Half .. Half
    BY <1>4, <1>5 DEF Span
  <2>2. QED
    BY <1>1, <1>2, <1>4, <1>6, <2>1 DEF SlotsOK
<1>9. TableOK' /\ ThreadOK'
  BY <1>2, Stays DEF TypeOK
<1>10. QueueOK'
  BY <1>2 DEF TypeOK, QueueOK
<1>11. LedgerOK'
  BY <1>2, RtbusAssumption DEF TypeOK, LedgerOK, Numbered
<1>12. NodesOwnBlocks' /\ TableChecked' /\ ServedIsHead'
  BY <1>2 DEF NodesOwnBlocks, TableChecked, ServedIsHead, EntriesRejected, Entries,
              table, thread, locals
<1>13. DueTellsLeft'
  <2> SUFFICES ASSUME NEW r \in 1 .. Depth, Used(r)', left'[r] # -Half
               PROVE  (left[r] \in Span /\ After32(delayed_events[r].due, now, left[r]))'
    BY DEF DueTellsLeft
  <2>1. CASE r = s
    BY <2>1, <1>2, <1>5, <1>7 DEF After32
  <2>2. CASE r # s
    <3>1. Used(r)
      BY <2>2, <1>7 DEF Used
    <3>2. QED
      BY <2>2, <3>1, <1>2, <1>7 DEF DueTellsLeft, After32
  <2>3. QED
    BY <2>1, <2>2
<1>14. DueToldLeft' /\ NoOversleep'
  BY <1>2 DEF DueToldLeft, NoOversleep, thread
<1>15. QED
  BY <1>8, <1>9, <1>10, <1>11, <1>12, <1>13, <1>14 DEF TypeOK

\* native_api_rtbus_post puts a message in the queue and wakes the thread.
LEMMA NativePostsKeeps ==
  ASSUME BusInv, NEW task \in Tasks, NEW len \in Lens, NativePosts(task, len)
  PROVE  BusInv'
<1> USE DEF BusInv
<1> DEFINE ev == Event(task, len, posts + 1, TRUE)
<1>1. /\ Len(msgq) < AsyncDepth /\ msgq' = Append(msgq, ev) /\ sem' = 1 /\ Numbered(TRUE)
      /\ UNCHANGED <<table, heap, task_tbl, polling, delayed, now, thread>>
  BY DEF NativePosts
<1>2. ev \in EventType /\ msgq \in Seq(EventType)
  BY EventIsTyped DEF TypeOK, LedgerOK
<1> HIDE DEF ev
<1>3. TableOK' /\ SlotsOK' /\ ThreadOK'
  BY <1>1, Stays DEF TypeOK
<1>4. QueueOK'
  BY <1>1 DEF TypeOK, QueueOK
<1>5. LedgerOK'
  <2>1. msgq' \in Seq(EventType) /\ Len(msgq') = Len(msgq) + 1 /\ Len(msgq) \in Nat
    BY <1>1, <1>2, AppendProperties, LenProperties
  <2>2. QED
    BY <1>1, <2>1, RtbusAssumption DEF TypeOK, LedgerOK, Numbered
<1>6. NodesOwnBlocks' /\ TableChecked' /\ ServedIsHead'
  BY <1>1 DEF NodesOwnBlocks, TableChecked, ServedIsHead, EntriesRejected, Entries,
              table, thread, locals
<1>7. DueTellsLeft' /\ DueToldLeft' /\ NoOversleep'
  BY <1>1 DEF DueTellsLeft, DueToldLeft, NoOversleep, delayed, Used, After32, thread,
              locals
<1>8. QED
  BY <1>3, <1>4, <1>5, <1>6, <1>7 DEF TypeOK

\* A handler that stops the native program empties the message queue.
LEMMA HandlerPurgesKeeps == BusInv /\ HandlerPurges => BusInv'
<1> SUFFICES ASSUME BusInv, HandlerPurges PROVE BusInv'
  OBVIOUS
<1> USE DEF BusInv
<1>1. /\ msgq' = <<>> /\ lost' = lost \cup UNION {Counted(msgq[k]) : k \in DOMAIN msgq}
      /\ UNCHANGED <<table, queue, polling, delayed, now, thread, posts, done>>
  BY DEF HandlerPurges
<1>2. TableOK' /\ QueueOK' /\ SlotsOK' /\ ThreadOK'
  BY <1>1, Stays DEF TypeOK
<1>3. LedgerOK'
  <2>1. msgq' \in Seq(EventType) /\ Len(msgq') = 0
    BY <1>1, EmptySeq
  <2>2. \A k \in DOMAIN msgq : Counted(msgq[k]) \subseteq 1 .. MaxPosts
    BY DEF Counted
  <2>3. lost' \subseteq 1 .. MaxPosts
    BY <1>1, <2>2 DEF TypeOK, LedgerOK
  <2>4. QED
    BY <1>1, <2>1, <2>3, RtbusAssumption DEF TypeOK, LedgerOK
<1>4. NodesOwnBlocks' /\ TableChecked' /\ ServedIsHead'
  BY <1>1 DEF NodesOwnBlocks, TableChecked, ServedIsHead, EntriesRejected, Entries,
              table, queue, thread, locals
<1>5. DueTellsLeft' /\ DueToldLeft' /\ NoOversleep'
  BY <1>1 DEF DueTellsLeft, DueToldLeft, NoOversleep, delayed, Used, After32, thread,
              locals
<1>6. QED
  BY <1>2, <1>3, <1>4, <1>5 DEF TypeOK

\* A millisecond passes: the time left shrinks with the distance to the due time,
\* until the clock cannot tell it any more, and a sleep that has started with it.
LEMMA TickKeeps == BusInv /\ Tick => BusInv'
<1> SUFFICES ASSUME BusInv, Tick PROVE BusInv'
  OBVIOUS
<1> USE DEF BusInv
<1>1. /\ now' = Wrap(now + 1)
      /\ left' = [s \in 1 .. Depth |-> IF ~Used(s) THEN 0
                                     ELSE IF left[s] > -Half THEN left[s] - 1 ELSE -Half]
      /\ wait' = IF pc = "wait" /\ wait > 0 THEN wait - 1 ELSE wait
      /\ held' = Held
      /\ UNCHANGED <<table, queue, polling, delayed_events, msgq, pc, i, now_ms, level,
                     proc, ledger>>
  BY DEF Tick
<1>2. /\ Half \in Nat /\ Half # 0
      /\ TimeoutMax \in Nat /\ now \in 0 .. 2 * Half - 1 /\ wait \in 0 .. TimeoutMax
      /\ held \in 0 .. HeldMax /\ HeldMax \in Nat /\ HeldMax = Half + TimeoutMax - 1
      /\ left \in [1 .. Depth -> -Half .. Half]
  BY RtbusAssumption DEF TypeOK, SlotsOK, ThreadOK, HeldMax
<1>3. /\ now' \in 0 .. 2 * Half - 1 /\ now' - now \in {1, 1 - 2 * Half}
      /\ wait' \in 0 .. TimeoutMax
      /\ held' \in 0 .. HeldMax
  <2>1. now' \in 0 .. 2 * Half - 1 /\ now' - now \in {1, 1 - 2 * Half}
    <3>1. CASE now + 1 >= 2 * Half
      <4>1. now = 2 * Half - 1 /\ now' = 0
        BY <1>1, <1>2, <3>1 DEF Wrap
      <4>2. QED
        BY <1>2, <4>1
    <3>2. CASE ~(now + 1 >= 2 * Half)
      <4>1. now' = now + 1
        BY <1>1, <1>2, <3>2 DEF Wrap
      <4>2. QED
        BY <1>2, <3>2, <4>1
    <3>3. QED
      BY <3>1, <3>2
  <2>2. wait' \in 0 .. TimeoutMax
    BY <1>1, <1>2
  <2>3. held' \in 0 .. HeldMax
    BY <1>1, <1>2 DEF Held
  <2>4. QED
    BY <2>1, <2>2, <2>3
<1>4. TableOK' /\ QueueOK' /\ LedgerOK'
  BY <1>1, Stays DEF TypeOK
<1>5. SlotsOK'
  <2>1. \A s \in 1 .. Depth :
          (IF ~Used(s) THEN 0 ELSE IF left[s] > -Half THEN left[s] - 1 ELSE -Half)
            \in -Half .. Half
    BY <1>2
  <2>2. left' \in [1 .. Depth -> -Half .. Half]
    BY <1>1, <2>1
  <2>3. QED
    BY <1>1, <1>3, <2>2 DEF TypeOK, SlotsOK
<1>6. ThreadOK'
  BY <1>1, <1>3 DEF TypeOK, ThreadOK, table, Entries
<1>7. NodesOwnBlocks' /\ ServedIsHead' /\ TableChecked'
  BY <1>1 DEF NodesOwnBlocks, TableChecked, ServedIsHead, EntriesRejected, Entries,
              table, queue
<1>8. \A s \in 1 .. Depth : Used(s)' /\ left'[s] # -Half =>
        /\ Used(s) /\ left[s] # -Half /\ left'[s] = left[s] - 1
        /\ left[s] \in Span /\ left[s] \in Int /\ left'[s] \in Span
        /\ After32(delayed_events[s].due, now, left[s])
        /\ delayed_events[s].due \in 0 .. 2 * Half - 1
  <2> SUFFICES ASSUME NEW s \in 1 .. Depth, Used(s)', left'[s] # -Half
               PROVE  /\ Used(s) /\ left[s] # -Half /\ left'[s] = left[s] - 1
                      /\ left[s] \in Span /\ left[s] \in Int /\ left'[s] \in Span
                      /\ After32(delayed_events[s].due, now, left[s])
                      /\ delayed_events[s].due \in 0 .. 2 * Half - 1
    OBVIOUS
  <2>1. Used(s) /\ left[s] \in -Half .. Half
    BY <1>1, <1>2 DEF Used
  <2>2. left'[s] = IF left[s] > -Half THEN left[s] - 1 ELSE -Half
    BY <1>1, <2>1
  <2>3. left[s] > -Half /\ left'[s] = left[s] - 1 /\ left[s] # -Half
    BY <1>2, <2>1, <2>2
  <2>4. left'[s] \in Span /\ left[s] \in Int
    BY <1>2, <2>1, <2>3 DEF Span
  <2>5. QED
    BY <2>1, <2>3, <2>4, Types DEF DueTellsLeft
<1>9. DueTellsLeft'
  <2> SUFFICES ASSUME NEW s \in 1 .. Depth, Used(s)', left'[s] # -Half
               PROVE  (left[s] \in Span /\ After32(delayed_events[s].due, now, left[s]))'
    BY DEF DueTellsLeft
  <2>1. After32(delayed_events[s].due, now', left[s] - 1)
    BY <1>2, <1>3, <1>8, MillisecondPasses
  <2>2. QED
    BY <1>1, <1>8, <2>1 DEF After32
<1>10. DueToldLeft'
  <2> SUFFICES ASSUME pc' = "move", NEW s \in 1 .. Depth, Used(s)', left'[s] # -Half
               PROVE  (\E l \in Span : left[s] <= l
                                      /\ After32(delayed_events[s].due, now_ms, l))'
    BY DEF DueToldLeft
  <2>1. PICK l \in Span : left[s] <= l /\ After32(delayed_events[s].due, now_ms, l)
    BY <1>1, <1>8 DEF DueToldLeft
  <2>2. left'[s] <= l
    BY <1>2, <1>8, <2>1 DEF Span
  <2>3. QED
    BY <1>1, <2>1, <2>2 DEF After32
<1>11. NoOversleep'
  <2> SUFFICES ASSUME pc' \in {"doze", "wait"}, NEW s \in 1 .. Depth, Used(s)',
                      left'[s] # -Half
               PROVE  (wait = 0 \/ wait <= left[s] + held)'
    BY DEF NoOversleep
  <2>1. /\ pc \in {"doze", "wait"} /\ Used(s) /\ left[s] # -Half
        /\ left'[s] = left[s] - 1 /\ left'[s] \in -Half .. Half /\ left'[s] # -Half
    BY <1>1, <1>5, <1>8 DEF SlotsOK
  <2>2. wait = 0 \/ wait <= left[s] + held
    BY <2>1 DEF NoOversleep
  <2>3. CASE wait = 0
    BY <1>1, <2>3
  <2>4. CASE wait # 0 /\ pc = "wait"
    <3>1. wait' = wait - 1 /\ held' = held
      BY <1>1, <1>2, <2>4 DEF Held
    <3>2. left[s] \in Int
      BY <1>2, RtbusAssumption
    <3>3. QED
      BY <1>2, <2>1, <2>2, <2>4, <3>1, <3>2
  <2>5. CASE wait # 0 /\ pc = "doze"
    <3>1. wait' = wait /\ (held' = held + 1 \/ (held' = held /\ held >= HeldMax))
      BY <1>1, <1>2, <2>1, <2>5 DEF Held
    <3>2. left[s] \in Int
      BY <1>2, RtbusAssumption
    <3>3. CASE held' = held + 1
      BY <1>2, <2>1, <2>2, <2>5, <3>1, <3>2, <3>3
    <3>4. CASE held' = held /\ held >= HeldMax
      BY <1>2, <2>1, <2>5, <3>1, <3>2, <3>4
    <3>5. QED
      BY <3>1, <3>3, <3>4
  <2>6. QED
    BY <2>1, <2>3, <2>4, <2>5
<1>12. QED
  BY <1>4, <1>5, <1>6, <1>7, <1>9, <1>10, <1>11 DEF TypeOK

\* No context of the bus takes a step.
LEMMA StutterKeeps == BusInv /\ UNCHANGED vars => BusInv'
<1> SUFFICES ASSUME BusInv, UNCHANGED vars PROVE BusInv'
  OBVIOUS
<1> USE DEF BusInv
<1>1. TypeOK'
  BY Stays DEF TypeOK, vars
<1>2. NodesOwnBlocks' /\ TableChecked' /\ ServedIsHead'
  BY DEF NodesOwnBlocks, TableChecked, ServedIsHead, EntriesRejected, Entries,
         vars, table, queue, thread, locals
<1>3. DueTellsLeft' /\ DueToldLeft' /\ NoOversleep'
  BY DEF DueTellsLeft, DueToldLeft, NoOversleep, delayed, Used, After32, vars, thread,
         locals
<1>4. QED
  BY <1>1, <1>2, <1>3

-----------------------------------------------------------------------------
\* Every step of the runtime thread and of those who post keeps the invariant.
LEMMA BusInvNext == BusInv /\ [RtbusNext]_vars => BusInv'
<1> SUFFICES ASSUME BusInv, [RtbusNext]_vars PROVE BusInv'
  OBVIOUS
<1>1. CASE RuntimeStep
  BY <1>1, BootKeeps, PostInitKeeps, MoveDueKeeps, DrainAsyncKeeps, CallHandlerKeeps,
     HandlerReturnsKeeps, CallPollKeeps, PollReturnsKeeps, SleepKeeps,
     StartWaitKeeps, WakeKeeps
     DEF RuntimeStep
<1>2. ASSUME NEW task \in Tasks, NEW len \in Lens, NEW given \in BOOLEAN,
             HandlerPosts(task, len, given)
      PROVE  BusInv'
  <2>1. Event(task, len, posts + 1, FALSE) \in EventType
    BY EventIsTyped DEF BusInv
  <2>2. QED
    BY <1>2, <2>1, PosterKeeps DEF HandlerPosts
<1>3. ASSUME NEW task \in Tasks, NEW len \in Lens, NEW delay \in Delays,
             HandlerPostsLater(task, len, delay)
      PROVE  BusInv'
  BY <1>3, HandlerPostsLaterKeeps
<1>4. ASSUME NEW task \in Tasks, NEW len \in Lens, NativePosts(task, len)
      PROVE  BusInv'
  BY <1>4, NativePostsKeeps
<1>5. CASE WorkQueuePosts
  <2>1. Event(CliTask, 0, posts + 1, FALSE) \in EventType
    BY RtbusAssumption DEF BusInv, TypeOK, LedgerOK, Event, EventType
  <2>2. QED
    BY <1>5, <2>1, PosterKeeps DEF WorkQueuePosts
<1>6. CASE HandlerPurges
  BY <1>6, HandlerPurgesKeeps
<1>7. CASE Tick
  BY <1>7, TickKeeps
<1>8. CASE UNCHANGED vars
  BY <1>8, StutterKeeps
<1>9. QED
  BY <1>1, <1>2, <1>3, <1>4, <1>5, <1>6, <1>7, <1>8 DEF RtbusNext

\* BusInv is an invariant of the bus: the queue, its pool, the delayed slots and
\* the runtime thread fit together whenever a context looks at them.
THEOREM BusInvariant == RtbusSpec => []BusInv
<1>1. RtbusInit => BusInv
  BY BusInvInit
<1>2. BusInv /\ [RtbusNext]_vars => BusInv'
  BY BusInvNext
<1>3. QED
  BY <1>1, <1>2, PTL DEF RtbusSpec

\* The variables of emos.c, rtbus.c and the runtime thread keep their types and
\* the indices their ranges.
THEOREM TypeCorrect == RtbusSpec => []TypeOK
<1>1. BusInv => TypeOK
  BY DEF BusInv
<1>2. QED
  BY <1>1, BusInvariant, PTL

\* Queued nodes and busy blocks of the pool correspond one to one, for every
\* entry table, pool and mix of posts (emos_post, linklist_remove).
THEOREM NodesAlwaysOwnBlocks == RtbusSpec => []NodesOwnBlocks
<1>1. BusInv => NodesOwnBlocks
  BY DEF BusInv
<1>2. QED
  BY <1>1, BusInvariant, PTL

\* The sleep that rtbus_next_timeout_ms computes passes a due time by no more than
\* the thread was held up between that and k_sem_take, whatever the width of the clock
\* and however posts come in.
THEOREM NoOversleepHolds == RtbusSpec => []NoOversleep
<1>1. BusInv => NoOversleep
  BY DEF BusInv
<1>2. QED
  BY <1>1, BusInvariant, PTL

\* rtbus_move_due_events takes no event before its time, whatever the width of
\* the clock.
THEOREM NeverEarlyHolds == RtbusSpec => NeverEarly
<1>1. ASSUME BusInv, [RtbusNext]_vars, NEW s \in 1 .. Depth, Used(s), ~Used(s)'
      PROVE  left[s] <= 0
  <2> USE DEF BusInv
  <2>1. /\ left[s] \in Int
        /\ delayed_events \in [1 .. Depth -> SlotType]
        /\ now_ms \in 0 .. 2 * Half - 1
        /\ delayed_events[s].due \in 0 .. 2 * Half - 1
    BY <1>1, Types DEF TypeOK, SlotsOK, ThreadOK
  <2>2. delayed_events' # delayed_events
    BY <1>1 DEF Used
  <2>3. CASE MoveDue
    <3>1. i = s /\ IsDue(s) /\ pc = "move"
      BY <1>1, <2>1, <2>2, <2>3 DEF MoveDue, Emptied, delayed, Used
    <3>2. CASE left[s] = -Half
      BY <3>2, RtbusAssumption
    <3>3. CASE left[s] # -Half
      <4>1. PICK l \in Span : left[s] <= l /\ After32(delayed_events[s].due, now_ms, l)
        BY <1>1, <3>1, <3>3 DEF DueToldLeft
      <4>2. DueReached(now_ms, delayed_events[s].due) = TRUE
        BY <3>1 DEF IsDue, DueReached
      <4>3. l <= 0
        BY <2>1, <4>1, <4>2, ClockFacts
      <4>4. l \in Int
        BY <4>1, RtbusAssumption DEF Span
      <4>5. QED
        BY <2>1, <4>1, <4>3, <4>4
    <3>4. QED
      BY <3>2, <3>3
  <2>4. ASSUME NEW task \in Tasks, NEW len \in Lens, NEW delay \in Delays,
               HandlerPostsLater(task, len, delay)
        PROVE  FALSE
    <3>1. PICK r \in 1 .. Depth : /\ ~Used(r)
                                  /\ \E e, d : delayed_events' =
                                       [delayed_events EXCEPT ![r] = Armed(e, d)]
      BY <2>4 DEF HandlerPostsLater, FreeSlots
    <3>2. r # s /\ delayed_events'[s] = delayed_events[s]
      BY <1>1, <2>1, <3>1
    <3>3. QED
      BY <1>1, <3>2 DEF Used
  <2>5. UNCHANGED delayed_events \/ MoveDue
        \/ \E task \in Tasks, len \in Lens, delay \in Delays :
             HandlerPostsLater(task, len, delay)
    BY <1>1 DEF RtbusNext, RuntimeStep, Boot, PostInit, DrainAsync, CallHandler,
                HandlerReturns, CallPoll, PollReturns, Sleep, StartWait, Wake,
                HandlerPosts, NativePosts, HandlerPurges, WorkQueuePosts, Tick, vars,
                delayed
  <2>6. QED
    BY <2>2, <2>3, <2>4, <2>5
<1>2. BusInv /\ [RtbusNext]_vars =>
        [\A s \in 1 .. Depth : Used(s) /\ ~Used(s)' => left[s] <= 0]_vars
  BY <1>1
<1>3. QED
  BY <1>2, BusInvariant, PTL DEF RtbusSpec, NeverEarly

-----------------------------------------------------------------------------
(***************************************************************************)
(* The lists after linklist_new and linklist_remove, node by node.         *)
(***************************************************************************)

\* linklist_new puts the new node behind the nodes of its level.
LEMMA QueuedShape ==
  ASSUME NEW tbl \in TableType, NEW p \in Levels, NEW ptr, NEW ev,
         [ptr |-> ptr, ev |-> ev] \in NodeType
  PROVE  LET t    == Queued(tbl, p, ptr, ev)
             last == Len(tbl[p]) + 1
         IN  /\ last \in DOMAIN t[p] /\ t[p][last].ptr = ptr /\ t[p][last].ev = ev
             /\ \A k \in DOMAIN tbl[p] : k < last
             /\ \A q \in Levels : \A k \in DOMAIN t[q] :
                  \/ q = p /\ k = last
                  \/ k \in DOMAIN tbl[q] /\ t[q][k] = tbl[q][k]
             /\ \A q \in Levels : \A k \in DOMAIN tbl[q] :
                  k \in DOMAIN t[q] /\ t[q][k] = tbl[q][k]
<1> DEFINE x == [ptr |-> ptr, ev |-> ev]
           t == Queued(tbl, p, ptr, ev)
<1>1. t = [tbl EXCEPT ![p] = Appended(@, x)]
  BY DEF Queued
<1> HIDE DEF t
<1>2. \A q \in Levels : tbl[q] \in Seq(NodeType) /\ Len(tbl[q]) \in Nat
                        /\ DOMAIN tbl[q] = 1 .. Len(tbl[q])
  BY LenProperties DEF TableType
<1>3. t[p] = Append(tbl[p], x) /\ \A q \in Levels : q # p => t[q] = tbl[q]
  BY <1>1 DEF TableType, Appended
<1>4. /\ Len(t[p]) = Len(tbl[p]) + 1
      /\ \A k \in 1 .. Len(tbl[p]) : t[p][k] = tbl[p][k]
      /\ t[p][Len(tbl[p]) + 1] = x
      /\ t[p] \in Seq(NodeType)
  BY <1>2, <1>3, AppendProperties
<1>5. DOMAIN t[p] = 1 .. Len(tbl[p]) + 1
  BY <1>4, LenProperties
<1>6. x.ptr = ptr /\ x.ev = ev
  OBVIOUS
<1> HIDE DEF x
<1>7. \A q \in Levels : \A k \in DOMAIN t[q] :
        \/ q = p /\ k = Len(tbl[p]) + 1
        \/ k \in DOMAIN tbl[q] /\ t[q][k] = tbl[q][k]
  <2>1. \A k \in DOMAIN t[p] : \/ k = Len(tbl[p]) + 1
                               \/ k \in DOMAIN tbl[p] /\ t[p][k] = tbl[p][k]
    BY <1>2, <1>4, <1>5
  <2>2. QED
    BY <1>3, <2>1
<1>8. \A q \in Levels : \A k \in DOMAIN tbl[q] : k \in DOMAIN t[q] /\ t[q][k] = tbl[q][k]
  <2>1. \A k \in DOMAIN tbl[p] : k \in DOMAIN t[p] /\ t[p][k] = tbl[p][k]
    BY <1>2, <1>4, <1>5
  <2>2. QED
    BY <1>3, <2>1
<1>9. /\ Len(tbl[p]) + 1 \in DOMAIN t[p]
      /\ \A k \in DOMAIN tbl[p] : k < Len(tbl[p]) + 1
  BY <1>2, <1>5
<1>10. QED
  BY <1>4, <1>6, <1>7, <1>8, <1>9 DEF t

\* linklist_remove of a head node moves the nodes behind it one place up.
LEMMA RemovedShape ==
  ASSUME NEW tbl \in TableType, NEW p \in Levels, tbl[p] # <<>>,
         NEW ptr, \A k \in DOMAIN tbl[p] : tbl[p][k].ptr = ptr <=> k = 1
  PROVE  /\ Removed(tbl, p, ptr)[p] = [j \in 1 .. Len(tbl[p]) - 1 |-> tbl[p][j + 1]]
         /\ \A q \in Levels : q # p => Removed(tbl, p, ptr)[q] = tbl[q]
         /\ Len(tbl[p]) \in Nat /\ DOMAIN tbl[p] = 1 .. Len(tbl[p])
         /\ 1 \in DOMAIN tbl[p]
<1>1. tbl[p] \in Seq(NodeType) /\ Len(tbl[p]) \in Nat /\ DOMAIN tbl[p] = 1 .. Len(tbl[p])
  BY LenProperties DEF TableType
<1>2. 1 \in DOMAIN tbl[p]
  BY <1>1, EmptySeq
<1>3. Unlinked(tbl[p], ptr) = [j \in 1 .. Len(tbl[p]) - 1 |-> tbl[p][j + 1]]
  <2>1. \E k \in DOMAIN tbl[p] : tbl[p][k].ptr = ptr
    BY <1>2
  <2>2. (CHOOSE k \in DOMAIN tbl[p] : tbl[p][k].ptr = ptr) = 1
    BY <1>2
  <2>3. \A j \in 1 .. Len(tbl[p]) - 1 : ~(j < 1)
    BY <1>1
  <2>4. QED
    BY <2>1, <2>2, <2>3 DEF Unlinked
<1>4. QED
  BY <1>1, <1>2, <1>3 DEF Removed, TableType

-----------------------------------------------------------------------------
(***************************************************************************)
(* The books: where the events of the accepted posts are.                  *)
(***************************************************************************)

\* The level whose head a handler was given, as a set; the node is not waiting.
Served == IF pc = "handler" THEN {level} ELSE {}
Waits(served, p, k) == ~(p \in served /\ k = 1)

\* The posts that are told apart.
Numbers == 1 .. MaxPosts

\* The places where the event of post n can be.
InMsgq(q, n)  == \E k \in DOMAIN q : q[k].n = n
InSlot(d, n)  == \E s \in 1 .. Depth : d[s].used /\ d[s].ev.n = n
InList(tbl, served, n) ==
  \E p \in Levels : \E k \in DOMAIN tbl[p] : Waits(served, p, k) /\ tbl[p][k].ev.n = n

\* No place holds a post twice.
MsgqOnce(q) == \A j, k \in DOMAIN q : q[j].n = q[k].n /\ q[j].n \in Numbers => j = k
SlotOnce(d) == \A r, s \in 1 .. Depth :
                 /\ d[r].used /\ d[s].used
                 /\ d[r].ev.n = d[s].ev.n /\ d[r].ev.n \in Numbers
                 => r = s
ListOnce(tbl, served) ==
  \A p, q \in Levels : \A j \in DOMAIN tbl[p], k \in DOMAIN tbl[q] :
    /\ Waits(served, p, j) /\ Waits(served, q, k)
    /\ tbl[p][j].ev.n = tbl[q][k].ev.n /\ tbl[p][j].ev.n \in Numbers
    => p = q /\ j = k

\* Exactly the posts made so far are somewhere, each in one place.
Booked(n, inMsgq, inSlot, inList, isDone, isLost, made) ==
  /\ made <=> (inMsgq \/ inSlot \/ inList \/ isDone \/ isLost)
  /\ inMsgq => ~inSlot /\ ~inList /\ ~isDone /\ ~isLost
  /\ inSlot => ~inList /\ ~isDone /\ ~isLost
  /\ inList => ~isDone /\ ~isLost
  /\ isDone => ~isLost

Ledger ==
  /\ MsgqOnce(msgq) /\ SlotOnce(delayed_events) /\ ListOnce(task_tbl, Served)
  /\ \A n \in Numbers :
       Booked(n, InMsgq(msgq, n), InSlot(delayed_events, n), InList(task_tbl, Served, n),
              n \in done, n \in lost, n <= posts)

\* linklist_new adds the number of its event to the lists.
LEMMA QueuedNumbers ==
  ASSUME NEW tbl \in TableType, NEW p \in Levels, NEW ptr, NEW ev,
         [ptr |-> ptr, ev |-> ev] \in NodeType,
         NEW served, \A q \in Levels \cap served : tbl[q] # <<>>
  PROVE  LET t == Queued(tbl, p, ptr, ev)
         IN  /\ \A n \in Numbers :
                  InList(t, served, n) <=> (InList(tbl, served, n) \/ n = ev.n)
             /\ ListOnce(tbl, served) /\ (ev.n \in Numbers => ~InList(tbl, served, ev.n))
                  => ListOnce(t, served)
<1> DEFINE t == Queued(tbl, p, ptr, ev)
           last == Len(tbl[p]) + 1
<1>1. /\ last \in DOMAIN t[p] /\ t[p][last].ptr = ptr /\ t[p][last].ev = ev
      /\ \A k \in DOMAIN tbl[p] : k < last
      /\ \A q \in Levels : \A k \in DOMAIN t[q] :
           \/ q = p /\ k = last
           \/ k \in DOMAIN tbl[q] /\ t[q][k] = tbl[q][k]
      /\ \A q \in Levels : \A k \in DOMAIN tbl[q] :
           k \in DOMAIN t[q] /\ t[q][k] = tbl[q][k]
  BY QueuedShape
<1>2. Waits(served, p, last)
  <2>1. tbl[p] \in Seq(NodeType) /\ Len(tbl[p]) \in Nat
    BY LenProperties DEF TableType
  <2>2. p \in served => Len(tbl[p]) # 0
    BY <2>1, EmptySeq
  <2>3. QED
    BY <2>1, <2>2 DEF Waits
<1> HIDE DEF t, last
<1>3. \A n \in Numbers : InList(t, served, n) <=> (InList(tbl, served, n) \/ n = ev.n)
  <2> SUFFICES ASSUME NEW n \in Numbers
               PROVE  InList(t, served, n) <=> (InList(tbl, served, n) \/ n = ev.n)
    OBVIOUS
  <2>1. InList(tbl, served, n) => InList(t, served, n)
    BY <1>1 DEF InList
  <2>2. n = ev.n => InList(t, served, n)
    BY <1>1, <1>2 DEF InList
  <2>3. InList(t, served, n) => InList(tbl, served, n) \/ n = ev.n
    BY <1>1 DEF InList
  <2>4. QED
    BY <2>1, <2>2, <2>3
<1>4. ASSUME ListOnce(tbl, served), ev.n \in Numbers => ~InList(tbl, served, ev.n)
      PROVE  ListOnce(t, served)
  <2> SUFFICES ASSUME NEW q \in Levels, NEW s \in Levels,
                      NEW j \in DOMAIN t[q], NEW k \in DOMAIN t[s],
                      Waits(served, q, j), Waits(served, s, k),
                      t[q][j].ev.n = t[s][k].ev.n, t[q][j].ev.n \in Numbers
               PROVE  q = s /\ j = k
    BY DEF ListOnce
  <2>1. CASE (q = p /\ j = last) /\ (s = p /\ k = last)
    BY <2>1
  <2>2. CASE (q = p /\ j = last) /\ (k \in DOMAIN tbl[s] /\ t[s][k] = tbl[s][k])
    BY <1>1, <1>4, <2>2 DEF InList
  <2>3. CASE (j \in DOMAIN tbl[q] /\ t[q][j] = tbl[q][j]) /\ (s = p /\ k = last)
    BY <1>1, <1>4, <2>3 DEF InList
  <2>4. CASE /\ j \in DOMAIN tbl[q] /\ t[q][j] = tbl[q][j]
             /\ k \in DOMAIN tbl[s] /\ t[s][k] = tbl[s][k]
    BY <1>4, <2>4 DEF ListOnce
  <2>5. QED
    BY <1>1, <2>1, <2>2, <2>3, <2>4
<1>5. QED
  BY <1>3, <1>4 DEF t

\* emos_process_queued_event: the number of the head leaves the waiting ones.
LEMMA ServedNumbers ==
  ASSUME NEW tbl \in TableType, NEW p \in Levels, tbl[p] # <<>>, ListOnce(tbl, {})
  PROVE  /\ ListOnce(tbl, {p})
         /\ \A n \in Numbers :
              InList(tbl, {p}, n) <=> InList(tbl, {}, n) /\ n # tbl[p][1].ev.n
         /\ tbl[p][1].ev.n \in Numbers => InList(tbl, {}, tbl[p][1].ev.n)
<1>1. 1 \in DOMAIN tbl[p]
  <2>1. tbl[p] \in Seq(NodeType) /\ Len(tbl[p]) \in Nat /\ DOMAIN tbl[p] = 1 .. Len(tbl[p])
    BY LenProperties DEF TableType
  <2>2. QED
    BY <2>1, EmptySeq
<1>2. \A q, k : Waits({}, q, k)
  BY DEF Waits
<1>3. \A q, k : Waits({p}, q, k) <=> ~(q = p /\ k = 1)
  BY DEF Waits
<1>4. ListOnce(tbl, {p})
  BY <1>2 DEF ListOnce
<1>5. ASSUME NEW n \in Numbers
      PROVE  InList(tbl, {p}, n) <=> InList(tbl, {}, n) /\ n # tbl[p][1].ev.n
  <2>1. ASSUME InList(tbl, {p}, n)
        PROVE  InList(tbl, {}, n) /\ n # tbl[p][1].ev.n
    <3>1. PICK q \in Levels : \E k \in DOMAIN tbl[q] :
                                Waits({p}, q, k) /\ tbl[q][k].ev.n = n
      BY <2>1 DEF InList
    <3>2. PICK k \in DOMAIN tbl[q] : Waits({p}, q, k) /\ tbl[q][k].ev.n = n
      BY <3>1
    <3>3. n = tbl[p][1].ev.n => q = p /\ k = 1
      BY <1>1, <1>2, <3>2 DEF ListOnce
    <3>4. QED
      BY <1>2, <1>3, <3>2, <3>3 DEF InList
  <2>2. ASSUME InList(tbl, {}, n), n # tbl[p][1].ev.n
        PROVE  InList(tbl, {p}, n)
    BY <1>3, <2>2 DEF InList
  <2>3. QED
    BY <2>1, <2>2
<1>6. tbl[p][1].ev.n \in Numbers => InList(tbl, {}, tbl[p][1].ev.n)
  BY <1>1, <1>2 DEF InList
<1>7. QED
  BY <1>4, <1>5, <1>6

\* linklist_remove of the node that was served leaves the waiting ones as
\* they were.
LEMMA RemovedNumbers ==
  ASSUME NEW tbl \in TableType, NEW p \in Levels, tbl[p] # <<>>,
         NEW ptr, \A k \in DOMAIN tbl[p] : tbl[p][k].ptr = ptr <=> k = 1,
         ListOnce(tbl, {p})
  PROVE  /\ ListOnce(Removed(tbl, p, ptr), {})
         /\ \A n \in Numbers :
              InList(Removed(tbl, p, ptr), {}, n) <=> InList(tbl, {p}, n)
<1> DEFINE t == Removed(tbl, p, ptr)
           up(q, k) == IF q = p THEN k + 1 ELSE k
<1>1. /\ t[p] = [j \in 1 .. Len(tbl[p]) - 1 |-> tbl[p][j + 1]]
      /\ \A q \in Levels : q # p => t[q] = tbl[q]
      /\ Len(tbl[p]) \in Nat /\ DOMAIN tbl[p] = 1 .. Len(tbl[p])
      /\ 1 \in DOMAIN tbl[p]
  BY RemovedShape
<1> HIDE DEF t
<1>2. \A q, k : Waits({}, q, k) /\ (Waits({p}, q, k) <=> ~(q = p /\ k = 1))
  BY DEF Waits
<1>3. \A q \in Levels : \A k \in DOMAIN t[q] :
        /\ up(q, k) \in DOMAIN tbl[q] /\ t[q][k] = tbl[q][up(q, k)]
        /\ Waits({p}, q, up(q, k))
  <2> SUFFICES ASSUME NEW q \in Levels, NEW k \in DOMAIN t[q]
               PROVE  /\ up(q, k) \in DOMAIN tbl[q] /\ t[q][k] = tbl[q][up(q, k)]
                      /\ Waits({p}, q, up(q, k))
    OBVIOUS
  <2>1. CASE q = p
    <3>1. k \in 1 .. Len(tbl[p]) - 1 /\ up(q, k) = k + 1
      BY <1>1, <2>1
    <3>2. k + 1 \in DOMAIN tbl[p] /\ t[p][k] = tbl[p][k + 1] /\ k + 1 # 1
      BY <1>1, <3>1
    <3>3. QED
      BY <2>1, <3>1, <3>2 DEF Waits
  <2>2. CASE q # p
    BY <1>1, <2>2 DEF Waits
  <2>3. QED
    BY <2>1, <2>2
<1>4. \A q \in Levels : \A m \in DOMAIN tbl[q] :
        Waits({p}, q, m) => \E k \in DOMAIN t[q] : t[q][k] = tbl[q][m]
  <2> SUFFICES ASSUME NEW q \in Levels, NEW m \in DOMAIN tbl[q], Waits({p}, q, m)
               PROVE  \E k \in DOMAIN t[q] : t[q][k] = tbl[q][m]
    OBVIOUS
  <2>1. CASE q = p
    <3>1. m \in 1 .. Len(tbl[p]) /\ m # 1
      BY <1>1, <2>1 DEF Waits
    <3>2. m - 1 \in 1 .. Len(tbl[p]) - 1 /\ (m - 1) + 1 = m
      BY <1>1, <3>1
    <3>3. m - 1 \in DOMAIN t[q] /\ t[q][m - 1] = tbl[q][m]
      BY <1>1, <2>1, <3>2
    <3>4. QED
      BY <3>3
  <2>2. CASE q # p
    BY <1>1, <2>2
  <2>3. QED
    BY <2>1, <2>2
<1>5. \A n \in Numbers : InList(t, {}, n) <=> InList(tbl, {p}, n)
  <2> SUFFICES ASSUME NEW n \in Numbers
               PROVE  InList(t, {}, n) <=> InList(tbl, {p}, n)
    OBVIOUS
  <2>1. ASSUME InList(t, {}, n) PROVE InList(tbl, {p}, n)
    <3>1. PICK q \in Levels : \E k \in DOMAIN t[q] : t[q][k].ev.n = n
      BY <2>1 DEF InList
    <3>2. PICK k \in DOMAIN t[q] : t[q][k].ev.n = n
      BY <3>1
    <3> HIDE DEF up
    <3>3. QED
      BY <1>3, <3>2 DEF InList
  <2>2. ASSUME InList(tbl, {p}, n) PROVE InList(t, {}, n)
    <3>1. PICK q \in Levels : \E m \in DOMAIN tbl[q] :
                                Waits({p}, q, m) /\ tbl[q][m].ev.n = n
      BY <2>2 DEF InList
    <3>2. PICK m \in DOMAIN tbl[q] : Waits({p}, q, m) /\ tbl[q][m].ev.n = n
      BY <3>1
    <3>3. PICK k \in DOMAIN t[q] : t[q][k] = tbl[q][m]
      BY <1>4, <3>2
    <3>4. QED
      BY <1>2, <3>2, <3>3 DEF InList
  <2>3. QED
    BY <2>1, <2>2
<1>6. ListOnce(t, {})
  <2> SUFFICES ASSUME NEW q \in Levels, NEW s \in Levels,
                      NEW j \in DOMAIN t[q], NEW k \in DOMAIN t[s],
                      t[q][j].ev.n = t[s][k].ev.n, t[q][j].ev.n \in Numbers
               PROVE  q = s /\ j = k
    BY DEF ListOnce
  <2>1. q = s /\ up(q, j) = up(s, k)
    <3> HIDE DEF up
    <3>1. /\ up(q, j) \in DOMAIN tbl[q] /\ up(s, k) \in DOMAIN tbl[s]
          /\ tbl[q][up(q, j)].ev.n = tbl[s][up(s, k)].ev.n
          /\ tbl[q][up(q, j)].ev.n \in Numbers
          /\ Waits({p}, q, up(q, j)) /\ Waits({p}, s, up(s, k))
      BY <1>3
    <3>2. QED
      BY <3>1 DEF ListOnce
  <2>2. CASE q = p
    <3>1. j \in Int /\ k \in Int
      BY <1>1, <2>1, <2>2
    <3>2. QED
      BY <2>1, <2>2, <3>1
  <2>3. CASE q # p
    BY <2>1, <2>3
  <2>4. QED
    BY <2>2, <2>3
<1>7. QED
  BY <1>5, <1>6 DEF t

\* emos_post adds the number of an event that it accepts to the lists.
LEMMA PostBooks ==
  ASSUME BusInv, NEW ev \in EventType, NEW given \in BOOLEAN, NEW ok \in BOOLEAN,
         emos_post(ev, given, ok)
  PROVE  /\ ~ok => task_tbl' = task_tbl
         /\ ok => \A n \in Numbers :
                    InList(task_tbl', Served, n) <=> (InList(task_tbl, Served, n) \/ n = ev.n)
         /\ ListOnce(task_tbl, Served) /\ (ev.n \in Numbers => ~InList(task_tbl, Served, ev.n))
              => ListOnce(task_tbl', Served)
<1>1. CASE Refused(ev, given)
  BY <1>1 DEF emos_post, queue
<1>2. CASE ~Refused(ev, given)
  <2>1. PICK r \in Malloc(heap, NodeLen(ev)) :
          /\ ok = (r.ptr # NoBlock)
          /\ task_tbl' = IF ok THEN Queued(task_tbl, LevelOf(ev.task), r.ptr, ev)
                         ELSE task_tbl
    BY <1>2 DEF emos_post
  <2>2. CASE ~ok
    BY <2>1, <2>2
  <2>3. CASE ok
    <3>1. LevelOf(ev.task) \in Levels
      BY <1>2 DEF BusInv, Refused, TableChecked, EntriesRejected, LevelOf, Registered
    <3>2. r.ptr \in Nat
      <4>1. NodeLen(ev) \in Nat /\ Sound(heap)
        BY DEF BusInv, NodesOwnBlocks, NodeLen, NodeSize, EventType
      <4>2. QED
        BY <2>1, <2>3, <4>1, MallocSound
    <3>3. [ptr |-> r.ptr, ev |-> ev] \in NodeType /\ task_tbl \in TableType
      BY <3>2, Types DEF BusInv, NodeType
    <3>4. \A q \in Levels \cap Served : task_tbl[q] # <<>>
      BY DEF Served, BusInv, ServedIsHead
    <3>5. QED
      BY <2>1, <2>3, <3>1, <3>3, <3>4, QueuedNumbers
  <2>4. QED
    BY <2>2, <2>3
<1>3. QED
  BY <1>1, <1>2

\* No other node of the list has the address of the node in service.
LEMMA ServedNodeIsFirst ==
  ASSUME BusInv, pc = "handler"
  PROVE  /\ level \in Levels /\ task_tbl[level] # <<>> /\ task_tbl \in TableType
         /\ 1 \in DOMAIN task_tbl[level]
         /\ \A k \in DOMAIN task_tbl[level] : task_tbl[level][k].ptr = proc <=> k = 1
<1>1. /\ level \in Levels /\ task_tbl[level] # <<>> /\ proc = task_tbl[level][1].ptr
      /\ task_tbl \in TableType
  BY Types DEF BusInv, TypeOK, ThreadOK, ServedIsHead
<1>2. 1 \in DOMAIN task_tbl[level]
  <2>1. /\ task_tbl[level] \in Seq(NodeType) /\ Len(task_tbl[level]) \in Nat
        /\ DOMAIN task_tbl[level] = 1 .. Len(task_tbl[level])
    BY <1>1, LenProperties DEF TableType
  <2>2. QED
    BY <1>1, <2>1, EmptySeq
<1>3. QED
  BY <1>1, <1>2 DEF BusInv, NodesOwnBlocks, OwnBlocks

\* k_msgq_put and k_msgq_get, and the numbers in the message queue.
LEMMA MsgqNumbers ==
  ASSUME NEW q \in Seq(EventType), MsgqOnce(q)
  PROVE  /\ \A ev \in EventType : (ev.n \in Numbers => ~InMsgq(q, ev.n)) =>
              /\ MsgqOnce(Append(q, ev))
              /\ \A n : InMsgq(Append(q, ev), n) <=> (InMsgq(q, n) \/ n = ev.n)
         /\ q # <<>> =>
              /\ Head(q) \in EventType /\ InMsgq(q, Head(q).n)
              /\ MsgqOnce(Tail(q))
              /\ \A n \in Numbers : InMsgq(Tail(q), n) <=> InMsgq(q, n) /\ n # Head(q).n
<1>1. Len(q) \in Nat /\ DOMAIN q = 1 .. Len(q)
  BY LenProperties
<1>2. ASSUME NEW ev \in EventType, ev.n \in Numbers => ~InMsgq(q, ev.n)
      PROVE  /\ MsgqOnce(Append(q, ev))
             /\ \A n : InMsgq(Append(q, ev), n) <=> (InMsgq(q, n) \/ n = ev.n)
  <2> DEFINE a == Append(q, ev)
  <2>1. /\ DOMAIN a = 1 .. Len(q) + 1
        /\ \A k \in 1 .. Len(q) : a[k] = q[k]
        /\ a[Len(q) + 1] = ev
    BY <1>1, AppendProperties, LenProperties
  <2> HIDE DEF a
  <2>2. \A k \in DOMAIN a : \/ k = Len(q) + 1
                            \/ k \in DOMAIN q /\ a[k] = q[k]
    BY <1>1, <2>1
  <2>3. /\ Len(q) + 1 \in DOMAIN a
        /\ \A k \in DOMAIN q : k \in DOMAIN a /\ a[k] = q[k]
    BY <1>1, <2>1
  <2>4. MsgqOnce(a)
    BY <1>2, <2>1, <2>2 DEF MsgqOnce, InMsgq
  <2>5. \A n : InMsgq(a, n) <=> (InMsgq(q, n) \/ n = ev.n)
    BY <2>1, <2>2, <2>3 DEF InMsgq
  <2>6. QED
    BY <2>4, <2>5 DEF a
<1>3. ASSUME q # <<>>
      PROVE  /\ Head(q) \in EventType /\ InMsgq(q, Head(q).n)
             /\ MsgqOnce(Tail(q))
             /\ \A n \in Numbers : InMsgq(Tail(q), n) <=> InMsgq(q, n) /\ n # Head(q).n
  <2> DEFINE t == Tail(q)
  <2>1. /\ Len(q) # 0 /\ Head(q) = q[1] /\ Head(q) \in EventType
        /\ DOMAIN t = 1 .. Len(q) - 1
        /\ \A k \in 1 .. Len(q) - 1 : t[k] = q[k + 1]
    <3>1. Len(q) # 0
      BY <1>1, <1>3, EmptySeq
    <3>2. /\ t \in Seq(EventType) /\ Len(t) = Len(q) - 1
          /\ \A k \in 1 .. Len(t) : t[k] = q[k + 1]
          /\ Head(q) = q[1] /\ Head(q) \in EventType
      BY <1>3, HeadTailProperties
    <3>3. QED
      BY <3>1, <3>2, LenProperties
  <2> HIDE DEF t
  <2>2. 1 \in DOMAIN q
    BY <1>1, <2>1
  <2>3. \A k \in DOMAIN t : k + 1 \in DOMAIN q /\ k + 1 # 1 /\ t[k] = q[k + 1]
    BY <1>1, <2>1
  <2>4. \A m \in DOMAIN q : m # 1 => m - 1 \in DOMAIN t /\ t[m - 1] = q[m]
    <3> SUFFICES ASSUME NEW m \in DOMAIN q, m # 1
                 PROVE  m - 1 \in DOMAIN t /\ t[m - 1] = q[m]
      OBVIOUS
    <3>1. m - 1 \in 1 .. Len(q) - 1 /\ (m - 1) + 1 = m
      BY <1>1
    <3>2. QED
      BY <2>1, <3>1
  <2>5. MsgqOnce(t)
    <3> SUFFICES ASSUME NEW j \in DOMAIN t, NEW k \in DOMAIN t,
                        t[j].n = t[k].n, t[j].n \in Numbers
                 PROVE  j = k
      BY DEF MsgqOnce
    <3>1. j + 1 = k + 1
      BY <2>3 DEF MsgqOnce
    <3>2. QED
      BY <2>1, <3>1
  <2>6. ASSUME NEW n \in Numbers PROVE InMsgq(t, n) <=> InMsgq(q, n) /\ n # Head(q).n
    <3>1. ASSUME InMsgq(t, n) PROVE InMsgq(q, n) /\ n # Head(q).n
      <4>1. PICK k \in DOMAIN t : t[k].n = n
        BY <3>1 DEF InMsgq
      <4>2. k + 1 \in DOMAIN q /\ k + 1 # 1 /\ q[k + 1].n = n
        BY <2>3, <4>1
      <4>3. QED
        BY <2>1, <2>2, <4>2 DEF InMsgq, MsgqOnce
    <3>2. ASSUME InMsgq(q, n), n # Head(q).n PROVE InMsgq(t, n)
      <4>1. PICK m \in DOMAIN q : q[m].n = n
        BY <3>2 DEF InMsgq
      <4>2. m - 1 \in DOMAIN t /\ t[m - 1] = q[m]
        BY <2>1, <2>4, <3>2, <4>1
      <4>3. QED
        BY <4>1, <4>2 DEF InMsgq
    <3>3. QED
      BY <3>1, <3>2
  <2>7. InMsgq(q, Head(q).n)
    BY <2>1, <2>2 DEF InMsgq
  <2>8. QED
    BY <2>1, <2>5, <2>6, <2>7 DEF t
<1>4. QED
  BY <1>2, <1>3

\* Nothing is posted before start-up.
LEMMA LedgerInit == RtbusInit => Ledger
<1> SUFFICES ASSUME RtbusInit PROVE Ledger
  OBVIOUS
<1>1. DOMAIN msgq = {} /\ posts = 0 /\ done = {} /\ lost = {}
  BY DEF RtbusInit
<1>2. \A s \in 1 .. Depth : delayed_events[s].used = FALSE
  BY DEF RtbusInit, Unused
<1>3. \A p \in Levels : DOMAIN task_tbl[p] = {}
  BY DEF RtbusInit
<1>4. MsgqOnce(msgq) /\ SlotOnce(delayed_events) /\ ListOnce(task_tbl, Served)
  BY <1>1, <1>2, <1>3 DEF MsgqOnce, SlotOnce, ListOnce
<1>5. \A n \in Numbers : /\ ~InMsgq(msgq, n) /\ ~InSlot(delayed_events, n)
                           /\ ~InList(task_tbl, Served, n)
                           /\ ~(n <= posts)
  BY <1>1, <1>2, <1>3, RtbusAssumption DEF InMsgq, InSlot, InList, Numbers
<1>6. QED
  BY <1>1, <1>4, <1>5 DEF Ledger, Booked

\* A step that moves no event.
LEMMA LedgerStays ==
  ASSUME Ledger, UNCHANGED <<msgq, delayed_events, task_tbl, ledger>>, Served' = Served
  PROVE  Ledger'
BY DEF Ledger, ledger

\* The SYS_INIT events carry no number.
LEMMA PostInitBooks == BusInv /\ Ledger /\ PostInit => Ledger'
<1> SUFFICES ASSUME BusInv, Ledger, PostInit PROVE Ledger'
  OBVIOUS
<1>1. /\ UNCHANGED <<msgq, delayed_events, ledger>>
      /\ Served = {} /\ Served' = {}
  BY DEF PostInit, Served, delayed, StartPass, Advance, Goto, Enter
<1>2. CASE UNCHANGED task_tbl
  BY <1>1, <1>2, LedgerStays
<1>3. CASE i <= entry_count /\ \E ok \in BOOLEAN :
             emos_post(Event(entry_tbl[i].task, 0, 0, FALSE), FALSE, ok)
  <2> DEFINE ev == Event(entry_tbl[i].task, 0, 0, FALSE)
  <2>1. PICK ok \in BOOLEAN : emos_post(ev, FALSE, ok)
    BY <1>3
  <2>2. ev \in EventType /\ ev.n = 0
    <3>1. i \in 1 .. Len(entry_tbl) /\ entry_tbl \in Seq(Entry)
      BY <1>3, Types DEF BusInv, TypeOK, TableOK, ThreadOK
    <3>2. entry_tbl[i] \in Entry
      BY <3>1, ElementOfSeq
    <3>3. QED
      BY <3>2 DEF Event, EventType, Entry
  <2> HIDE DEF ev
  <2>3. CASE ~ok
    BY <1>1, <2>1, <2>2, <2>3, PostBooks, LedgerStays
  <2>4. CASE ok
    <3>1. /\ ListOnce(task_tbl', {})
          /\ \A n \in Numbers : InList(task_tbl', {}, n) <=> InList(task_tbl, {}, n)
      <4>1. ev.n \notin Numbers
        BY <2>2, RtbusAssumption DEF Numbers
      <4>2. QED
        BY <1>1, <2>1, <2>2, <2>4, <4>1, PostBooks DEF Ledger
    <3>2. QED
      BY <1>1, <3>1 DEF Ledger, Booked, ledger
  <2>5. QED
    BY <2>3, <2>4
<1>4. QED
  <2>1. i > entry_count \/ i <= entry_count
    BY Types DEF BusInv, TypeOK, TableOK, ThreadOK
  <2>2. QED
    BY <1>2, <1>3, <2>1 DEF PostInit, queue

\* rtbus_move_due_events: the number of the slot that is emptied goes to a list.
LEMMA MoveDueBooks == BusInv /\ Ledger /\ MoveDue => Ledger'
<1> SUFFICES ASSUME BusInv, Ledger, MoveDue PROVE Ledger'
  OBVIOUS
<1>1. /\ UNCHANGED <<msgq, ledger>> /\ Served = {} /\ Served' = {}
      /\ i \in Nat \ {0} /\ delayed_events \in [1 .. Depth -> SlotType]
  BY DEF MoveDue, Served, Advance, Goto, Enter, GivesUp, BusInv, TypeOK, ThreadOK, SlotsOK
<1>2. CASE UNCHANGED <<queue, delayed>>
  BY <1>1, <1>2, LedgerStays DEF queue, delayed
<1>3. CASE i <= Depth /\ Used(i) /\ \E ok \in BOOLEAN :
             /\ emos_post(delayed_events[i].ev, TRUE, ok)
             /\ IF ok THEN Emptied(i) ELSE UNCHANGED delayed
  <2> DEFINE ev == delayed_events[i].ev
  <2>1. PICK ok \in BOOLEAN : /\ emos_post(ev, TRUE, ok)
                              /\ IF ok THEN Emptied(i) ELSE UNCHANGED delayed
    BY <1>3
  <2>2. i \in 1 .. Depth /\ ev \in EventType
    BY <1>1, <1>3, RtbusAssumption, Types DEF BusInv
  <2>3. CASE ~ok
    BY <1>1, <2>1, <2>2, <2>3, PostBooks, LedgerStays DEF delayed
  <2>4. CASE ok
    <3>1. ev.n \in Numbers => InSlot(delayed_events, ev.n)
      BY <1>3, <2>2 DEF InSlot, Used
    <3>2. ev.n \in Numbers => ~InList(task_tbl, {}, ev.n)
      BY <1>1, <3>1 DEF Ledger, Booked
    <3>3. /\ ListOnce(task_tbl', {})
          /\ \A n \in Numbers :
               InList(task_tbl', {}, n) <=> (InList(task_tbl, {}, n) \/ n = ev.n)
      BY <1>1, <2>1, <2>2, <2>4, <3>2, PostBooks DEF Ledger
    <3>4. /\ delayed_events'[i].used = FALSE
          /\ \A s \in 1 .. Depth : s # i => delayed_events'[s] = delayed_events[s]
      <4>1. delayed_events' = [delayed_events EXCEPT ![i] = Unused]
        BY <2>1, <2>4 DEF Emptied
      <4>2. Unused.used = FALSE
        BY DEF Unused
      <4>3. QED
        BY <1>1, <2>2, <4>1, <4>2
    <3>5. SlotOnce(delayed_events')
      BY <3>4 DEF Ledger, SlotOnce
    <3>6. \A n \in Numbers :
            InSlot(delayed_events', n) <=> InSlot(delayed_events, n) /\ n # ev.n
      BY <1>3, <2>2, <3>4 DEF Ledger, SlotOnce, InSlot, Used
    <3> HIDE DEF ev
    <3>7. QED
      BY <1>1, <3>1, <3>3, <3>5, <3>6 DEF Ledger, Booked, ledger
  <2>5. QED
    BY <2>3, <2>4
<1>4. QED
  <2>1. i > Depth \/ i <= Depth
    BY <1>1, RtbusAssumption
  <2>2. QED
    BY <1>2, <1>3, <2>1 DEF MoveDue, IsDue

\* rtbus_process_async_posts: the number at the head of the message queue goes
\* to a list or is lost.
LEMMA DrainAsyncBooks == BusInv /\ Ledger /\ DrainAsync => Ledger'
<1> SUFFICES ASSUME BusInv, Ledger, DrainAsync PROVE Ledger'
  OBVIOUS
<1>1. /\ UNCHANGED <<delayed_events, posts, done>> /\ Served = {} /\ Served' = {}
      /\ msgq \in Seq(EventType)
  BY DEF DrainAsync, Served, Goto, Enter, delayed, thread, BusInv, TypeOK, LedgerOK
<1>2. CASE UNCHANGED <<queue, msgq, lost>>
  BY <1>1, <1>2, LedgerStays DEF queue, ledger
<1>3. CASE msgq # <<>> /\ \E ok \in BOOLEAN :
             /\ emos_post(Head(msgq), TRUE, ok)
             /\ msgq' = Fetched(ok)
             /\ lost' = IF ok THEN lost ELSE lost \cup Counted(Head(msgq))
  <2> DEFINE ev == Head(msgq)
  <2>1. PICK ok \in BOOLEAN : /\ emos_post(ev, TRUE, ok)
                              /\ msgq' = Tail(msgq)
                              /\ lost' = IF ok THEN lost ELSE lost \cup Counted(ev)
    BY <1>3 DEF Fetched
  <2>2. /\ ev \in EventType /\ InMsgq(msgq, ev.n)
        /\ MsgqOnce(msgq')
        /\ \A n \in Numbers : InMsgq(msgq', n) <=> InMsgq(msgq, n) /\ n # ev.n
    BY <1>1, <1>3, <2>1, MsgqNumbers DEF Ledger
  <2> HIDE DEF ev
  <2>3. \A n \in Numbers : n \in Counted(ev) <=> n = ev.n
    BY DEF Counted, Numbers
  <2>4. ev.n \in Numbers => ~InList(task_tbl, {}, ev.n)
    BY <1>1, <2>2 DEF Ledger, Booked
  <2>5. CASE ~ok
    <3>1. task_tbl' = task_tbl /\ lost' = lost \cup Counted(ev)
      BY <2>1, <2>2, <2>5, PostBooks
    <3>2. QED
      BY <1>1, <2>2, <2>3, <3>1 DEF Ledger, Booked
  <2>6. CASE ok
    <3>1. /\ ListOnce(task_tbl', {}) /\ lost' = lost
          /\ \A n \in Numbers :
               InList(task_tbl', {}, n) <=> (InList(task_tbl, {}, n) \/ n = ev.n)
      BY <1>1, <2>1, <2>2, <2>4, <2>6, PostBooks DEF Ledger
    <3>2. QED
      BY <1>1, <2>2, <3>1 DEF Ledger, Booked
  <2>7. QED
    BY <2>5, <2>6
<1>4. QED
  BY <1>2, <1>3 DEF DrainAsync

\* emos_process_queued_event: the number of the head is done.
LEMMA CallHandlerBooks == BusInv /\ Ledger /\ CallHandler => Ledger'
<1> SUFFICES ASSUME BusInv, Ledger, CallHandler PROVE Ledger'
  OBVIOUS
<1>1. UNCHANGED <<msgq, delayed_events, task_tbl, posts, lost>> /\ Served = {}
  BY DEF CallHandler, Served, queue, delayed
<1>2. PICK p \in Pending : /\ Enter("handler", 1, p, Head(task_tbl[p]).ptr, 0)
                           /\ done' = done \cup Counted(Head(task_tbl[p]).ev)
  BY DEF CallHandler
<1>3. /\ p \in Levels /\ task_tbl[p] # <<>> /\ task_tbl \in TableType
      /\ Head(task_tbl[p]) = task_tbl[p][1] /\ task_tbl[p][1] \in NodeType
  BY Types DEF Pending, BusInv
<1>4. Served' = {p}
  BY <1>2 DEF Enter, Served
<1> DEFINE num == task_tbl[p][1].ev.n
<1>5. \A n \in Numbers : n \in done' <=> (n \in done \/ n = num)
  BY <1>2, <1>3 DEF Counted, Numbers
<1>6. /\ ListOnce(task_tbl, {p})
      /\ \A n \in Numbers :
           InList(task_tbl, {p}, n) <=> InList(task_tbl, {}, n) /\ n # num
      /\ num \in Numbers => InList(task_tbl, {}, num)
  BY <1>1, <1>3, ServedNumbers DEF Ledger
<1> HIDE DEF num
<1>7. QED
  BY <1>1, <1>4, <1>5, <1>6 DEF Ledger, Booked

\* linklist_remove: the node that goes was not waiting any more.
LEMMA HandlerReturnsBooks == BusInv /\ Ledger /\ HandlerReturns => Ledger'
<1> SUFFICES ASSUME BusInv, Ledger, HandlerReturns PROVE Ledger'
  OBVIOUS
<1>1. /\ UNCHANGED <<msgq, delayed_events, posts, done, lost>>
      /\ task_tbl' = Removed(task_tbl, level, proc)
      /\ Served = {level} /\ Served' = {}
  BY DEF HandlerReturns, Served, delayed, ledger, Goto, Enter
<1>2. /\ level \in Levels /\ task_tbl[level] # <<>> /\ task_tbl \in TableType
      /\ \A k \in DOMAIN task_tbl[level] : task_tbl[level][k].ptr = proc <=> k = 1
  BY ServedNodeIsFirst DEF HandlerReturns
<1>4. /\ ListOnce(task_tbl', {})
      /\ \A n \in Numbers : InList(task_tbl', {}, n) <=> InList(task_tbl, {level}, n)
  BY <1>1, <1>2, RemovedNumbers DEF Ledger
<1>5. QED
  BY <1>1, <1>4 DEF Ledger, Booked

\* rtbus_post in another context, or in a handler: the next number goes to a list.
LEMMA PosterBooks ==
  ASSUME BusInv, Ledger,
         NEW ev \in EventType, ev.n = posts + 1, NEW given \in BOOLEAN, NEW ok \in BOOLEAN,
         emos_post(ev, given, ok), Numbered(ok),
         UNCHANGED <<table, polling, delayed, msgq, now, thread>>
  PROVE  Ledger'
<1>1. /\ UNCHANGED <<msgq, delayed_events, done, lost>> /\ Served' = Served
      /\ posts \in Nat
      /\ posts' = IF ok /\ posts < MaxPosts THEN posts + 1 ELSE posts
  BY DEF Served, delayed, thread, locals, Numbered, BusInv, TypeOK, LedgerOK
<1>2. CASE ~ok
  BY <1>1, <1>2, PostBooks, LedgerStays DEF ledger
<1>3. CASE ok
  <2>1. ~(ev.n <= posts)
    BY <1>1
  <2>2. ev.n \in Numbers =>
          /\ ~InList(task_tbl, Served, ev.n) /\ ~InMsgq(msgq, ev.n)
          /\ ~InSlot(delayed_events, ev.n) /\ ev.n \notin done /\ ev.n \notin lost
    BY <2>1 DEF Ledger, Booked
  <2>3. /\ ListOnce(task_tbl', Served)
        /\ \A n \in Numbers :
             InList(task_tbl', Served, n) <=> (InList(task_tbl, Served, n) \/ n = ev.n)
    BY <1>3, <2>2, PostBooks DEF Ledger
  <2>4. \A n \in Numbers : n <= posts' <=> (n <= posts \/ n = ev.n)
    BY <1>1, <1>3, RtbusAssumption DEF Numbers
  <2>5. QED
    BY <1>1, <2>2, <2>3, <2>4 DEF Ledger, Booked
<1>4. QED
  BY <1>2, <1>3

\* rtbus_post_delay: the next number goes to a free slot.
LEMMA HandlerPostsLaterBooks ==
  ASSUME BusInv, Ledger, NEW task \in Tasks, NEW len \in Lens, NEW delay \in Delays,
         HandlerPostsLater(task, len, delay)
  PROVE  Ledger'
<1> DEFINE ev == Event(task, len, posts + 1, FALSE)
<1>1. PICK s \in 1 .. Depth :
        /\ ~Used(s)
        /\ delayed_events' = [delayed_events EXCEPT ![s] = Armed(ev, Wrap(now + delay))]
  BY DEF HandlerPostsLater, FreeSlots
<1>2. /\ UNCHANGED <<msgq, task_tbl, done, lost>> /\ Served' = Served
      /\ posts \in Nat /\ posts' = IF posts < MaxPosts THEN posts + 1 ELSE posts
      /\ delayed_events \in [1 .. Depth -> SlotType]
  BY DEF HandlerPostsLater, Served, thread, locals, Numbered, BusInv, TypeOK, LedgerOK,
         SlotsOK
<1>3. ev.n = posts + 1
  BY DEF Event
<1>4. /\ Armed(ev, Wrap(now + delay)).used = TRUE
      /\ Armed(ev, Wrap(now + delay)).ev = ev
  BY DEF Armed
<1> HIDE DEF ev
<1>5. /\ delayed_events'[s].used = TRUE /\ delayed_events'[s].ev = ev
      /\ \A r \in 1 .. Depth : r # s => delayed_events'[r] = delayed_events[r]
  BY <1>1, <1>2, <1>4
<1>6. ~(ev.n <= posts)
  BY <1>2, <1>3
<1>7. ev.n \in Numbers =>
        /\ ~InList(task_tbl, Served, ev.n) /\ ~InMsgq(msgq, ev.n)
        /\ ~InSlot(delayed_events, ev.n) /\ ev.n \notin done /\ ev.n \notin lost
  BY <1>6 DEF Ledger, Booked
<1>8. \A n : InSlot(delayed_events', n) <=> (InSlot(delayed_events, n) \/ n = ev.n)
  BY <1>1, <1>5 DEF InSlot, Used
<1>9. SlotOnce(delayed_events')
  BY <1>5, <1>7 DEF Ledger, SlotOnce, InSlot
<1>10. \A n \in Numbers : n <= posts' <=> (n <= posts \/ n = ev.n)
  BY <1>2, <1>3, RtbusAssumption DEF Numbers
<1>11. QED
  BY <1>2, <1>7, <1>8, <1>9, <1>10 DEF Ledger, Booked

\* native_api_rtbus_post: the next number goes to the message queue.
LEMMA NativePostsBooks ==
  ASSUME BusInv, Ledger, NEW task \in Tasks, NEW len \in Lens, NativePosts(task, len)
  PROVE  Ledger'
<1> DEFINE ev == Event(task, len, posts + 1, TRUE)
<1>1. /\ msgq' = Append(msgq, ev)
      /\ UNCHANGED <<delayed_events, task_tbl, done, lost>> /\ Served' = Served
      /\ posts \in Nat /\ posts' = IF posts < MaxPosts THEN posts + 1 ELSE posts
  BY DEF NativePosts, Served, delayed, thread, locals, Numbered, BusInv, TypeOK, LedgerOK
<1>2. ev \in EventType /\ ev.n = posts + 1 /\ msgq \in Seq(EventType)
  BY EventIsTyped DEF BusInv, TypeOK, LedgerOK, Event
<1> HIDE DEF ev
<1>3. ~(ev.n <= posts)
  BY <1>1, <1>2
<1>4. ev.n \in Numbers =>
        /\ ~InList(task_tbl, Served, ev.n) /\ ~InMsgq(msgq, ev.n)
        /\ ~InSlot(delayed_events, ev.n) /\ ev.n \notin done /\ ev.n \notin lost
  BY <1>3 DEF Ledger, Booked
<1>5. /\ MsgqOnce(msgq')
      /\ \A n : InMsgq(msgq', n) <=> (InMsgq(msgq, n) \/ n = ev.n)
  BY <1>1, <1>2, <1>4, MsgqNumbers DEF Ledger
<1>6. \A n \in Numbers : n <= posts' <=> (n <= posts \/ n = ev.n)
  BY <1>1, <1>2, RtbusAssumption DEF Numbers
<1>7. QED
  BY <1>1, <1>4, <1>5, <1>6 DEF Ledger, Booked

\* native_service_force_stop_thread: what the message queue holds is lost.
LEMMA HandlerPurgesBooks == Ledger /\ HandlerPurges => Ledger'
<1> SUFFICES ASSUME Ledger, HandlerPurges PROVE Ledger'
  OBVIOUS
<1>1. /\ msgq' = <<>> /\ lost' = lost \cup UNION {Counted(msgq[k]) : k \in DOMAIN msgq}
      /\ UNCHANGED <<delayed_events, task_tbl, posts, done>> /\ Served' = Served
  BY DEF HandlerPurges, Served, queue, delayed, thread, locals
<1>2. \A n \in Numbers : n \in lost' <=> (n \in lost \/ InMsgq(msgq, n))
  BY <1>1 DEF InMsgq, Counted, Numbers
<1>3. MsgqOnce(msgq') /\ \A n : ~InMsgq(msgq', n)
  BY <1>1 DEF MsgqOnce, InMsgq
<1>4. QED
  BY <1>1, <1>2, <1>3 DEF Ledger, Booked

\* A step that neither posts nor takes an event.
LEMMA IdleBooks ==
  ASSUME Ledger, \/ Boot \/ CallPoll \/ PollReturns \/ Sleep \/ StartWait \/ Wake
                 \/ Tick \/ UNCHANGED vars
  PROVE  Ledger'
<1>1. /\ UNCHANGED <<msgq, delayed_events, task_tbl, ledger>>
      /\ \/ UNCHANGED <<pc, level>>
         \/ pc # "handler" /\ pc' # "handler"
  BY DEF Boot, CallPoll, PollReturns, Sleep, StartWait, Wake, Tick, vars, queue, delayed,
         thread, locals, StartPass, Goto, Enter
<1>2. Served' = Served
  BY <1>1 DEF Served
<1>3. QED
  BY <1>1, <1>2, LedgerStays

\* Whoever takes a step, the books stay right.
LEMMA LedgerNext == BusInv /\ Ledger /\ [RtbusNext]_vars => Ledger'
<1> SUFFICES ASSUME BusInv, Ledger, [RtbusNext]_vars PROVE Ledger'
  OBVIOUS
<1>1. CASE RuntimeStep
  BY <1>1, IdleBooks, PostInitBooks, MoveDueBooks, DrainAsyncBooks, CallHandlerBooks,
     HandlerReturnsBooks DEF RuntimeStep
<1>2. ASSUME NEW task \in Tasks, NEW len \in Lens, NEW given \in BOOLEAN,
             HandlerPosts(task, len, given)
      PROVE  Ledger'
  <2>1. /\ Event(task, len, posts + 1, FALSE) \in EventType
        /\ Event(task, len, posts + 1, FALSE).n = posts + 1
    BY EventIsTyped DEF BusInv, Event
  <2>2. QED
    BY <1>2, <2>1, PosterBooks DEF HandlerPosts
<1>3. ASSUME NEW task \in Tasks, NEW len \in Lens, NEW delay \in Delays,
             HandlerPostsLater(task, len, delay)
      PROVE  Ledger'
  BY <1>3, HandlerPostsLaterBooks
<1>4. ASSUME NEW task \in Tasks, NEW len \in Lens, NativePosts(task, len)
      PROVE  Ledger'
  BY <1>4, NativePostsBooks
<1>5. CASE WorkQueuePosts
  <2>1. /\ Event(CliTask, 0, posts + 1, FALSE) \in EventType
        /\ Event(CliTask, 0, posts + 1, FALSE).n = posts + 1
    BY RtbusAssumption DEF BusInv, TypeOK, LedgerOK, Event, EventType
  <2>2. QED
    BY <1>5, <2>1, PosterBooks DEF WorkQueuePosts
<1>6. CASE HandlerPurges
  BY <1>6, HandlerPurgesBooks
<1>7. CASE Tick \/ UNCHANGED vars
  BY <1>7, IdleBooks
<1>8. QED
  BY <1>1, <1>2, <1>3, <1>4, <1>5, <1>6, <1>7 DEF RtbusNext

\* The books are right whenever a context looks at the queues.
LEMMA LedgerInvariant == RtbusSpec => [](BusInv /\ Ledger)
<1>1. RtbusInit => BusInv /\ Ledger
  BY BusInvInit, LedgerInit
<1>2. (BusInv /\ Ledger) /\ [RtbusNext]_vars => (BusInv /\ Ledger)'
  BY BusInvNext, LedgerNext
<1>3. QED
  BY <1>1, <1>2, PTL DEF RtbusSpec

\* What the books say is that a post has one place.
LEMMA BooksGiveOnePlace == BusInv /\ Ledger => EveryPostInOnePlace
<1> SUFFICES ASSUME BusInv, Ledger, NEW n \in 1 .. posts
             PROVE  Cardinality(Places(n)) = 1
  BY DEF EveryPostInOnePlace
<1> DEFINE q == {<<"msgq", k>> : k \in {k \in DOMAIN msgq : msgq[k].n = n}}
           d == {<<"slot", s>> : s \in {s \in 1 .. Depth : Used(s) /\ delayed_events[s].ev.n = n}}
           l == {<<"list", x>> : x \in {x \in Nodes : NodeAt(x).ev.n = n /\ ~InService(x)}}
           e == {<<"done", 0>> : x \in done \cap {n}}
           f == {<<"lost", 0>> : x \in lost \cap {n}}
<1>1. n \in Numbers /\ n <= posts
  BY RtbusAssumption DEF BusInv, TypeOK, LedgerOK, Numbers
<1>2. Booked(n, InMsgq(msgq, n), InSlot(delayed_events, n), InList(task_tbl, Served, n),
             n \in done, n \in lost, n <= posts)
  BY <1>1 DEF Ledger
<1>3. /\ InMsgq(msgq, n) => \E x : q = {x}
      /\ ~InMsgq(msgq, n) => q = {}
  <2>1. ASSUME InMsgq(msgq, n) PROVE \E x : q = {x}
    <3>1. PICK k \in DOMAIN msgq : msgq[k].n = n
      BY <2>1 DEF InMsgq
    <3>2. {j \in DOMAIN msgq : msgq[j].n = n} = {k}
      BY <1>1, <3>1 DEF Ledger, MsgqOnce
    <3>3. q = {<<"msgq", k>>}
      BY <3>2
    <3>4. QED
      BY <3>3
  <2>2. ASSUME ~InMsgq(msgq, n) PROVE q = {}
    BY <2>2 DEF InMsgq
  <2>3. QED
    BY <2>1, <2>2
<1>4. /\ InSlot(delayed_events, n) => \E x : d = {x}
      /\ ~InSlot(delayed_events, n) => d = {}
  <2>1. ASSUME InSlot(delayed_events, n) PROVE \E x : d = {x}
    <3>1. PICK s \in 1 .. Depth : Used(s) /\ delayed_events[s].ev.n = n
      BY <2>1 DEF InSlot, Used
    <3>2. {r \in 1 .. Depth : Used(r) /\ delayed_events[r].ev.n = n} = {s}
      BY <1>1, <3>1 DEF Ledger, SlotOnce, Used
    <3>3. d = {<<"slot", s>>}
      BY <3>2
    <3>4. QED
      BY <3>3
  <2>2. ASSUME ~InSlot(delayed_events, n) PROVE d = {}
    BY <2>2 DEF InSlot, Used
  <2>3. QED
    BY <2>1, <2>2
\* The node in service is the head of the level that is served.
<1>5. \A p \in Levels : \A k \in DOMAIN task_tbl[p] :
        InService(<<p, k>>) <=> ~Waits(Served, p, k)
  <2> SUFFICES ASSUME NEW p \in Levels, NEW k \in DOMAIN task_tbl[p]
               PROVE  InService(<<p, k>>) <=> ~Waits(Served, p, k)
    OBVIOUS
  <2>1. CASE pc = "handler"
    <3>1. p = level => (task_tbl[p][k].ptr = proc <=> k = 1)
      BY <2>1, ServedNodeIsFirst
    <3>2. QED
      BY <2>1, <3>1 DEF InService, NodeAt, Waits, Served
  <2>2. CASE pc # "handler"
    BY <2>2 DEF InService, Waits, Served
  <2>3. QED
    BY <2>1, <2>2
<1>6. /\ InList(task_tbl, Served, n) => \E x : l = {x}
      /\ ~InList(task_tbl, Served, n) => l = {}
  <2> DEFINE w == {x \in Nodes : NodeAt(x).ev.n = n /\ ~InService(x)}
  <2>1. \A x : x \in w <=> \E p \in Levels : \E k \in DOMAIN task_tbl[p] :
                 /\ x = <<p, k>>
                 /\ task_tbl[p][k].ev.n = n /\ Waits(Served, p, k)
    BY <1>5 DEF Nodes, NodeAt
  <2>2. ASSUME InList(task_tbl, Served, n) PROVE \E x : l = {x}
    <3>1. PICK p \in Levels : \E k \in DOMAIN task_tbl[p] :
                                Waits(Served, p, k) /\ task_tbl[p][k].ev.n = n
      BY <2>2 DEF InList
    <3>2. PICK k \in DOMAIN task_tbl[p] : Waits(Served, p, k) /\ task_tbl[p][k].ev.n = n
      BY <3>1
    <3>3. <<p, k>> \in w
      BY <2>1, <3>2
    <3>4. ASSUME NEW x \in w PROVE x = <<p, k>>
      <4>1. PICK r \in Levels : \E j \in DOMAIN task_tbl[r] :
              x = <<r, j>> /\ task_tbl[r][j].ev.n = n /\ Waits(Served, r, j)
        BY <2>1, <3>4
      <4>2. PICK j \in DOMAIN task_tbl[r] :
              x = <<r, j>> /\ task_tbl[r][j].ev.n = n /\ Waits(Served, r, j)
        BY <4>1
      <4>3. r = p /\ j = k
        BY <1>1, <3>2, <4>2 DEF Ledger, ListOnce
      <4>4. QED
        BY <4>2, <4>3
    <3>5. w = {<<p, k>>}
      BY <3>3, <3>4
    <3> HIDE DEF w
    <3>6. l = {<<"list", <<p, k>> >>}
      BY <3>5 DEF w
    <3>7. QED
      BY <3>6
  <2>3. ASSUME ~InList(task_tbl, Served, n) PROVE l = {}
    <3>1. w = {}
      BY <2>1, <2>3 DEF InList
    <3>2. QED
      BY <3>1
  <2>4. QED
    BY <2>2, <2>3
<1>7. /\ n \in done => e = {<<"done", 0>>}
      /\ n \notin done => e = {}
      /\ n \in lost => f = {<<"lost", 0>>}
      /\ n \notin lost => f = {}
  OBVIOUS
<1>8. Places(n) = q \cup d \cup l \cup e \cup f
  BY DEF Places
<1> HIDE DEF q, d, l, e, f
<1>9. \E x : Places(n) = {x}
  <2>1. CASE InMsgq(msgq, n)
    BY <1>1, <1>2, <1>3, <1>4, <1>6, <1>7, <1>8, <2>1 DEF Booked
  <2>2. CASE InSlot(delayed_events, n)
    BY <1>1, <1>2, <1>3, <1>4, <1>6, <1>7, <1>8, <2>2 DEF Booked
  <2>3. CASE InList(task_tbl, Served, n)
    BY <1>1, <1>2, <1>3, <1>4, <1>6, <1>7, <1>8, <2>3 DEF Booked
  <2>4. CASE n \in done
    BY <1>1, <1>2, <1>3, <1>4, <1>6, <1>7, <1>8, <2>4 DEF Booked
  <2>5. CASE n \in lost
    BY <1>1, <1>2, <1>3, <1>4, <1>6, <1>7, <1>8, <2>5 DEF Booked
  <2>6. QED
    BY <1>1, <1>2, <2>1, <2>2, <2>3, <2>4, <2>5 DEF Booked
<1>10. QED
  BY <1>9, FS_Singleton

\* Every accepted post is in one place, dropped, or handed to its handler once.
THEOREM PostsAreNeverLostOrDoubled == RtbusSpec => []EveryPostInOnePlace
BY LedgerInvariant, BooksGiveOnePlace, PTL

-----------------------------------------------------------------------------
(***************************************************************************)
(* The order of the native program's posts.                                *)
(***************************************************************************)

\* The native program's posts are in the order of their numbers: in the message
\* queue, in each list, and those of the lists come before those of the queue.
MsgqSorted(q) == \A j, k \in DOMAIN q : j < k => q[j].n <= q[k].n
ListsSorted(tbl) ==
  \A p \in Levels : \A j, k \in DOMAIN tbl[p] :
    j < k /\ tbl[p][j].ev.async /\ tbl[p][k].ev.async => tbl[p][j].ev.n <= tbl[p][k].ev.n
NativeListed(tbl, n) ==
  \E p \in Levels : \E k \in DOMAIN tbl[p] : tbl[p][k].ev.async /\ tbl[p][k].ev.n = n

InOrder ==
  /\ MsgqSorted(msgq) /\ ListsSorted(task_tbl)
  /\ \A k \in DOMAIN msgq : msgq[k].n <= posts + 1
  /\ \A n \in Nat : NativeListed(task_tbl, n) =>
       n <= posts + 1 /\ \A k \in DOMAIN msgq : n <= msgq[k].n
  /\ \A s \in 1 .. Depth : Used(s) => ~delayed_events[s].ev.async

\* linklist_new keeps a list in order if what it appends is the youngest.
LEMMA QueuedOrder ==
  ASSUME NEW tbl \in TableType, NEW p \in Levels, NEW ptr, NEW ev \in EventType,
         ptr \in Nat, ListsSorted(tbl),
         ev.async => \A n \in Nat : NativeListed(tbl, n) => n <= ev.n
  PROVE  /\ ListsSorted(Queued(tbl, p, ptr, ev))
         /\ \A n : NativeListed(Queued(tbl, p, ptr, ev), n) =>
              NativeListed(tbl, n) \/ (ev.async /\ n = ev.n)
<1> DEFINE t == Queued(tbl, p, ptr, ev)
           last == Len(tbl[p]) + 1
<1>1. [ptr |-> ptr, ev |-> ev] \in NodeType
  BY DEF NodeType
<1>2. /\ last \in DOMAIN t[p] /\ t[p][last].ptr = ptr /\ t[p][last].ev = ev
      /\ \A k \in DOMAIN tbl[p] : k < last
      /\ \A q \in Levels : \A k \in DOMAIN t[q] :
           \/ q = p /\ k = last
           \/ k \in DOMAIN tbl[q] /\ t[q][k] = tbl[q][k]
  BY <1>1, QueuedShape
<1>3. /\ last \in Int
      /\ \A q \in Levels : \A k \in DOMAIN tbl[q] : k \in Int /\ tbl[q][k].ev.n \in Nat
  <2>1. \A q \in Levels : /\ tbl[q] \in Seq(NodeType) /\ Len(tbl[q]) \in Nat
                          /\ DOMAIN tbl[q] = 1 .. Len(tbl[q])
    BY LenProperties DEF TableType
  <2>2. \A q \in Levels : \A k \in DOMAIN tbl[q] : tbl[q][k] \in NodeType
    BY <2>1, ElementOfSeq
  <2>3. QED
    BY <2>1, <2>2 DEF NodeType, EventType
<1> HIDE DEF t, last
<1>4. ListsSorted(t)
  <2> SUFFICES ASSUME NEW q \in Levels, NEW j \in DOMAIN t[q], NEW k \in DOMAIN t[q],
                      j < k, t[q][j].ev.async, t[q][k].ev.async
               PROVE  t[q][j].ev.n <= t[q][k].ev.n
    BY DEF ListsSorted
  <2>1. CASE q = p /\ k = last
    <3>1. j \in DOMAIN tbl[p] /\ t[p][j] = tbl[p][j]
      BY <1>2, <1>3, <2>1
    <3>2. NativeListed(tbl, tbl[p][j].ev.n) /\ tbl[p][j].ev.n \in Nat
      BY <1>3, <2>1, <3>1 DEF NativeListed
    <3>3. QED
      BY <1>2, <2>1, <3>1, <3>2
  <2>2. CASE k \in DOMAIN tbl[q] /\ t[q][k] = tbl[q][k]
    <3>1. j \in DOMAIN tbl[q] /\ t[q][j] = tbl[q][j]
      BY <1>2, <1>3, <2>2
    <3>2. QED
      BY <2>2, <3>1 DEF ListsSorted
  <2>3. QED
    BY <1>2, <2>1, <2>2
<1>5. ASSUME NEW n, NativeListed(t, n)
      PROVE  NativeListed(tbl, n) \/ (ev.async /\ n = ev.n)
  <2>1. PICK q \in Levels : \E k \in DOMAIN t[q] : t[q][k].ev.async /\ t[q][k].ev.n = n
    BY <1>5 DEF NativeListed
  <2>2. PICK k \in DOMAIN t[q] : t[q][k].ev.async /\ t[q][k].ev.n = n
    BY <2>1
  <2>3. QED
    BY <1>2, <2>2 DEF NativeListed
<1>6. QED
  BY <1>4, <1>5 DEF t

\* linklist_remove of a head keeps the order of the others.
LEMMA RemovedOrder ==
  ASSUME NEW tbl \in TableType, NEW p \in Levels, tbl[p] # <<>>,
         NEW ptr, \A k \in DOMAIN tbl[p] : tbl[p][k].ptr = ptr <=> k = 1,
         ListsSorted(tbl)
  PROVE  /\ ListsSorted(Removed(tbl, p, ptr))
         /\ \A n : NativeListed(Removed(tbl, p, ptr), n) => NativeListed(tbl, n)
<1> DEFINE t == Removed(tbl, p, ptr)
<1>1. /\ t[p] = [j \in 1 .. Len(tbl[p]) - 1 |-> tbl[p][j + 1]]
      /\ \A q \in Levels : q # p => t[q] = tbl[q]
      /\ Len(tbl[p]) \in Nat /\ DOMAIN tbl[p] = 1 .. Len(tbl[p])
  BY RemovedShape
<1> HIDE DEF t
<1>2. \A k \in DOMAIN t[p] : /\ k \in Int /\ k + 1 \in DOMAIN tbl[p]
                             /\ t[p][k] = tbl[p][k + 1]
  BY <1>1
<1>3. ListsSorted(t)
  <2> SUFFICES ASSUME NEW q \in Levels, NEW j \in DOMAIN t[q], NEW k \in DOMAIN t[q],
                      j < k, t[q][j].ev.async, t[q][k].ev.async
               PROVE  t[q][j].ev.n <= t[q][k].ev.n
    BY DEF ListsSorted
  <2>1. CASE q = p
    <3>1. j + 1 < k + 1
      BY <1>2, <2>1
    <3>2. QED
      BY <1>2, <2>1, <3>1 DEF ListsSorted
  <2>2. CASE q # p
    BY <1>1, <2>2 DEF ListsSorted
  <2>3. QED
    BY <2>1, <2>2
<1>4. ASSUME NEW n, NativeListed(t, n) PROVE NativeListed(tbl, n)
  <2>1. PICK q \in Levels : \E k \in DOMAIN t[q] : t[q][k].ev.async /\ t[q][k].ev.n = n
    BY <1>4 DEF NativeListed
  <2>2. PICK k \in DOMAIN t[q] : t[q][k].ev.async /\ t[q][k].ev.n = n
    BY <2>1
  <2>3. CASE q = p
    BY <1>2, <2>2, <2>3 DEF NativeListed
  <2>4. CASE q # p
    BY <1>1, <2>2, <2>4 DEF NativeListed
  <2>5. QED
    BY <2>3, <2>4
<1>5. QED
  BY <1>3, <1>4 DEF t

\* k_msgq_put of the youngest and k_msgq_get keep the message queue in order.
LEMMA MsgqOrder ==
  ASSUME NEW q \in Seq(EventType), MsgqSorted(q)
  PROVE  /\ \A ev \in EventType : (\A k \in DOMAIN q : q[k].n <= ev.n) =>
              /\ MsgqSorted(Append(q, ev))
              /\ \A k \in DOMAIN Append(q, ev) :
                   \/ Append(q, ev)[k] = ev
                   \/ \E m \in DOMAIN q : Append(q, ev)[k] = q[m]
         /\ q # <<>> =>
              /\ MsgqSorted(Tail(q))
              /\ \A k \in DOMAIN Tail(q) :
                   /\ Head(q).n <= Tail(q)[k].n
                   /\ \E m \in DOMAIN q : Tail(q)[k] = q[m]
              /\ \E m \in DOMAIN q : Head(q) = q[m]
<1>1. Len(q) \in Nat /\ DOMAIN q = 1 .. Len(q)
  BY LenProperties
<1>2. ASSUME NEW ev \in EventType, \A k \in DOMAIN q : q[k].n <= ev.n
      PROVE  /\ MsgqSorted(Append(q, ev))
             /\ \A k \in DOMAIN Append(q, ev) :
                  \/ Append(q, ev)[k] = ev
                  \/ \E m \in DOMAIN q : Append(q, ev)[k] = q[m]
  <2> DEFINE a == Append(q, ev)
  <2>1. /\ DOMAIN a = 1 .. Len(q) + 1
        /\ \A k \in 1 .. Len(q) : a[k] = q[k]
        /\ a[Len(q) + 1] = ev
    BY <1>1, AppendProperties, LenProperties
  <2> HIDE DEF a
  <2>2. MsgqSorted(a)
    <3> SUFFICES ASSUME NEW j \in DOMAIN a, NEW k \in DOMAIN a, j < k
                 PROVE  a[j].n <= a[k].n
      BY DEF MsgqSorted
    <3>1. j \in DOMAIN q /\ a[j] = q[j]
      BY <1>1, <2>1
    <3>2. CASE k = Len(q) + 1
      BY <1>2, <2>1, <3>1, <3>2
    <3>3. CASE k # Len(q) + 1
      <4>1. k \in DOMAIN q /\ a[k] = q[k]
        BY <1>1, <2>1, <3>3
      <4>2. QED
        BY <3>1, <4>1 DEF MsgqSorted
    <3>4. QED
      BY <3>2, <3>3
  <2>3. \A k \in DOMAIN a : \/ a[k] = ev
                            \/ \E m \in DOMAIN q : a[k] = q[m]
    BY <1>1, <2>1
  <2>4. QED
    BY <2>2, <2>3 DEF a
<1>3. ASSUME q # <<>>
      PROVE  /\ MsgqSorted(Tail(q))
             /\ \A k \in DOMAIN Tail(q) :
                  /\ Head(q).n <= Tail(q)[k].n
                  /\ \E m \in DOMAIN q : Tail(q)[k] = q[m]
             /\ \E m \in DOMAIN q : Head(q) = q[m]
  <2> DEFINE t == Tail(q)
  <2>1. /\ Len(q) # 0 /\ Head(q) = q[1]
        /\ DOMAIN t = 1 .. Len(q) - 1
        /\ \A k \in 1 .. Len(q) - 1 : t[k] = q[k + 1]
    <3>1. Len(q) # 0
      BY <1>1, <1>3, EmptySeq
    <3>2. /\ t \in Seq(EventType) /\ Len(t) = Len(q) - 1
          /\ \A k \in 1 .. Len(t) : t[k] = q[k + 1]
          /\ Head(q) = q[1]
      BY <1>3, HeadTailProperties
    <3>3. QED
      BY <3>1, <3>2, LenProperties
  <2> HIDE DEF t
  <2>2. 1 \in DOMAIN q
    BY <1>1, <2>1
  <2>3. \A k \in DOMAIN t : /\ k \in Int /\ k + 1 \in DOMAIN q /\ 1 < k + 1
                            /\ t[k] = q[k + 1]
    BY <1>1, <2>1
  <2>4. MsgqSorted(t)
    <3> SUFFICES ASSUME NEW j \in DOMAIN t, NEW k \in DOMAIN t, j < k
                 PROVE  t[j].n <= t[k].n
      BY DEF MsgqSorted
    <3>1. j + 1 < k + 1
      BY <2>3
    <3>2. QED
      BY <2>3, <3>1 DEF MsgqSorted
  <2>5. \A k \in DOMAIN t : Head(q).n <= t[k].n
    BY <2>1, <2>2, <2>3 DEF MsgqSorted
  <2>6. QED
    BY <2>1, <2>2, <2>3, <2>4, <2>5 DEF t
<1>4. QED
  BY <1>2, <1>3

\* Nothing is queued before start-up.
LEMMA InOrderInit == RtbusInit => InOrder
<1> SUFFICES ASSUME RtbusInit PROVE InOrder
  OBVIOUS
<1>1. DOMAIN msgq = {}
  BY DEF RtbusInit
<1>2. \A s \in 1 .. Depth : ~Used(s)
  BY DEF RtbusInit, Used, Unused
<1>3. \A p \in Levels : DOMAIN task_tbl[p] = {}
  BY DEF RtbusInit
<1>4. QED
  BY <1>1, <1>2, <1>3 DEF InOrder, MsgqSorted, ListsSorted, NativeListed

\* A step that moves no event.
LEMMA InOrderStays ==
  ASSUME InOrder, UNCHANGED <<msgq, delayed_events, task_tbl, posts>>
  PROVE  InOrder'
BY DEF InOrder, Used

\* emos_post appends to a list.
LEMMA PostOrders ==
  ASSUME BusInv, InOrder,
         NEW ev \in EventType, NEW given \in BOOLEAN, NEW ok \in BOOLEAN,
         emos_post(ev, given, ok),
         ev.async => \A n \in Nat : NativeListed(task_tbl, n) => n <= ev.n
  PROVE  /\ ListsSorted(task_tbl')
         /\ \A n : NativeListed(task_tbl', n) =>
              NativeListed(task_tbl, n) \/ (ev.async /\ n = ev.n)
<1>1. CASE task_tbl' = task_tbl
  BY <1>1 DEF InOrder
<1>2. CASE ~Refused(ev, given) /\ ok
  <2>1. PICK r \in Malloc(heap, NodeLen(ev)) :
          /\ r.ptr # NoBlock
          /\ task_tbl' = Queued(task_tbl, LevelOf(ev.task), r.ptr, ev)
    BY <1>2 DEF emos_post
  <2>2. LevelOf(ev.task) \in Levels
    BY <1>2 DEF BusInv, Refused, TableChecked, EntriesRejected, LevelOf, Registered
  <2>3. r.ptr \in Nat
    <3>1. NodeLen(ev) \in Nat /\ Sound(heap)
      BY DEF BusInv, NodesOwnBlocks, NodeLen, NodeSize, EventType
    <3>2. QED
      BY <2>1, <3>1, MallocSound
  <2>4. task_tbl \in TableType /\ ListsSorted(task_tbl)
    BY Types DEF BusInv, InOrder
  <2>5. QED
    BY <2>1, <2>2, <2>3, <2>4, QueuedOrder
<1>3. QED
  BY <1>1, <1>2 DEF emos_post, queue

\* A post of the system itself, or of a delayed event, is not the native
\* program's.
LEMMA PlainPostOrders ==
  ASSUME BusInv, InOrder,
         NEW ev \in EventType, NEW given \in BOOLEAN, NEW ok \in BOOLEAN,
         emos_post(ev, given, ok), ~ev.async,
         msgq' = msgq, posts' \in {posts, posts + 1},
         \A s \in 1 .. Depth : Used(s)' => Used(s) /\ delayed_events'[s] = delayed_events[s]
  PROVE  InOrder'
<1>1. ListsSorted(task_tbl') /\ \A n : NativeListed(task_tbl', n) => NativeListed(task_tbl, n)
  BY PostOrders
<1>2. posts \in Nat /\ msgq \in Seq(EventType)
  BY DEF BusInv, TypeOK, LedgerOK
<1>3. \A k \in DOMAIN msgq : msgq[k].n \in Nat
  <2>1. \A k \in DOMAIN msgq : msgq[k] \in EventType
    BY <1>2, ElementOfSeq, LenProperties
  <2>2. QED
    BY <2>1 DEF EventType
<1>4. \A n \in Nat : n <= posts + 1 => n <= posts' + 1
  <2>1. posts' = posts \/ posts' = posts + 1
    OBVIOUS
  <2>2. CASE posts' = posts
    BY <2>2
  <2>3. CASE posts' = posts + 1
    BY <1>2, <2>3
  <2>4. QED
    BY <2>1, <2>2, <2>3
<1>5. QED
  BY <1>1, <1>3, <1>4 DEF InOrder, Used

\* emos_init posts SYS_INIT for the system, not for the native program.
LEMMA PostInitOrders == BusInv /\ InOrder /\ PostInit => InOrder'
<1> SUFFICES ASSUME BusInv, InOrder, PostInit PROVE InOrder'
  OBVIOUS
<1>1. UNCHANGED <<msgq, delayed_events, posts>>
  BY DEF PostInit, delayed, ledger
<1>2. CASE UNCHANGED task_tbl
  BY <1>1, <1>2, InOrderStays
<1>3. CASE i <= entry_count /\ \E ok \in BOOLEAN :
             emos_post(Event(entry_tbl[i].task, 0, 0, FALSE), FALSE, ok)
  <2>1. Event(entry_tbl[i].task, 0, 0, FALSE) \in EventType
    <3>1. i \in 1 .. Len(entry_tbl) /\ entry_tbl \in Seq(Entry)
      BY <1>3, Types DEF BusInv, TypeOK, TableOK, ThreadOK
    <3>2. entry_tbl[i] \in Entry
      BY <3>1, ElementOfSeq
    <3>3. QED
      BY <3>2 DEF Event, EventType, Entry
  <2>2. ~Event(entry_tbl[i].task, 0, 0, FALSE).async
    BY DEF Event
  <2>3. QED
    BY <1>1, <1>3, <2>1, <2>2, PlainPostOrders DEF Used
<1>4. QED
  <2>1. i > entry_count \/ i <= entry_count
    BY Types DEF BusInv, TypeOK, TableOK, ThreadOK
  <2>2. QED
    BY <1>2, <1>3, <2>1 DEF PostInit, queue

\* rtbus_move_due_events posts what handlers delayed; none of it is the native
\* program's.
LEMMA MoveDueOrders == BusInv /\ InOrder /\ MoveDue => InOrder'
<1> SUFFICES ASSUME BusInv, InOrder, MoveDue PROVE InOrder'
  OBVIOUS
<1>1. /\ UNCHANGED <<msgq, posts>> /\ i \in Nat \ {0}
      /\ delayed_events \in [1 .. Depth -> SlotType]
  BY DEF MoveDue, ledger, BusInv, TypeOK, ThreadOK, SlotsOK
<1>2. CASE UNCHANGED <<queue, delayed>>
  BY <1>1, <1>2, InOrderStays DEF queue, delayed
<1>3. CASE i <= Depth /\ Used(i) /\ \E ok \in BOOLEAN :
             /\ emos_post(delayed_events[i].ev, TRUE, ok)
             /\ IF ok THEN Emptied(i) ELSE UNCHANGED delayed
  <2>1. i \in 1 .. Depth /\ delayed_events[i].ev \in EventType
    BY <1>1, <1>3, RtbusAssumption, Types DEF BusInv
  <2>2. ~delayed_events[i].ev.async
    BY <1>3, <2>1 DEF InOrder
  <2>3. \A s \in 1 .. Depth : Used(s)' => Used(s) /\ delayed_events'[s] = delayed_events[s]
    <3>1. CASE UNCHANGED delayed
      BY <3>1 DEF delayed, Used
    <3>2. CASE Emptied(i)
      <4>1. delayed_events' = [delayed_events EXCEPT ![i] = Unused] /\ Unused.used = FALSE
        BY <3>2 DEF Emptied, Unused
      <4>2. delayed_events'[i] = Unused
        BY <1>1, <2>1, <4>1
      <4>3. \A s \in 1 .. Depth : s # i => delayed_events'[s] = delayed_events[s]
        BY <1>1, <4>1
      <4>4. QED
        BY <4>1, <4>2, <4>3 DEF Used
    <3>3. QED
      BY <1>3, <3>1, <3>2
  <2>4. QED
    BY <1>1, <1>3, <2>1, <2>2, <2>3, PlainPostOrders
<1>4. QED
  <2>1. i > Depth \/ i <= Depth
    BY <1>1, RtbusAssumption
  <2>2. QED
    BY <1>2, <1>3, <2>1 DEF MoveDue, IsDue

\* rtbus_process_async_posts takes the oldest message.
LEMMA DrainAsyncOrders == BusInv /\ InOrder /\ DrainAsync => InOrder'
<1> SUFFICES ASSUME BusInv, InOrder, DrainAsync PROVE InOrder'
  OBVIOUS
<1>1. UNCHANGED <<delayed_events, posts>> /\ msgq \in Seq(EventType)
  BY DEF DrainAsync, delayed, BusInv, TypeOK, LedgerOK
<1>2. CASE UNCHANGED <<queue, msgq>>
  BY <1>1, <1>2, InOrderStays DEF queue
<1>3. CASE msgq # <<>> /\ \E ok \in BOOLEAN :
             emos_post(Head(msgq), TRUE, ok) /\ msgq' = Fetched(ok)
  <2> DEFINE ev == Head(msgq)
  <2>1. PICK ok \in BOOLEAN : emos_post(ev, TRUE, ok) /\ msgq' = Tail(msgq)
    BY <1>3 DEF Fetched
  <2>2. /\ ev \in EventType
        /\ MsgqSorted(msgq')
        /\ \A k \in DOMAIN msgq' : /\ ev.n <= msgq'[k].n
                                   /\ \E m \in DOMAIN msgq : msgq'[k] = msgq[m]
        /\ \E m \in DOMAIN msgq : ev = msgq[m]
    BY <1>1, <1>3, <2>1, MsgqOrder, HeadTailProperties DEF InOrder
  <2> HIDE DEF ev
  <2>3. ev.n <= posts + 1 /\ \A n \in Nat : NativeListed(task_tbl, n) => n <= ev.n
    BY <2>2 DEF InOrder
  <2>4. /\ ListsSorted(task_tbl')
        /\ \A n : NativeListed(task_tbl', n) => NativeListed(task_tbl, n) \/ n = ev.n
    BY <2>1, <2>2, <2>3, PostOrders
  <2>5. QED
    BY <1>1, <2>2, <2>3, <2>4 DEF InOrder, Used
<1>4. QED
  BY <1>2, <1>3 DEF DrainAsync

\* linklist_remove takes the head of a list.
LEMMA HandlerReturnsOrders == BusInv /\ InOrder /\ HandlerReturns => InOrder'
<1> SUFFICES ASSUME BusInv, InOrder, HandlerReturns PROVE InOrder'
  OBVIOUS
<1>1. /\ UNCHANGED <<msgq, delayed_events, posts>>
      /\ task_tbl' = Removed(task_tbl, level, proc)
  BY DEF HandlerReturns, delayed, ledger
<1>2. /\ level \in Levels /\ task_tbl[level] # <<>> /\ task_tbl \in TableType
      /\ \A k \in DOMAIN task_tbl[level] : task_tbl[level][k].ptr = proc <=> k = 1
  BY ServedNodeIsFirst DEF HandlerReturns
<1>3. /\ ListsSorted(task_tbl')
      /\ \A n : NativeListed(task_tbl', n) => NativeListed(task_tbl, n)
  BY <1>1, <1>2, RemovedOrder DEF InOrder
<1>4. QED
  BY <1>1, <1>3 DEF InOrder, Used

\* native_api_rtbus_post appends the youngest message.
LEMMA NativePostsOrders ==
  ASSUME BusInv, InOrder, NEW task \in Tasks, NEW len \in Lens, NativePosts(task, len)
  PROVE  InOrder'
<1> DEFINE ev == Event(task, len, posts + 1, TRUE)
<1>1. /\ msgq' = Append(msgq, ev) /\ UNCHANGED <<delayed_events, task_tbl>>
      /\ posts \in Nat /\ posts' \in {posts, posts + 1}
  BY DEF NativePosts, delayed, Numbered, BusInv, TypeOK, LedgerOK
<1>2. ev \in EventType /\ ev.n = posts + 1 /\ msgq \in Seq(EventType)
  BY EventIsTyped DEF BusInv, TypeOK, LedgerOK, Event
<1> HIDE DEF ev
<1>3. \A k \in DOMAIN msgq : msgq[k].n \in Nat /\ msgq[k].n <= ev.n
  <2>1. \A k \in DOMAIN msgq : msgq[k] \in EventType
    BY <1>2, ElementOfSeq, LenProperties
  <2>2. \A k \in DOMAIN msgq : msgq[k].n \in Nat /\ msgq[k].n <= posts + 1
    BY <2>1 DEF EventType, InOrder
  <2>3. QED
    BY <1>1, <1>2, <2>2
<1>4. /\ MsgqSorted(msgq')
      /\ \A k \in DOMAIN msgq' : msgq'[k] = ev \/ \E m \in DOMAIN msgq : msgq'[k] = msgq[m]
  BY <1>1, <1>2, <1>3, MsgqOrder DEF InOrder
<1>5. \A k \in DOMAIN msgq' : msgq'[k].n <= posts' + 1
  BY <1>1, <1>2, <1>3, <1>4
<1>6. ASSUME NEW n \in Nat, NativeListed(task_tbl, n)
      PROVE  n <= posts' + 1 /\ \A k \in DOMAIN msgq' : n <= msgq'[k].n
  <2>1. n <= posts + 1 /\ \A k \in DOMAIN msgq : n <= msgq[k].n
    BY <1>6 DEF InOrder
  <2>2. n <= posts' + 1 /\ n <= ev.n
    BY <1>1, <1>2, <2>1
  <2>3. QED
    BY <1>4, <2>1, <2>2
<1>7. QED
  BY <1>1, <1>4, <1>5, <1>6 DEF InOrder, Used

\* rtbus_post_delay arms a slot with an event of a handler.
LEMMA HandlerPostsLaterOrders ==
  ASSUME BusInv, InOrder, NEW task \in Tasks, NEW len \in Lens, NEW delay \in Delays,
         HandlerPostsLater(task, len, delay)
  PROVE  InOrder'
<1> DEFINE slot == Armed(Event(task, len, posts + 1, FALSE), Wrap(now + delay))
<1>1. PICK s \in 1 .. Depth :
        delayed_events' = [delayed_events EXCEPT ![s] = slot]
  BY DEF HandlerPostsLater, FreeSlots
<1>2. /\ UNCHANGED <<msgq, task_tbl>> /\ posts \in Nat /\ posts' \in {posts, posts + 1}
      /\ delayed_events \in [1 .. Depth -> SlotType]
  BY DEF HandlerPostsLater, Numbered, BusInv, TypeOK, LedgerOK, SlotsOK
<1>3. ~slot.ev.async
  BY DEF Armed, Event
<1> HIDE DEF slot
<1>4. \A r \in 1 .. Depth : Used(r)' => ~delayed_events'[r].ev.async
  <2> SUFFICES ASSUME NEW r \in 1 .. Depth, Used(r)'
               PROVE  ~delayed_events'[r].ev.async
    OBVIOUS
  <2>1. CASE r = s
    BY <1>1, <1>2, <1>3, <2>1
  <2>2. CASE r # s
    <3>1. delayed_events'[r] = delayed_events[r]
      BY <1>1, <1>2, <2>2
    <3>2. QED
      BY <3>1 DEF InOrder, Used
  <2>3. QED
    BY <2>1, <2>2
<1>5. \A n \in Nat : n <= posts + 1 => n <= posts' + 1
  <2>1. posts' = posts \/ posts' = posts + 1
    BY <1>2
  <2>2. CASE posts' = posts
    BY <2>2
  <2>3. CASE posts' = posts + 1
    BY <1>2, <2>3
  <2>4. QED
    BY <2>1, <2>2, <2>3
<1>6. \A k \in DOMAIN msgq : msgq[k].n \in Nat
  <2>1. msgq \in Seq(EventType)
    BY DEF BusInv, TypeOK, LedgerOK
  <2>2. \A k \in DOMAIN msgq : msgq[k] \in EventType
    BY <2>1, ElementOfSeq, LenProperties
  <2>3. QED
    BY <2>2 DEF EventType
<1>7. QED
  BY <1>2, <1>4, <1>5, <1>6 DEF InOrder

\* Whoever takes a step, the native program's posts stay in order.
LEMMA InOrderNext == BusInv /\ InOrder /\ [RtbusNext]_vars => InOrder'
<1> SUFFICES ASSUME BusInv, InOrder, [RtbusNext]_vars PROVE InOrder'
  OBVIOUS
<1>1. CASE \/ Boot \/ CallHandler \/ CallPoll \/ PollReturns \/ Sleep \/ StartWait
           \/ Wake \/ Tick \/ UNCHANGED vars
  <2>1. UNCHANGED <<msgq, delayed_events, task_tbl, posts>>
    BY <1>1 DEF Boot, CallHandler, CallPoll, PollReturns, Sleep, StartWait, Wake, Tick,
                vars, queue, delayed, ledger
  <2>2. QED
    BY <2>1, InOrderStays
<1>2. CASE \/ PostInit \/ MoveDue \/ DrainAsync \/ HandlerReturns
  BY <1>2, PostInitOrders, MoveDueOrders, DrainAsyncOrders, HandlerReturnsOrders
<1>3. ASSUME NEW task \in Tasks, NEW len \in Lens, NEW given \in BOOLEAN,
             HandlerPosts(task, len, given)
      PROVE  InOrder'
  <2>1. /\ Event(task, len, posts + 1, FALSE) \in EventType
        /\ ~Event(task, len, posts + 1, FALSE).async
    BY EventIsTyped DEF BusInv, Event
  <2>2. QED
    BY <1>3, <2>1, PlainPostOrders DEF HandlerPosts, Numbered, delayed, Used
<1>4. ASSUME NEW task \in Tasks, NEW len \in Lens, NEW delay \in Delays,
             HandlerPostsLater(task, len, delay)
      PROVE  InOrder'
  BY <1>4, HandlerPostsLaterOrders
<1>5. ASSUME NEW task \in Tasks, NEW len \in Lens, NativePosts(task, len)
      PROVE  InOrder'
  BY <1>5, NativePostsOrders
<1>6. CASE WorkQueuePosts
  <2>1. Event(CliTask, 0, posts + 1, FALSE) \in EventType
    BY RtbusAssumption DEF BusInv, TypeOK, LedgerOK, Event, EventType
  <2>2. ~Event(CliTask, 0, posts + 1, FALSE).async
    BY DEF Event
  <2>3. QED
    BY <1>6, <2>1, <2>2, PlainPostOrders DEF WorkQueuePosts, Numbered, delayed, Used
<1>7. CASE HandlerPurges
  BY <1>7 DEF HandlerPurges, InOrder, MsgqSorted, queue, delayed, Used
<1>8. QED
  BY <1>1, <1>2, <1>3, <1>4, <1>5, <1>6, <1>7 DEF RtbusNext, RuntimeStep

\* They are in order whenever emos_process_queued_event picks one.
LEMMA InOrderInvariant == RtbusSpec => [](BusInv /\ InOrder)
<1>1. RtbusInit => BusInv /\ InOrder
  BY BusInvInit, InOrderInit
<1>2. (BusInv /\ InOrder) /\ [RtbusNext]_vars => (BusInv /\ InOrder)'
  BY BusInvNext, InOrderNext
<1>3. QED
  BY <1>1, <1>2, PTL DEF RtbusSpec

\* The event that is handed to a handler is the oldest of the native program's
\* at its level.
THEOREM NativePostsStayInOrder == RtbusSpec => NativePostsInOrder
<1>1. ASSUME BusInv, InOrder, NEW p \in Pending, CallHandler, level' = p,
             task_tbl[p][1].ev.async, NEW e \in NativeWaiting(p)
      PROVE  task_tbl[p][1].ev.n <= e.n
  <2> DEFINE first == task_tbl[p][1].ev
  <2>1. /\ p \in Levels /\ task_tbl[p] # <<>> /\ task_tbl \in TableType
        /\ first \in EventType
    BY <1>1, Types DEF Pending, BusInv, NodeType
  <2>2. /\ task_tbl[p] \in Seq(NodeType) /\ Len(task_tbl[p]) \in Nat
        /\ DOMAIN task_tbl[p] = 1 .. Len(task_tbl[p]) /\ Len(task_tbl[p]) # 0
    BY <2>1, LenProperties, EmptySeq DEF TableType
  <2>3. 1 \in DOMAIN task_tbl[p] /\ first.n \in Nat
    BY <2>1, <2>2 DEF EventType
  <2>4. NativeListed(task_tbl, first.n)
    BY <1>1, <2>1, <2>3 DEF NativeListed
  <2>5. CASE \E k \in DOMAIN msgq : e = msgq[k]
    <3>1. PICK k \in DOMAIN msgq : e = msgq[k]
      BY <2>5
    <3>2. first.n <= e.n
      BY <1>1, <2>3, <2>4, <3>1 DEF InOrder
    <3>3. e.n \in Nat
      <4>1. msgq \in Seq(EventType)
        BY <1>1 DEF BusInv, TypeOK, LedgerOK
      <4>2. e \in EventType
        BY <3>1, <4>1, ElementOfSeq, LenProperties
      <4>3. QED
        BY <4>2 DEF EventType
    <3>4. QED
      BY <2>3, <3>2, <3>3
  <2>6. CASE \E k \in DOMAIN task_tbl[p] : e = task_tbl[p][k].ev /\ e.async
    <3>1. PICK k \in DOMAIN task_tbl[p] : e = task_tbl[p][k].ev /\ e.async
      BY <2>6
    <3>2. e.n \in Nat
      <4>1. task_tbl[p][k] \in NodeType
        BY <2>2, <3>1, ElementOfSeq
      <4>2. QED
        BY <3>1, <4>1 DEF NodeType, EventType
    <3>3. CASE k = 1
      BY <2>3, <3>1, <3>3
    <3>4. CASE k # 1
      <4>1. 1 < k
        BY <2>2, <3>4
      <4>2. first.n <= e.n
        BY <1>1, <2>1, <2>3, <3>1, <4>1 DEF InOrder, ListsSorted
      <4>3. QED
        BY <2>3, <3>2, <4>2
    <3>5. QED
      BY <3>3, <3>4
  <2>7. QED
    BY <1>1, <2>5, <2>6 DEF NativeWaiting
<1>2. BusInv /\ InOrder =>
        [\A p \in Pending :
           LET first == task_tbl[p][1].ev
           IN  CallHandler /\ level' = p /\ first.async =>
                 \A e \in NativeWaiting(p) : first.n <= e.n]_vars
  BY <1>1
<1>3. QED
  BY <1>2, InOrderInvariant, PTL DEF NativePostsInOrder

-----------------------------------------------------------------------------
(***************************************************************************)
(* Whose turn it is to be polled.                                          *)
(***************************************************************************)

\* How far the scan of emos_process_poll_event is from an entry, and the polled
\* entries whose turn comes after its own: those it can have been overtaken by.
Distance(e) == IF e - 1 >= poll_next_index THEN e - 1 - poll_next_index
               ELSE e - 1 - poll_next_index + Len(entry_tbl)
Always   == {f \in Entries : entry_tbl[f].always}
Ahead(e) == {f \in Always : Distance(e) < Distance(f)}

InTurn ==
  /\ \A e \in Always : overtaken[e] <= Cardinality(Ahead(e))
  /\ pc = "poll" => i \in Always /\ \A f \in Always : Distance(i) <= Distance(f)

\* The scan reaches every entry once, at its distance.
LEMMA ScanFacts ==
  ASSUME BusInv, entry_count # 0
  PROVE  /\ Len(entry_tbl) \in Nat /\ entry_count = Len(entry_tbl)
         /\ Entries = 1 .. Len(entry_tbl)
         /\ poll_next_index \in 0 .. Len(entry_tbl) - 1
         /\ \A e \in Entries : /\ Distance(e) \in 0 .. Len(entry_tbl) - 1
                               /\ After(Distance(e)) = e
         /\ \A k \in 0 .. Len(entry_tbl) - 1 : /\ After(k) \in Entries
                                               /\ Distance(After(k)) = k
<1>1. /\ Len(entry_tbl) \in Nat /\ entry_count = Len(entry_tbl)
      /\ Entries = 1 .. Len(entry_tbl)
      /\ poll_next_index \in 0 .. Len(entry_tbl) - 1
  BY Types DEF BusInv, TypeOK, TableOK
<1>2. \A e \in Entries : /\ Distance(e) \in 0 .. Len(entry_tbl) - 1
                         /\ After(Distance(e)) = e
  BY <1>1 DEF Distance, After
<1>3. \A k \in 0 .. Len(entry_tbl) - 1 : /\ After(k) \in Entries
                                         /\ Distance(After(k)) = k
  BY <1>1 DEF Distance, After
<1>4. QED
  BY <1>1, <1>2, <1>3

\* The table has finitely many polled entries.
LEMMA AlwaysFinite ==
  ASSUME BusInv
  PROVE  /\ IsFiniteSet(Always)
         /\ \A e : IsFiniteSet(Ahead(e)) /\ Cardinality(Ahead(e)) \in Nat
<1>1. IsFiniteSet(Entries)
  BY Types, FS_Interval DEF BusInv
<1>2. IsFiniteSet(Always)
  BY <1>1, FS_Subset DEF Always
<1>3. ASSUME NEW e PROVE IsFiniteSet(Ahead(e)) /\ Cardinality(Ahead(e)) \in Nat
  BY <1>2, FS_Subset, FS_CardinalityType DEF Ahead
<1>4. QED
  BY <1>2, <1>3

\* No entry was polled before start-up.
LEMMA InTurnInit == RtbusInit => InTurn
<1> SUFFICES ASSUME RtbusInit PROVE InTurn
  OBVIOUS
<1>1. \A e \in Always : overtaken[e] = 0
  BY DEF RtbusInit, Always
<1>2. BusInv
  BY BusInvInit
<1>3. \A e : Cardinality(Ahead(e)) \in Nat
  BY <1>2, AlwaysFinite
<1>4. QED
  BY <1>1, <1>3 DEF RtbusInit, InTurn

\* A step that neither starts nor ends a poll.
LEMMA InTurnStays ==
  ASSUME InTurn, UNCHANGED <<entry_tbl, polling>>,
         pc' # "poll" \/ UNCHANGED <<pc, i>>
  PROVE  InTurn'
BY DEF InTurn, Always, Ahead, Distance, Entries, polling

\* emos_process_poll_event takes the polled entry the scan meets first.
LEMMA CallPollTurn == BusInv /\ InTurn /\ CallPoll => InTurn'
<1> SUFFICES ASSUME BusInv, InTurn, CallPoll PROVE InTurn'
  OBVIOUS
<1>1. UNCHANGED <<entry_tbl, polling>> /\ entry_count # 0
  BY DEF CallPoll, table, BusInv, TableChecked
<1>2. CASE Goto("sleep")
  BY <1>1, <1>2, InTurnStays DEF Goto, Enter
<1>3. ASSUME NEW k \in 0 .. entry_count - 1, Polled(k), i' = After(k)
      PROVE  InTurn'
  <2>1. After(k) \in Always /\ Distance(After(k)) = k
    BY <1>1, <1>3, ScanFacts DEF Polled, Always
  <2>2. ASSUME NEW f \in Always PROVE k <= Distance(f)
    <3>1. /\ Distance(f) \in 0 .. Len(entry_tbl) - 1 /\ After(Distance(f)) = f
          /\ Len(entry_tbl) \in Nat /\ entry_count = Len(entry_tbl)
      BY <1>1, ScanFacts DEF Always
    <3>2. ~(Distance(f) \in 0 .. k - 1)
      BY <1>3, <3>1 DEF Polled, Always
    <3>3. QED
      BY <1>3, <3>1, <3>2
  <2>3. i' \in Always /\ \A f \in Always : Distance(i') <= Distance(f)
    BY <1>3, <2>1, <2>2
  <2>4. QED
    BY <1>1, <2>3 DEF InTurn, Always, Ahead, Distance, Entries, polling
<1>4. QED
  BY <1>2, <1>3 DEF CallPoll, Enter

\* The index moves past the entry that was polled: it is the farthest now, and
\* the others keep their order.
LEMMA PollReturnsTurn == BusInv /\ InTurn /\ PollReturns => InTurn'
<1> SUFFICES ASSUME BusInv, InTurn, PollReturns PROVE InTurn'
  OBVIOUS
<1>1. /\ pc = "poll" /\ pc' = "sleep" /\ entry_tbl' = entry_tbl
      /\ poll_next_index' = PastIndex(i)
      /\ overtaken' = [e \in Entries |-> IF e = i \/ ~entry_tbl[e].always THEN 0
                                         ELSE overtaken[e] + 1]
      /\ entry_count # 0
  BY DEF PollReturns, table, Goto, Enter, BusInv, TableChecked
<1> DEFINE new(e) == IF e - 1 >= PastIndex(i) THEN e - 1 - PastIndex(i)
                     ELSE e - 1 - PastIndex(i) + Len(entry_tbl)
<1>2. /\ Len(entry_tbl) \in Nat /\ entry_count = Len(entry_tbl)
      /\ Entries = 1 .. Len(entry_tbl) /\ i \in Entries
      /\ poll_next_index \in 0 .. Len(entry_tbl) - 1
      /\ \A e \in Entries : Distance(e) \in 0 .. Len(entry_tbl) - 1
  BY <1>1, ScanFacts DEF BusInv, TypeOK, ThreadOK
<1>3. /\ i \in Always /\ \A f \in Always : f \in Entries /\ Distance(i) <= Distance(f)
  BY <1>1 DEF InTurn, Always
<1>4. new(i) = Len(entry_tbl) - 1
  BY <1>1, <1>2 DEF PastIndex
<1>5. ASSUME NEW f \in Entries, f # i, Distance(i) <= Distance(f)
      PROVE  new(f) = Distance(f) - Distance(i) - 1
  <2>1. /\ Len(entry_tbl) \in Nat /\ f \in 1 .. Len(entry_tbl) /\ i \in 1 .. Len(entry_tbl)
        /\ poll_next_index \in 0 .. Len(entry_tbl) - 1
    BY <1>2
  <2>2. CASE i = Len(entry_tbl)
    <3>1. Distance(i) = Len(entry_tbl) - 1 - poll_next_index /\ new(f) = f - 1
      BY <1>2, <2>1, <2>2 DEF PastIndex, Distance
    <3>2. Distance(f) = f - 1 - poll_next_index + Len(entry_tbl)
      BY <1>5, <2>1, <2>2, <3>1 DEF Distance
    <3>3. QED
      BY <2>1, <3>1, <3>2
  <2>3. CASE i # Len(entry_tbl)
    <3>1. PastIndex(i) = i
      BY <1>2, <2>3 DEF PastIndex
    <3>2. CASE i - 1 >= poll_next_index
      BY <1>5, <2>1, <3>1, <3>2 DEF Distance
    <3>3. CASE ~(i - 1 >= poll_next_index)
      <4>1. Distance(i) = i - 1 - poll_next_index + Len(entry_tbl)
        BY <3>3 DEF Distance
      <4>2. f - 1 < poll_next_index /\ Distance(f) = f - 1 - poll_next_index + Len(entry_tbl)
        BY <1>5, <2>1, <4>1 DEF Distance
      <4>3. f - 1 >= i
        BY <1>5, <2>1, <4>1, <4>2
      <4>4. QED
        BY <2>1, <3>1, <4>1, <4>2, <4>3
    <3>4. QED
      BY <3>2, <3>3
  <2>4. QED
    BY <2>2, <2>3
<1> HIDE DEF new
<1>6. Always' = Always
  BY <1>1 DEF Always, Entries
<1>7. ASSUME NEW e \in Always, e # i
      PROVE  {f \in Always : new(e) < new(f)} = Ahead(e) \cup {i} /\ i \notin Ahead(e)
  <2>1. /\ new(e) = Distance(e) - Distance(i) - 1 /\ Distance(i) <= Distance(e)
        /\ Distance(e) \in 0 .. Len(entry_tbl) - 1 /\ Distance(i) \in 0 .. Len(entry_tbl) - 1
    BY <1>2, <1>3, <1>5, <1>7
  <2>2. \A f \in Always : f # i => (new(e) < new(f) <=> Distance(e) < Distance(f))
    <3> SUFFICES ASSUME NEW f \in Always, f # i
                 PROVE  new(e) < new(f) <=> Distance(e) < Distance(f)
      OBVIOUS
    <3>1. /\ new(f) = Distance(f) - Distance(i) - 1
          /\ Distance(f) \in 0 .. Len(entry_tbl) - 1
      BY <1>2, <1>3, <1>5
    <3>2. QED
      BY <1>2, <2>1, <3>1
  <2>3. new(e) < new(i)
    BY <1>2, <1>4, <2>1
  <2>4. ~(Distance(e) < Distance(i))
    BY <1>2, <2>1
  <2>5. QED
    BY <1>3, <2>2, <2>3, <2>4 DEF Ahead
<1>8. \A e \in Always : Ahead(e)' = {f \in Always : new(e) < new(f)}
  BY <1>1, <1>6 DEF Ahead, Distance, new
<1>9. ASSUME NEW e \in Always PROVE overtaken'[e] <= Cardinality(Ahead(e)')
  <2>1. IsFiniteSet(Ahead(e)) /\ Cardinality(Ahead(e)) \in Nat
    BY AlwaysFinite
  <2>2. CASE e = i
    <3>1. overtaken'[e] = 0
      BY <1>1, <1>2, <2>2
    <3>2. Cardinality({f \in Always : new(e) < new(f)}) \in Nat
      BY AlwaysFinite, FS_Subset, FS_CardinalityType
    <3>3. QED
      BY <1>8, <3>1, <3>2
  <2>3. CASE e # i
    <3>1. overtaken'[e] = overtaken[e] + 1 /\ overtaken[e] \in Nat
      BY <1>1, <1>3, <2>3 DEF Always, BusInv, TypeOK, TableOK
    <3>2. overtaken[e] <= Cardinality(Ahead(e))
      BY DEF InTurn
    <3>3. Cardinality(Ahead(e) \cup {i}) = Cardinality(Ahead(e)) + 1
      BY <1>7, <2>1, <2>3, FS_AddElement
    <3>4. Ahead(e)' = Ahead(e) \cup {i}
      BY <1>7, <1>8, <2>3
    <3>5. QED
      BY <2>1, <3>1, <3>2, <3>3, <3>4
  <2>4. QED
    BY <2>2, <2>3
<1>10. QED
  BY <1>1, <1>6, <1>9 DEF InTurn

\* Only emos_process_poll_event changes whose turn it is.
LEMMA InTurnNext == BusInv /\ InTurn /\ [RtbusNext]_vars => InTurn'
<1> SUFFICES ASSUME BusInv, InTurn, [RtbusNext]_vars PROVE InTurn'
  OBVIOUS
<1>1. CASE CallPoll \/ PollReturns
  BY <1>1, CallPollTurn, PollReturnsTurn
<1>2. CASE \/ Boot \/ PostInit \/ MoveDue \/ DrainAsync \/ CallHandler \/ HandlerReturns
           \/ Sleep \/ StartWait \/ Wake \/ Tick \/ UNCHANGED vars
  <2>1. UNCHANGED <<entry_tbl, polling>> /\ (pc' # "poll" \/ UNCHANGED <<pc, i>>)
    BY <1>2 DEF Boot, PostInit, MoveDue, DrainAsync, CallHandler, HandlerReturns, Sleep,
                StartWait, Wake, Tick, vars, table, thread, locals, StartPass, Advance,
                Goto, Enter, GivesUp
  <2>2. QED
    BY <2>1, InTurnStays
<1>3. CASE \/ \E task \in Tasks, len \in Lens :
                \/ \E given \in BOOLEAN : HandlerPosts(task, len, given)
                \/ \E delay \in Delays : HandlerPostsLater(task, len, delay)
                \/ NativePosts(task, len)
           \/ HandlerPurges \/ WorkQueuePosts
  <2>1. UNCHANGED <<entry_tbl, polling, pc, i>>
    BY <1>3 DEF HandlerPosts, HandlerPostsLater, NativePosts, HandlerPurges,
                WorkQueuePosts, table, thread, locals
  <2>2. QED
    BY <2>1, InTurnStays
<1>4. QED
  BY <1>1, <1>2, <1>3 DEF RtbusNext, RuntimeStep

\* Between two polls of a task each other polled task is polled at most once,
\* for a table of any length.
THEOREM PollsTakeTurns == RtbusSpec => []PollRoundRobin
<1>1. RtbusInit => BusInv /\ InTurn
  BY BusInvInit, InTurnInit
<1>2. (BusInv /\ InTurn) /\ [RtbusNext]_vars => (BusInv /\ InTurn)'
  BY BusInvNext, InTurnNext
<1>3. BusInv /\ InTurn => PollRoundRobin
  <2> SUFFICES ASSUME BusInv, InTurn, NEW e \in Always
               PROVE  overtaken[e] < Cardinality(Always)
    BY DEF PollRoundRobin, Always
  <2>1. /\ IsFiniteSet(Always) /\ IsFiniteSet(Ahead(e)) /\ Cardinality(Ahead(e)) \in Nat
        /\ overtaken[e] <= Cardinality(Ahead(e)) /\ overtaken[e] \in Nat
    BY AlwaysFinite DEF InTurn, BusInv, TypeOK, TableOK, Always
  <2>2. Ahead(e) \subseteq Always /\ e \notin Ahead(e)
    <3>1. Distance(e) \in Int
      BY Types DEF BusInv, TypeOK, TableOK, Distance, Always
    <3>2. QED
      BY <3>1 DEF Ahead
  <2>3. Cardinality(Ahead(e)) <= Cardinality(Always)
        /\ Cardinality(Ahead(e)) # Cardinality(Always) /\ Cardinality(Always) \in Nat
    BY <2>1, <2>2, FS_Subset, FS_CardinalityType
  <2>4. QED
    BY <2>1, <2>3
<1>4. QED
  BY <1>1, <1>2, <1>3, PTL DEF RtbusSpec

-----------------------------------------------------------------------------
(***************************************************************************)
(* The standstill on a due delayed event.                                  *)
(***************************************************************************)

\* A post that is refused for want of a block stays so whatever else is posted.
LEMMA PostLeavesNoRoom ==
  ASSUME BusInv, NEW ev \in EventType, NEW given \in BOOLEAN, NEW ok \in BOOLEAN,
         emos_post(ev, given, ok),
         NEW size \in Nat, \E r \in Malloc(heap, size) : r.ptr = NoBlock
  PROVE  \E r \in Malloc(heap', size) : r.ptr = NoBlock
<1>1. CASE UNCHANGED queue
  BY <1>1 DEF queue
<1>2. CASE \E r \in Malloc(heap, NodeLen(ev)) : heap' = r.heap
  <2>1. Sound(heap) /\ NodeLen(ev) \in Nat
    BY DEF BusInv, NodesOwnBlocks, NodeLen, NodeSize, EventType
  <2>2. QED
    BY <1>2, <2>1, RefusedAgain
<1>3. QED
  BY <1>1, <1>2 DEF emos_post

\* What has to stay for an event to stay stuck.
LEMMA StuckStays ==
  ASSUME BusInv, NEW s \in 1 .. Depth, Stuck(s),
         UNCHANGED table, delayed_events'[s] = delayed_events[s],
         \A size \in Nat : (\E r \in Malloc(heap, size) : r.ptr = NoBlock) =>
                             \E r \in Malloc(heap', size) : r.ptr = NoBlock,
         DueReached(now', delayed_events[s].due),
         \/ pc' \in {"sleep", "doze", "wait"}
         \/ pc' = "move" /\ i' <= s /\ DueReached(now_ms', delayed_events[s].due)
  PROVE  Stuck(s)'
<1>1. /\ Used(s) /\ Used(s)' /\ delayed_events[s].ev \in EventType
  BY Types DEF Stuck, BusInv, Used
<1>2. NodeLen(delayed_events[s].ev) \in Nat
  BY <1>1 DEF NodeLen, NodeSize, EventType
<1>3. \/ Refused(delayed_events[s].ev, TRUE)'
      \/ \E r \in Malloc(heap', NodeLen(delayed_events[s].ev)) : r.ptr = NoBlock
  <2>1. CASE Refused(delayed_events[s].ev, TRUE)
    BY <2>1 DEF Refused, Registered, Entries, table
  <2>2. CASE \E r \in Malloc(heap, NodeLen(delayed_events[s].ev)) : r.ptr = NoBlock
    BY <1>2, <2>2
  <2>3. QED
    BY <2>1, <2>2 DEF Stuck
<1>4. QED
  BY <1>1, <1>3 DEF Stuck, IsDue, Used, NodeLen

\* The pass over the slots ends at a stuck event, or before it.
LEMMA MoveDueStuck ==
  ASSUME BusInv, NEW s \in 1 .. Depth, Stuck(s), MoveDue
  PROVE  Stuck(s)'
<1>1. /\ pc = "move" /\ i <= s /\ IsDue(s) /\ Used(s)
      /\ UNCHANGED <<table, now>>
      /\ DueReached(now, delayed_events[s].due)
      /\ DueReached(now_ms, delayed_events[s].due)
  BY DEF Stuck, MoveDue, IsDue
<1>2. /\ i \in 1 .. Depth /\ Depth \in Nat /\ ~(i > Depth)
      /\ delayed_events \in [1 .. Depth -> SlotType]
  <2>1. i \in Nat \ {0} /\ delayed_events \in [1 .. Depth -> SlotType]
    BY <1>1 DEF BusInv, TypeOK, ThreadOK, SlotsOK
  <2>2. QED
    BY <1>1, <2>1, RtbusAssumption
<1>3. i # s => i + 1 <= s
  BY <1>1, <1>2
<1>4. CASE ~IsDue(i)
  <2>1. Advance /\ UNCHANGED <<queue, delayed>>
    BY <1>2, <1>4 DEF MoveDue
  <2>2. i # s
    BY <1>1, <1>4
  <2>3. i' <= s
    BY <1>3, <2>1, <2>2 DEF Advance
  <2>4. QED
    BY <1>1, <2>1, <2>3, StuckStays DEF Advance, queue, delayed
<1>5. CASE IsDue(i)
  <2>1. PICK ok \in BOOLEAN :
          /\ emos_post(delayed_events[i].ev, TRUE, ok)
          /\ IF ok THEN Emptied(i) /\ Advance ELSE GivesUp /\ UNCHANGED delayed
    BY <1>2, <1>5 DEF MoveDue
  <2>2. i \in 1 .. Depth /\ delayed_events[i].ev \in EventType
    BY <1>2, <1>5, Types DEF BusInv, IsDue
  <2>3. \A size \in Nat : (\E r \in Malloc(heap, size) : r.ptr = NoBlock) =>
                            \E r \in Malloc(heap', size) : r.ptr = NoBlock
    BY <2>1, <2>2, PostLeavesNoRoom
  <2>4. CASE ~ok
    BY <1>1, <2>1, <2>3, <2>4, StuckStays DEF GivesUp, Goto, Enter, delayed
  <2>5. CASE ok
    <3>1. i # s
      <4>1. SUFFICES ASSUME i = s PROVE FALSE
        OBVIOUS
      <4>2. ~Refused(delayed_events[s].ev, TRUE)
        BY <2>1, <2>5, <4>1 DEF emos_post
      <4>3. \E r \in Malloc(heap, NodeLen(delayed_events[s].ev)) : r.ptr # NoBlock
        BY <2>1, <2>5, <4>1, <4>2 DEF emos_post
      <4>4. /\ \E r \in Malloc(heap, NodeLen(delayed_events[s].ev)) : r.ptr = NoBlock
            /\ NodeLen(delayed_events[s].ev) \in Nat /\ Sound(heap)
        <5>1. \E r \in Malloc(heap, NodeLen(delayed_events[s].ev)) : r.ptr = NoBlock
          BY <4>2 DEF Stuck
        <5>2. Sound(heap) /\ delayed_events[s].ev.len \in Nat
          BY <2>2, <4>1 DEF BusInv, NodesOwnBlocks, EventType
        <5>3. QED
          BY <5>1, <5>2 DEF NodeLen, NodeSize
      <4>5. Malloc(heap, NodeLen(delayed_events[s].ev)) = {[ptr |-> NoBlock, heap |-> heap]}
        BY <4>4, RefusedForRoom
      <4>6. QED
        BY <4>3, <4>5
    <3>2. i + 1 <= s /\ delayed_events'[s] = delayed_events[s]
      <4>1. delayed_events' = [delayed_events EXCEPT ![i] = Unused]
        BY <2>1, <2>5 DEF Emptied
      <4>2. QED
        BY <1>2, <1>3, <3>1, <4>1
    <3>3. QED
      BY <1>1, <2>1, <2>3, <2>5, <3>2, StuckStays DEF Advance
  <2>6. QED
    BY <2>4, <2>5
<1>6. QED
  BY <1>4, <1>5

\* The time at which rtbus_due_reached takes a late event for an armed one.
ReadsAsArmed(s) == left[s] = -Half /\ ~DueReached(now, delayed_events[s].due)

\* No step frees a node while an event is stuck, and none lets it through; only
\* the clock ends the standstill.
LEMMA StuckNext ==
  ASSUME BusInv, NEW s \in 1 .. Depth, Stuck(s), [RtbusNext]_vars
  PROVE  Stuck(s)' \/ ReadsAsArmed(s)'
<1>1. /\ pc \in {"sleep", "doze", "wait"} \/ (pc = "move" /\ i <= s /\ IsDue(s))
      /\ Used(s) /\ DueReached(now, delayed_events[s].due)
  BY DEF Stuck
<1>2. pc = "move" => DueReached(now_ms, delayed_events[s].due)
  BY <1>1 DEF IsDue
<1>3. CASE MoveDue
  BY <1>3, MoveDueStuck
<1>4. CASE Sleep
  BY <1>1, <1>4, StuckStays DEF Sleep, Enter, queue, delayed
<1>5. CASE StartWait \/ Wake
  <2>1. CASE StartWait
    BY <1>1, <2>1, StuckStays DEF StartWait, queue, delayed
  <2>2. CASE Wake
    BY <1>1, <2>2, StuckStays DEF Wake, StartPass, delayed
  <2>3. QED
    BY <1>5, <2>1, <2>2
<1>6. CASE WorkQueuePosts
  <2>1. PICK ok \in BOOLEAN : emos_post(Event(CliTask, 0, posts + 1, FALSE), FALSE, ok)
    BY <1>6 DEF WorkQueuePosts
  <2>2. Event(CliTask, 0, posts + 1, FALSE) \in EventType
    BY RtbusAssumption DEF BusInv, TypeOK, LedgerOK, Event, EventType
  <2>3. \A size \in Nat : (\E r \in Malloc(heap, size) : r.ptr = NoBlock) =>
                            \E r \in Malloc(heap', size) : r.ptr = NoBlock
    BY <2>1, <2>2, PostLeavesNoRoom
  <2>4. QED
    BY <1>1, <1>2, <1>6, <2>3, StuckStays DEF WorkQueuePosts, delayed, thread, locals
<1>7. ASSUME NEW task \in Tasks, NEW len \in Lens, NativePosts(task, len)
      PROVE  Stuck(s)'
  BY <1>1, <1>2, <1>7, StuckStays DEF NativePosts, delayed, thread, locals
<1>8. CASE Tick
  <2>1. delayed_events' = delayed_events /\ Used(s)' /\ BusInv'
    BY <1>1, <1>8, TickKeeps DEF Tick, Used
  <2>2. CASE DueReached(now', delayed_events[s].due)
    BY <1>1, <1>2, <1>8, <2>2, StuckStays DEF Tick, queue
  <2>3. CASE ~DueReached(now', delayed_events[s].due)
    <3>1. SUFFICES ASSUME left'[s] # -Half PROVE FALSE
      BY <2>1, <2>3 DEF ReadsAsArmed
    <3>2. /\ left'[s] \in Span /\ After32(delayed_events[s].due, now', left'[s])
          /\ now' \in 0 .. 2 * Half - 1
      BY <2>1, <3>1 DEF BusInv, DueTellsLeft, TypeOK, SlotsOK, After32
    <3>3. /\ left[s] \in -Half .. Half /\ now \in 0 .. 2 * Half - 1
          /\ delayed_events[s].due \in 0 .. 2 * Half - 1 /\ Half \in Nat
      BY <1>1, Types, RtbusAssumption DEF BusInv, TypeOK, SlotsOK
    <3>4. left[s] # -Half /\ left'[s] = left[s] - 1
      <4>1. left'[s] = IF left[s] > -Half THEN left[s] - 1 ELSE -Half
        BY <1>1, <1>8 DEF Tick
      <4>2. QED
        BY <3>1, <3>3, <4>1
    <3>5. left[s] \in Span /\ After32(delayed_events[s].due, now, left[s])
      BY <1>1, <3>4 DEF BusInv, DueTellsLeft
    <3>6. left[s] <= 0
      BY <1>1, <3>3, <3>5, ClockFacts
    <3>7. left'[s] <= 0
      BY <3>3, <3>4, <3>6
    <3>8. QED
      BY <2>3, <3>2, <3>3, <3>7, ClockFacts
  <2>4. QED
    BY <2>2, <2>3
<1>9. CASE UNCHANGED vars
  BY <1>1, <1>2, <1>9, StuckStays DEF vars, queue, delayed, thread, locals
<1>10. QED
  BY <1>1, <1>3, <1>4, <1>5, <1>6, <1>7, <1>8, <1>9
     DEF RtbusNext, RuntimeStep, Boot, PostInit, DrainAsync, CallHandler, HandlerReturns,
         CallPoll, PollReturns, HandlerPosts, HandlerPostsLater, HandlerPurges, InHandler

\* Once the queue cannot take a due delayed event, rtbus_process returns before a
\* handler could free a node, whatever is posted, until rtbus_due_reached takes
\* the event for one that is not due yet: half the range of the clock late.
THEOREM WedgedUntilClockWraps == RtbusSpec => WedgedTillWrap
<1>1. BusInv /\ [RtbusNext]_vars =>
        [\A s \in 1 .. Depth : Stuck(s) =>
           Stuck(s)' \/ (left'[s] = -Half /\ ~DueReached(now', delayed_events'[s].due))]_vars
  <2> SUFFICES ASSUME BusInv, [RtbusNext]_vars, NEW s \in 1 .. Depth, Stuck(s)
               PROVE  Stuck(s)' \/ (left'[s] = -Half
                                    /\ ~DueReached(now', delayed_events'[s].due))
    OBVIOUS
  <2>1. Stuck(s)' \/ ReadsAsArmed(s)'
    BY StuckNext
  <2>2. QED
    BY <2>1 DEF ReadsAsArmed
<1>2. QED
  BY <1>1, BusInvariant, PTL DEF RtbusSpec, WedgedTillWrap
=============================================================================
