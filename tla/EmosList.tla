------------------------------ MODULE EmosList ------------------------------
(***************************************************************************)
(* The queue of one priority level, pointer by pointer: linklist_new and   *)
(* linklist_remove (lib/linklist.c) on nodes of the pool (lib/bmalloc.c),  *)
(* as emos_post and emos_process_queued_event (src/emos.c) call them.      *)
(*                                                                         *)
(* The runtime thread posts and removes.  The system work queue posts too  *)
(* (services/rtbus_cli.c); its thread has a higher priority, so its call   *)
(* is one step of the runtime thread's world.  Preempts says whether that  *)
(* step may come inside a call of the runtime thread, as in the code, or   *)
(* only between calls, as the note on bmalloc requires.                    *)
(*                                                                         *)
(* bfree and the slow path of bmalloc are one step each.                   *)
(***************************************************************************)
EXTENDS Heap, Sequences

CONSTANTS Pool,       \* [start, len] of the pool
          Preempts,
          MaxPosts    \* bound: posts, numbered from 1

NodeLen == 16         \* sizeof(emos_proc_list_t) + sizeof(emos_ctx_t)
NULL    == NoBlock

ASSUME ListAssumption == /\ Pool \in [start : Nat, len : Nat]
                         /\ Preempts \in BOOLEAN
                         /\ MaxPosts \in Nat

VARIABLES heap,       \* the allocator's state
          source,     \* task_tbl[priority], the head of the list
          node,       \* memory: [next, n] of each node's address
          posts,      \* how many posts there have been
          mine,       \* the number of the runtime thread's post
          pc,         \* where the runtime thread is
          last_tmp,   \* linklist_new: the node it takes for the tail
          head_p,     \* bmalloc: the header it is making
          proc,       \* the node whose handler runs
          accepted    \* ghost: accepted posts that no handler has finished

listVars == <<heap, source, node, posts, mine, pc, last_tmp, head_p, proc, accepted>>

-----------------------------------------------------------------------------
Write(a, next, n) ==
  [b \in DOMAIN node \cup {a} |-> IF b = a THEN [next |-> next, n |-> n] ELSE node[b]]

SecondOnList(tail, a, n) ==   \* defect: linked behind the head
  LET written == Write(a, IF tail = NULL THEN NULL ELSE node[source].next, n)
  IN  IF tail = NULL THEN written ELSE [written EXCEPT ![source].next = a]

\* new_tmp is linked behind tail; its contents are filled in.
Linked(tail, a, n) ==
  LET written == Write(a, NULL, n)
  IN  IF tail = NULL THEN written
      ELSE [written EXCEPT ![tail].next = a]

AlwaysNewSource(tail, a) == a             \* defect: *source is always written
NewSource(tail, a) == IF tail = NULL THEN a ELSE source

\* The nodes in list order: At[k] is the address of the k-th, from 0.
At == LET nth[k \in 0 .. MaxPosts] ==
            IF k = 0 THEN source
            ELSE IF nth[k - 1] = NULL THEN NULL ELSE node[nth[k - 1]].next
      IN  nth
Length == Cardinality({k \in 0 .. MaxPosts : At[k] # NULL})
OnList == {At[k] : k \in 0 .. MaxPosts} \ {NULL}

\* linklist_new's walk in one go.
TailNode == IF Length = 0 THEN NULL ELSE At[Length - 1]

ListInit ==
  /\ heap = InitPool(Pool.start, Pool.len)
  /\ source = NULL
  /\ node = [a \in {} |-> [next |-> NULL, n |-> 0]]
  /\ posts = 0 /\ mine = 0
  /\ pc = "run"
  /\ last_tmp = NULL /\ head_p = NULL /\ proc = NULL
  /\ accepted = {}

\* linklist_new is called: the walk starts at the head.
StartPost ==
  /\ pc = "run"
  /\ posts < MaxPosts
  /\ posts' = posts + 1
  /\ mine' = posts + 1
  /\ last_tmp' = source
  /\ pc' = "walk"
  /\ UNCHANGED <<heap, source, node, head_p, proc, accepted>>

Walk ==
  /\ pc = "walk"
  /\ IF last_tmp = NULL \/ node[last_tmp].next = NULL
     THEN pc' = "malloc" /\ UNCHANGED last_tmp
     ELSE last_tmp' = node[last_tmp].next /\ UNCHANGED pc
  /\ UNCHANGED <<heap, source, node, posts, mine, head_p, proc, accepted>>

\* The linking of the new node, and emos_post's return.
Link(a, n) ==
  /\ node' = Linked(last_tmp, a, n)
  /\ source' = NewSource(last_tmp, a)
  /\ accepted' = accepted \cup {n}
  /\ pc' = "run" /\ last_tmp' = NULL /\ head_p' = NULL /\ mine' = 0

\* bmalloc: its slow path, or the first half of its fast path, which picks
\* the header and marks it busy.
StartMalloc ==
  /\ pc = "malloc"
  /\ IF RoomOnTop(heap, NodeLen)
     THEN /\ head_p' = heap.last
          /\ heap' = [heap EXCEPT !.busy = @ \cup {heap.last}]
          /\ pc' = "grow"
          /\ UNCHANGED <<source, node, mine, last_tmp, accepted>>
     ELSE \E r \in Malloc(heap, NodeLen) :
            /\ heap' = r.heap
            /\ IF r.ptr # NoBlock THEN Link(r.ptr, mine)
               ELSE /\ pc' = "run" /\ last_tmp' = NULL /\ mine' = 0
                    /\ UNCHANGED <<source, node, head_p, accepted>>
  /\ UNCHANGED <<posts, proc>>

\* _last_heap_object += n + sizeof(_m_header)
Grow ==
  /\ pc = "grow"
  /\ heap' = [heap EXCEPT !.last = @ + NodeLen + HdrSize]
  /\ pc' = "link"
  /\ UNCHANGED <<source, node, posts, mine, last_tmp, head_p, proc, accepted>>

\* head_p->next = _last_heap_object; the rest of linklist_new.
FinishPost ==
  /\ pc = "link"
  /\ heap' = [heap EXCEPT !.next =
                [a \in DOMAIN @ \cup {head_p} |-> IF a = head_p THEN heap.last ELSE @[a]]]
  /\ Link(heap.last - NodeLen, mine)
  /\ UNCHANGED <<posts, proc>>

\* emos_process_queued_event calls a handler, which may post.
CallHandler ==
  /\ pc = "run"
  /\ proc = NULL
  /\ source # NULL
  /\ proc' = source
  /\ UNCHANGED <<heap, source, node, posts, mine, pc, last_tmp, head_p, accepted>>

\* linklist_remove up to its test for a successor.  Posts append and only the
\* runtime thread removes, so the node is the head.
StartRemove ==
  /\ pc = "run"
  /\ proc # NULL
  /\ pc' = IF node[proc].next # NULL THEN "advance" ELSE "empty"
  /\ UNCHANGED <<heap, source, node, posts, mine, last_tmp, head_p, proc, accepted>>

KeepNode(h, a) == h                       \* defect: the node is not freed
Released(h, a) == Free(h, a)

FinishRemove ==
  /\ pc \in {"advance", "empty"}
  /\ source' = IF pc = "advance" THEN node[proc].next ELSE NULL
  /\ heap' = Released(heap, proc)
  /\ accepted' = accepted \ {node[proc].n}
  /\ proc' = NULL
  /\ pc' = "run"
  /\ UNCHANGED <<node, posts, mine, last_tmp, head_p>>

\* rtbus_cli_input_work_handler: a whole emos_post.
WorkQueuePosts ==
  /\ Preempts \/ pc = "run"
  /\ posts < MaxPosts
  /\ posts' = posts + 1
  /\ \E r \in Malloc(heap, NodeLen) :
       /\ heap' = r.heap
       /\ IF r.ptr = NoBlock THEN UNCHANGED <<source, node, accepted>>
          ELSE /\ node' = Linked(TailNode, r.ptr, posts + 1)
               /\ source' = NewSource(TailNode, r.ptr)
               /\ accepted' = accepted \cup {posts + 1}
  /\ UNCHANGED <<mine, pc, last_tmp, head_p, proc>>

ListNext == \/ StartPost \/ Walk \/ StartMalloc \/ Grow \/ FinishPost
            \/ CallHandler \/ StartRemove \/ FinishRemove
            \/ WorkQueuePosts

ListSpec == ListInit /\ [][ListNext]_listVars

-----------------------------------------------------------------------------
(***************************************************************************)
(* Properties.                                                             *)
(***************************************************************************)

\* Every accepted event can be reached from the head of the list until its
\* handler is done (linklist_new, linklist_remove): none is lost.
AcceptedOnList == accepted = {node[a].n : a \in OnList}

\* Between calls, the nodes on the list and the busy blocks of the pool
\* (bmalloc, bfree) are the same: no node shares memory and none leaks.
ListOwnsBlocks ==
  pc = "run" => heap.busy = {a - HdrSize : a \in OnList} /\ Sound(heap)

\* The list implements the queue of its level (EventQueue).
Fifo == INSTANCE EventQueue
          WITH Events <- 1 .. MaxPosts, queue <- [k \in 1 .. Length |-> node[At[k - 1]].n]
QueueSpec == Fifo!Spec
=============================================================================
