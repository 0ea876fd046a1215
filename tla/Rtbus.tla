------------------------------- MODULE Rtbus -------------------------------
(***************************************************************************)
(* The event bus: the runtime thread (services/rtbus_runtime.c) with the   *)
(* delayed events (src/rtbus.c), the event core (src/emos.c), its entry    *)
(* table (src/rtbus_iterable.c) and the wake-up semaphore                  *)
(* (services/rtbus_event.c), and the contexts that post to it: handlers,   *)
(* the native program through a message queue, and the system work queue.  *)
(*                                                                         *)
(* The runtime thread takes one step per call that another context can     *)
(* come between.  A call that links or unlinks a node is one step here;    *)
(* module EmosList takes those calls apart.  Event contents are left out.  *)
(***************************************************************************)
EXTENDS Heap, Sequences

CONSTANTS
  EntryTables,        \* entry tables an image may be linked with
  Tasks,              \* task ids callers use, registered or not
  CliTask,            \* the task the work queue posts to
  Lens,               \* payload lengths callers use
  Pool,               \* [start, len] of rtbus_runtime_pool
  Depth,              \* CONFIG_RTBUS_DELAYED_EVENT_DEPTH
  DelayedPayloadMax,  \* CONFIG_RTBUS_DELAYED_EVENT_PAYLOAD_MAX
  AsyncDepth,         \* NATIVE_RTBUS_POST_QUEUE_DEPTH
  AsyncPayloadMax,    \* NATIVE_RTBUS_POST_PAYLOAD_MAX
  Delays,             \* delay_ms arguments callers use
  Half,               \* the 32-bit clock wraps at 2 * Half (2^32)
  TimeoutMax,         \* CONFIG_RTBUS_RUNTIME_TIMEOUT_MAX_MS
  MaxLag,             \* bound: ms by which a bus that runs may be behind a due time
  MaxPosts,           \* bound: posts after start-up that are told apart
  Endless             \* bound: whether posters go on after that

Levels   == 0 .. 2    \* RTBUS_TASK_PRIORITY_HIGH, _MID, _LOW
NodeSize == 16        \* sizeof(emos_proc_list_t) + sizeof(emos_ctx_t)
Entry    == [task : Tasks, priority : Nat, init : BOOLEAN, always : BOOLEAN]

ASSUME RtbusAssumption ==
  /\ EntryTables \subseteq Seq(Entry)
  /\ CliTask \in Tasks
  /\ Lens \subseteq Nat
  /\ Pool \in [start : Nat, len : Nat \ {0}]
  /\ Depth \in Nat /\ DelayedPayloadMax \in Nat
  /\ AsyncDepth \in Nat /\ AsyncPayloadMax \in Nat
  /\ Half \in Nat \ {0} /\ Delays \subseteq 0 .. 2 * Half - 1
  /\ TimeoutMax \in Nat /\ TimeoutMax < Half
  /\ MaxLag \in Nat /\ MaxLag + TimeoutMax < Half
  /\ MaxPosts \in Nat /\ Endless \in BOOLEAN

VARIABLES
  entry_tbl,          \* the entries in the iterable section; never changes
  entry_count,
  heap,               \* the allocator's state
  task_tbl,           \* per level, the queued nodes from head to tail
  poll_next_index,
  delayed_events,
  msgq,               \* native_rtbus_post_msgq
  sem,                \* runtime_event_sem, a binary semaphore
  now,                \* k_uptime_get_32
  pc,                 \* where the runtime thread is
  i,                  \* its loop index
  now_ms,             \* the time rtbus_move_due_events read
  level, proc,        \* the level and the node (its address) whose handler runs
  wait,               \* ms of sleep it computed, or ms left of its sleep
  held,               \* ghost: ms that passed between computing and starting it
  left,               \* ghost: ms until each delayed event is due, from -Half on
  posts,              \* ghost: accepted posts so far, up to MaxPosts; numbered
  done, lost,         \* ghost: the numbers handed to a handler, and dropped
  overtaken           \* ghost: polls of others since each entry's last poll

queue   == <<heap, task_tbl, sem>>
delayed == <<delayed_events, left>>
ledger  == <<posts, done, lost>>
table   == <<entry_tbl, entry_count>>
polling == <<poll_next_index, overtaken>>
locals  == <<i, now_ms, level, proc, wait, held>>
thread  == <<pc, locals>>
vars    == <<table, queue, polling, delayed, msgq, now, thread, ledger>>

-----------------------------------------------------------------------------
(***************************************************************************)
(* Clock arithmetic on 32-bit milliseconds.                                *)
(***************************************************************************)

Wrap(x) == IF x >= 2 * Half THEN x - 2 * Half ELSE IF x < 0 THEN x + 2 * Half ELSE x

UnsignedDue(t, due) == t >= due                  \* defect: ignores the wrap
DueNow(t, due)      == t = due                   \* defect: misses a late one
DueReached(t, due)  == Wrap(t - due) < Half      \* (int32_t)(t - due) >= 0

UnsignedUntil(t, due) == Wrap(due - t)           \* defect: overdue is far away
TimeoutUntil(t, due)  == IF Wrap(due - t) < Half THEN Wrap(due - t) ELSE 0

-----------------------------------------------------------------------------
(***************************************************************************)
(* Entries and the queue.                                                  *)
(***************************************************************************)

Entries == DOMAIN entry_tbl

\* emos_entries_init; an entry without a handler is rejected as well.
EntriesRejected ==
  \/ entry_tbl = <<>>
  \/ \E e \in Entries : entry_tbl[e].priority \notin Levels
  \/ \E e, f \in Entries : e # f /\ entry_tbl[e].task = entry_tbl[f].task

Registered(task) == \E e \in Entries : entry_tbl[e].task = task

LevelOf(task) ==
  entry_tbl[CHOOSE e \in Entries : entry_tbl[e].task = task].priority

\* Event n, and whether it is a native post; after MaxPosts posts all are alike.
Event(task, len, n, async) ==
  [task |-> task, len |-> len, n |-> n, async |-> async /\ n <= MaxPosts]

\* The checks of emos_post that precede the allocation.
Refused(ev, given) ==
  \/ entry_count = 0
  \/ ~Registered(ev.task)
  \/ ev.len # 0 /\ ~given
  \/ NodeSize + ev.len > 65535

\* linklist_new on a list of nodes, and what bmalloc is asked for.
AtHead(list, node)   == <<node>> \o list         \* defect: the list is a stack
Appended(list, node) == Append(list, node)

Queued(tbl, p, ptr, ev) == [tbl EXCEPT ![p] = Appended(@, [ptr |-> ptr, ev |-> ev])]

PointerOnly(ev) == NodeSize                      \* defect: no room for payload
NodeLen(ev)     == NodeSize + ev.len

\* emos_post returns 0 if ok; rtbus_post only renames one of its error codes.
emos_post(ev, given, ok) ==
  \/ /\ Refused(ev, given)
     /\ ok = FALSE
     /\ UNCHANGED queue
  \/ /\ ~Refused(ev, given)
     /\ \E r \in Malloc(heap, NodeLen(ev)) :
          /\ ok = (r.ptr # NoBlock)
          /\ heap' = r.heap
          /\ task_tbl' = IF ok THEN Queued(task_tbl, LevelOf(ev.task), r.ptr, ev)
                         ELSE task_tbl
          /\ sem' = IF ok THEN 1 ELSE sem

\* linklist_remove, without the bfree at its end.
LastOff(list, ptr) == SubSeq(list, 1, Len(list) - 1)   \* defect: not the node
Unlinked(list, ptr) ==
  IF \E k \in DOMAIN list : list[k].ptr = ptr
  THEN LET k == CHOOSE k \in DOMAIN list : list[k].ptr = ptr
       IN  [j \in 1 .. Len(list) - 1 |-> IF j < k THEN list[j] ELSE list[j + 1]]
  ELSE list
Removed(tbl, p, ptr) == [tbl EXCEPT ![p] = Unlinked(@, ptr)]

Unused == [used |-> FALSE]
Armed(ev, due) == [used |-> TRUE, ev |-> ev, due |-> due]
Used(s) == delayed_events[s].used

\* The number of a post, unless it is one beyond MaxPosts or SYS_INIT's.
Counted(ev) == {ev.n} \cap 1 .. MaxPosts

\* The thread moves on; a local variable that is not read again is cleared.
Enter(label, index, lvl, ptr, ms) ==
  /\ pc' = label /\ i' = index /\ now_ms' = 0
  /\ level' = lvl /\ proc' = ptr /\ wait' = ms /\ held' = 0
Goto(label) == Enter(label, 1, 0, NoBlock, 0)
Advance     == i' = i + 1 /\ UNCHANGED <<pc, now_ms, level, proc, wait, held>>

\* The runtime thread enters rtbus_move_due_events.
StartPass == /\ pc' = "move"
             /\ i' = 1
             /\ now_ms' = now
             /\ level' = 0
             /\ proc' = NoBlock
             /\ wait' = 0 /\ held' = 0

-----------------------------------------------------------------------------
(***************************************************************************)
(* Start-up: rtbus_init.  If it fails the runtime thread is gone for good. *)
(***************************************************************************)

RtbusInit ==
  /\ entry_tbl \in EntryTables
  /\ entry_count = 0
  /\ heap = InitPool(0, 0)
  /\ task_tbl = [p \in Levels |-> <<>>]
  /\ poll_next_index = 0
  /\ delayed_events = [s \in 1 .. Depth |-> Unused]
  /\ msgq = <<>>
  /\ sem = 0
  /\ now = 0
  /\ pc = "boot" /\ i = 1 /\ now_ms = 0 /\ level = 0 /\ proc = NoBlock
  /\ wait = 0 /\ held = 0
  /\ left = [s \in 1 .. Depth |-> 0]
  /\ posts = 0 /\ done = {} /\ lost = {}
  /\ overtaken = [e \in Entries |-> 0]

\* emos_init up to the SYS_INIT posts.
Boot ==
  /\ pc = "boot"
  /\ heap' = InitPool(Pool.start, Pool.len)
  /\ IF EntriesRejected THEN entry_count' = 0 /\ Goto("dead")
                        ELSE entry_count' = Len(entry_tbl) /\ Goto("init")
  /\ UNCHANGED <<entry_tbl, task_tbl, sem, polling, delayed, msgq, now, ledger>>

\* The SYS_INIT post of one entry.
PostInit ==
  /\ pc = "init"
  /\ IF i > entry_count THEN StartPass /\ UNCHANGED queue
     ELSE IF ~entry_tbl[i].init
     THEN Advance /\ UNCHANGED queue
     ELSE \E ok \in BOOLEAN :
            /\ emos_post(Event(entry_tbl[i].task, 0, 0, FALSE), FALSE, ok)
            /\ IF ok THEN Advance ELSE Goto("dead")
  /\ UNCHANGED <<table, polling, delayed, msgq, now, ledger>>

-----------------------------------------------------------------------------
(***************************************************************************)
(* One round of the runtime thread: rtbus_process, then a sleep.           *)
(***************************************************************************)

IsDue(s) == Used(s) /\ DueReached(now_ms, delayed_events[s].due)

Emptied(s) == /\ delayed_events' = [delayed_events EXCEPT ![s] = Unused]
              /\ left' = [left EXCEPT ![s] = 0]

CarriesOn == Goto("drain")                       \* defect: rc is ignored
GivesUp   == Goto("sleep")                       \* return rc

\* rtbus_move_due_events, one slot.  A failed post ends rtbus_process.
MoveDue ==
  /\ pc = "move"
  /\ IF i > Depth THEN Goto("drain") /\ UNCHANGED <<queue, delayed>>
     ELSE IF ~IsDue(i)
     THEN Advance /\ UNCHANGED <<queue, delayed>>
     ELSE \E ok \in BOOLEAN :
            /\ emos_post(delayed_events[i].ev, TRUE, ok)
            /\ IF ok THEN Emptied(i) /\ Advance
                     ELSE GivesUp /\ UNCHANGED delayed
  /\ UNCHANGED <<table, polling, msgq, now, ledger>>

KeptIfRefused(ok) == IF ok THEN Tail(msgq) ELSE msgq  \* defect: tried again
Fetched(ok)       == Tail(msgq)                       \* k_msgq_get

\* rtbus_process_async_posts, one message.  One that emos_post refuses is
\* dropped, and ends rtbus_process.
DrainAsync ==
  /\ pc = "drain"
  /\ IF msgq = <<>> THEN Goto("pick") /\ UNCHANGED <<queue, msgq, lost>>
     ELSE \E ok \in BOOLEAN :
            /\ emos_post(Head(msgq), TRUE, ok)
            /\ msgq' = Fetched(ok)
            /\ lost' = IF ok THEN lost ELSE lost \cup Counted(Head(msgq))
            /\ IF ok THEN UNCHANGED thread ELSE Goto("sleep")
  /\ UNCHANGED <<table, polling, delayed, now, posts, done>>

Pending == {p \in Levels : task_tbl[p] # <<>>}

\* emos_process_queued_event up to the call of the handler, which is given
\* the node while it is still on the list.  Entries are never unregistered,
\* so a queued node's task is always found.
CallHandler ==
  /\ pc = "pick"
  /\ \E p \in Pending :
       /\ \A q \in Pending : p <= q
       /\ Enter("handler", 1, p, Head(task_tbl[p]).ptr, 0)
       /\ done' = done \cup Counted(Head(task_tbl[p]).ev)
  /\ UNCHANGED <<table, queue, polling, delayed, msgq, now, posts, lost>>

\* The handler returns; linklist_remove.
HandlerReturns ==
  /\ pc = "handler"
  /\ task_tbl' = Removed(task_tbl, level, proc)
  /\ heap' = Free(heap, proc)
  /\ Goto("sleep")
  /\ UNCHANGED <<table, sem, polling, delayed, msgq, now, ledger>>

\* emos_process_poll_event: the entries from poll_next_index on, as indices
\* into entry_tbl, which starts at 1.
After(k) == IF poll_next_index + k < entry_count THEN poll_next_index + k + 1
            ELSE poll_next_index + k + 1 - entry_count
Polled(k) == /\ k \in 0 .. entry_count - 1
             /\ entry_tbl[After(k)].always
             /\ \A m \in 0 .. k - 1 : ~entry_tbl[After(m)].always

CallPoll ==
  /\ pc = "pick"
  /\ Pending = {}
  /\ IF \E k \in 0 .. entry_count - 1 : Polled(k)
     THEN \E k \in 0 .. entry_count - 1 :
            Polled(k) /\ Enter("poll", After(k), 0, NoBlock, 0)
     ELSE Goto("sleep")
  /\ UNCHANGED <<table, queue, polling, delayed, msgq, now, ledger>>

SameIndex(e) == e - 1                            \* defect: the index stays
Unwrapped(e) == e                                \* defect: no modulo
PastIndex(e) == IF e = entry_count THEN 0 ELSE e \* (index + 1) % entry_count

PollReturns ==
  /\ pc = "poll"
  /\ poll_next_index' = PastIndex(i)
  /\ overtaken' = [e \in Entries |-> IF e = i \/ ~entry_tbl[e].always THEN 0
                                   ELSE overtaken[e] + 1]
  /\ Goto("sleep")
  /\ UNCHANGED <<table, queue, delayed, msgq, now, ledger>>

\* rtbus_next_timeout_ms reads the clock; the runtime loop caps the result.
Timeouts == {TimeoutUntil(now, delayed_events[s].due) : s \in {s \in 1 .. Depth : Used(s)}}

Sleep ==
  /\ pc = "sleep"
  /\ \E t \in Timeouts \cup {TimeoutMax} :
       /\ \A u \in Timeouts \cup {TimeoutMax} : t <= u
       /\ Enter("doze", 1, 0, NoBlock, t)
  /\ UNCHANGED <<table, queue, polling, delayed, msgq, now, ledger>>

\* runtime_event_wait: the timeout starts now, whenever it was computed.
StartWait ==
  /\ pc = "doze"
  /\ pc' = "wait"
  /\ UNCHANGED <<table, queue, polling, delayed, msgq, now, locals, ledger>>

\* k_sem_take returns, with the semaphore or after the timeout.
OnlyWhenSignalled == sem = 1                     \* defect: K_FOREVER
Woken == sem = 1 \/ wait = 0

Wake ==
  /\ pc = "wait"
  /\ Woken
  /\ sem' = 0
  /\ StartPass
  /\ UNCHANGED <<table, heap, task_tbl, polling, delayed, msgq, now, ledger>>

-----------------------------------------------------------------------------
(***************************************************************************)
(* Posting.                                                                *)
(***************************************************************************)

\* A post that is accepted gets the next number; those after the first
\* MaxPosts share the number MaxPosts + 1.
Numbered(ok) == /\ Endless \/ posts < MaxPosts
                /\ posts' = IF ok /\ posts < MaxPosts THEN posts + 1 ELSE posts
                /\ UNCHANGED <<done, lost>>

InHandler == pc \in {"handler", "poll"}

\* rtbus_post in a handler.
HandlerPosts(task, len, given) ==
  /\ InHandler
  /\ \E ok \in BOOLEAN : /\ emos_post(Event(task, len, posts + 1, FALSE), given, ok)
                         /\ Numbered(ok)
  /\ UNCHANGED <<table, polling, delayed, msgq, now, thread>>

\* rtbus_post_delay in a handler, for a delay other than 0 (a delay of 0 is
\* rtbus_post); it does not check the task.  Counted as a signed number, a
\* delay of more than Half ms is in the past.
FreeSlots == {s \in 1 .. Depth : ~Used(s)}

HandlerPostsLater(task, len, delay) ==
  /\ InHandler
  /\ delay # 0
  /\ len <= DelayedPayloadMax
  /\ \E s \in FreeSlots :
       /\ \A r \in FreeSlots : s <= r
       /\ delayed_events' = [delayed_events EXCEPT ![s] =
            Armed(Event(task, len, posts + 1, FALSE), Wrap(now + delay))]
       /\ left' = [left EXCEPT ![s] = IF delay <= Half THEN delay ELSE delay - 2 * Half]
  /\ sem' = 1
  /\ Numbered(TRUE)
  /\ UNCHANGED <<table, heap, task_tbl, polling, msgq, now, thread>>

\* native_api_rtbus_post.  The native program's thread has a lower priority
\* than the runtime thread: it runs while that one sleeps or a handler blocks.
\* The put and the signal are one step: a wake-up by the time-out in between
\* drains the message as the signalled one would.
NativePosts(task, len) ==
  /\ pc = "wait" \/ InHandler
  /\ len <= AsyncPayloadMax
  /\ Len(msgq) < AsyncDepth
  /\ msgq' = Append(msgq, Event(task, len, posts + 1, TRUE))
  /\ sem' = 1
  /\ Numbered(TRUE)
  /\ UNCHANGED <<table, heap, task_tbl, polling, delayed, now, thread>>

\* native_service_force_stop_thread, which a handler calls to stop, to resume
\* or to start the native program, empties the message queue.
HandlerPurges ==
  /\ InHandler
  /\ msgq # <<>>
  /\ msgq' = <<>>
  /\ lost' = lost \cup UNION {Counted(msgq[k]) : k \in DOMAIN msgq}
  /\ UNCHANGED <<table, queue, polling, delayed, now, thread, posts, done>>

\* rtbus_cli_input_work_handler, on the system work queue, at any time.
WorkQueuePosts ==
  /\ \E ok \in BOOLEAN : /\ emos_post(Event(CliTask, 0, posts + 1, FALSE), FALSE, ok)
                         /\ Numbered(ok)
  /\ UNCHANGED <<table, polling, delayed, msgq, now, thread>>

\* A due delayed event that emos_post refuses, seen from the start of a pass:
\* every rtbus_process ends there.
Stuck(s) ==
  /\ Used(s)
  /\ pc \in {"sleep", "doze", "wait"} \/ (pc = "move" /\ i <= s /\ IsDue(s))
  /\ DueReached(now, delayed_events[s].due)
  /\ \/ Refused(delayed_events[s].ev, TRUE)
     \/ \E r \in Malloc(heap, NodeLen(delayed_events[s].ev)) : r.ptr = NoBlock
Wedged == \E s \in 1 .. Depth : Stuck(s)

\* The bound on the lag of the runtime thread.  It says nothing of a thread
\* that sleeps, of a wedged bus, and of a slot so late that it reads as armed.
Late     == \E s \in 1 .. Depth : Used(s) /\ left[s] <= -MaxLag /\ left[s] # -Half
Punctual == Late => Wedged \/ (pc = "wait" /\ wait > 0)

HeldMax == Half + TimeoutMax - 1
Held    == IF pc = "doze" /\ wait > 0 /\ (\E s \in 1 .. Depth : Used(s)) /\ held < HeldMax
           THEN held + 1 ELSE held

\* A millisecond passes.
Tick ==
  /\ Punctual
  /\ now' = Wrap(now + 1)
  /\ left' = [s \in 1 .. Depth |-> IF ~Used(s) THEN 0
                                  ELSE IF left[s] > -Half THEN left[s] - 1 ELSE -Half]
  /\ wait' = IF pc = "wait" /\ wait > 0 THEN wait - 1 ELSE wait
  /\ held' = Held
  /\ UNCHANGED <<table, queue, polling, delayed_events, msgq, pc, i, now_ms, level,
                 proc, ledger>>

RuntimeStep == \/ Boot \/ PostInit \/ MoveDue \/ DrainAsync
               \/ CallHandler \/ HandlerReturns \/ CallPoll \/ PollReturns
               \/ Sleep \/ StartWait \/ Wake

RtbusNext ==
  \/ RuntimeStep
  \/ \E task \in Tasks, len \in Lens :
       \/ \E given \in BOOLEAN : HandlerPosts(task, len, given)
       \/ \E delay \in Delays : HandlerPostsLater(task, len, delay)
       \/ NativePosts(task, len)
  \/ HandlerPurges
  \/ WorkQueuePosts
  \/ Tick

RtbusSpec == RtbusInit /\ [][RtbusNext]_vars

\* The runtime thread is scheduled, handlers return and time passes.
FairSpec == RtbusSpec /\ WF_vars(RuntimeStep) /\ WF_vars(Tick)
-----------------------------------------------------------------------------
(***************************************************************************)
(* Properties.                                                             *)
(***************************************************************************)

EventType == [task : Tasks, len : Nat, n : Nat, async : BOOLEAN]
NodeType  == [ptr : Nat, ev : EventType]
SlotType  == {Unused} \cup [used : {TRUE}, ev : EventType, due : 0 .. 2 * Half - 1]

TableOK  == /\ entry_tbl \in EntryTables
            /\ entry_count \in {0, Len(entry_tbl)}
            /\ poll_next_index \in 0 .. (IF entry_count = 0 THEN 0 ELSE entry_count - 1)
            /\ overtaken \in [Entries -> Nat]
QueueOK  == /\ HeapType(heap)
            /\ task_tbl \in [Levels -> Seq(NodeType)]
            /\ sem \in 0 .. 1
SlotsOK  == /\ delayed_events \in [1 .. Depth -> SlotType]
            /\ left \in [1 .. Depth -> -Half .. Half]
            /\ now \in 0 .. 2 * Half - 1
ThreadOK == /\ pc \in {"boot", "init", "move", "drain", "pick", "handler", "poll",
                       "sleep", "doze", "wait", "dead"}
            /\ i \in Nat \ {0}
            /\ pc = "poll" => i \in Entries
            /\ now_ms \in 0 .. 2 * Half - 1
            /\ level \in Levels
            /\ proc \in Nat \cup {NoBlock}
            /\ wait \in 0 .. TimeoutMax
            /\ held \in 0 .. HeldMax
LedgerOK == /\ msgq \in Seq(EventType)
            /\ Len(msgq) <= AsyncDepth
            /\ posts \in 0 .. MaxPosts
            /\ done \subseteq 1 .. MaxPosts
            /\ lost \subseteq 1 .. MaxPosts

\* The types of the bus's variables, and the ranges of the indices that the
\* code uses unchecked (src/emos.c, src/rtbus.c).
TypeOK == TableOK /\ QueueOK /\ SlotsOK /\ ThreadOK /\ LedgerOK

\* The places of the lists' nodes, and the node a handler is working on.
Nodes == UNION {{<<p, k>> : k \in DOMAIN task_tbl[p]} : p \in Levels}
NodeAt(x) == task_tbl[x[1]][x[2]]
InService(x) == pc = "handler" /\ x[1] = level /\ NodeAt(x).ptr = proc

\* Every node of the lists tbl has a block of its own in the heap h, large
\* enough for it, and every busy block holds a node.
OwnBlocks(h, tbl) ==
  /\ \A p \in Levels : \A k \in DOMAIN tbl[p] :
       LET b == tbl[p][k].ptr - HdrSize
       IN  b \in h.busy /\ tbl[p][k].ptr + NodeSize + tbl[p][k].ev.len <= h.next[b]
  /\ \A b \in h.busy :
       \E p \in Levels : \E k \in DOMAIN tbl[p] : tbl[p][k].ptr = b + HdrSize
  /\ \A p, q \in Levels : \A k \in DOMAIN tbl[p], m \in DOMAIN tbl[q] :
       tbl[p][k].ptr = tbl[q][m].ptr => p = q /\ k = m

\* The queued nodes (src/emos.c) and the busy blocks of the pool
\* (lib/bmalloc.c) belong together one to one: nodes do not overwrite each
\* other and no block leaks, whatever handlers, delays and the work queue
\* post between the steps of the runtime thread.
NodesOwnBlocks == Sound(heap) /\ OwnBlocks(heap, task_tbl)

\* An accepted post (rtbus_post, rtbus_post_delay, native_api_rtbus_post) is
\* in exactly one place until a handler gets it: the message queue, a
\* delayed slot or a list; or it was dropped by the drain or by a purge of the
\* message queue.  Nothing is lost in between or handled twice.
Places(n) ==
  {<<"msgq", k>> : k \in {k \in DOMAIN msgq : msgq[k].n = n}}
    \cup {<<"slot", s>> : s \in {s \in 1 .. Depth : Used(s) /\ delayed_events[s].ev.n = n}}
    \cup {<<"list", x>> : x \in {x \in Nodes : NodeAt(x).ev.n = n /\ ~InService(x)}}
    \cup {<<"done", 0>> : x \in done \cap {n}}
    \cup {<<"lost", 0>> : x \in lost \cap {n}}

EveryPostInOnePlace ==
  \A n \in 1 .. posts : Cardinality(Places(n)) = 1

\* The native program's posts of one level are handled in the order it made
\* them (native_api_rtbus_post, rtbus_process_async_posts, emos_post): none
\* is overtaken in the message queue or in the list.
NativeWaiting(p) ==
  {msgq[k] : k \in {k \in DOMAIN msgq : Registered(msgq[k].task) /\ LevelOf(msgq[k].task) = p}}
    \cup {task_tbl[p][k].ev : k \in {k \in DOMAIN task_tbl[p] : task_tbl[p][k].ev.async}}

NativePostsInOrder ==
  [][\A p \in Pending :
       LET first == task_tbl[p][1].ev
       IN  CallHandler /\ level' = p /\ first.async =>
             \A e \in NativeWaiting(p) : first.n <= e.n]_vars

\* A delayed event is queued (rtbus_move_due_events) no earlier than its delay
\* after it was posted, across the wrap of the 32-bit clock, for the delays
\* that are not in the past as a signed number.
NeverEarly ==
  [][\A s \in 1 .. Depth : Used(s) /\ ~Used(s)' => left[s] <= 0]_vars

\* The runtime thread sleeps past the time a delayed event is due by no more
\* than it was held up between rtbus_next_timeout_ms, which reads the clock,
\* and k_sem_take in runtime_event_wait, which starts the timeout; an event
\* half the range of the clock late, which reads as armed, is left out.
NoOversleep ==
  pc \in {"doze", "wait"} => \A s \in 1 .. Depth : Used(s) /\ left[s] # -Half =>
    wait = 0 \/ wait <= left[s] + held

\* Between two polls of a task each other polled task is polled at most once
\* (emos_process_poll_event).
PollRoundRobin ==
  \A e \in Entries : entry_tbl[e].always =>
    overtaken[e] < Cardinality({f \in Entries : entry_tbl[f].always})

-----------------------------------------------------------------------------
(***************************************************************************)
(* What makes type correctness, NodesOwnBlocks, NeverEarly and NoOversleep *)
(* inductive.                                                              *)
(***************************************************************************)

\* Posts are accepted only with a table that emos_init has checked.
TableChecked ==
  /\ entry_count # 0 => ~EntriesRejected
  /\ pc \notin {"boot", "dead"} => entry_count # 0
  /\ pc = "boot" => entry_count = 0 /\ \A p \in Levels : task_tbl[p] = <<>>

\* The node whose handler runs stays the head of its list: posts append.
ServedIsHead ==
  pc = "handler" => task_tbl[level] # <<>> /\ proc = task_tbl[level][1].ptr

\* due is the time l ms after t, modulo the width of the clock.
After32(due, t, l) == due - (t + l) \in {-2 * Half, 0, 2 * Half}
Span == -(Half - 1) .. Half

\* The due time of a slot tells the time that is left (rtbus_post_delay), up to
\* half the range of the clock after it.
DueTellsLeft ==
  \A s \in 1 .. Depth : Used(s) /\ left[s] # -Half =>
    left[s] \in Span /\ After32(delayed_events[s].due, now, left[s])

\* It also tells the time that was left when the pass read the clock.
DueToldLeft ==
  pc = "move" => \A s \in 1 .. Depth : Used(s) /\ left[s] # -Half =>
    \E l \in Span : left[s] <= l /\ After32(delayed_events[s].due, now_ms, l)

BusInv == /\ TypeOK /\ NodesOwnBlocks /\ TableChecked /\ ServedIsHead
          /\ DueTellsLeft /\ DueToldLeft /\ NoOversleep

-----------------------------------------------------------------------------
(***************************************************************************)
(* Standstill and progress.                                                *)
(***************************************************************************)

\* When the queue cannot take a due delayed event, rtbus_process returns
\* before emos_process: no handler runs, so no node is freed, so the event
\* cannot be taken next time either.  Nothing a poster does ends this state:
\* it lasts until the event is so late that rtbus_due_reached, a signed
\* comparison, takes it for one that is not due yet.
WedgedTillWrap ==
  [][\A s \in 1 .. Depth : Stuck(s) =>
       Stuck(s)' \/ (left'[s] = -Half /\ ~DueReached(now', delayed_events'[s].due))]_vars

\* The bus never started, or stands still on a delayed event.
Stopped == pc = "dead" \/ Wedged

\* rtbus_process is about to end on a native post that emos_post refuses.
Drops == /\ pc = "drain" /\ msgq # <<>>
         /\ \/ Refused(Head(msgq), TRUE)
            \/ \E r \in Malloc(heap, NodeLen(Head(msgq))) : r.ptr = NoBlock

\* A level's events are handled, however many are posted meanwhile, unless
\* higher levels always have events, or every cycle from some time on ends on
\* a native post that is dropped (rtbus_process_async_posts, emos_process).
QueueServed ==
  \A p \in Levels : []<>(\/ task_tbl[p] = <<>>
                         \/ pc = "handler" /\ level = p
                         \/ \E q \in Levels : q < p /\ task_tbl[q] # <<>>
                         \/ Drops \/ Stopped)

\* A native post leaves the message queue, however many follow it: messages
\* are taken out again and again, in the order they were put in.
NativePostsServed == \/ []<>(msgq = <<>> \/ Stopped)
                     \/ []<><<Len(msgq') < Len(msgq)>>_msgq

\* A delayed event leaves its slot; one that the bus stood still on for half
\* the range of the clock reads as armed anew, and is left out.
DelayedServed ==
  \A s \in 1 .. Depth : Used(s) /\ left[s] # -Half ~> (~Used(s) \/ Stopped)

\* A task that asked to be polled is polled again and again if any is.  Polls
\* have only the cycles that find no event: the bus always polls, handles an
\* event or drops one again, with a semaphore that is signalled or not.
PolledTask(e) == e \in Entries /\ entry_tbl[e].always
PolledForever ==
  /\ \A e \in 1 .. 3 : []<>(pc = "poll") => []<>(~PolledTask(e) \/ (pc = "poll" /\ i = e))
  /\ []<>(\/ \A e \in Entries : ~PolledTask(e)
          \/ pc \in {"handler", "poll"} \/ Drops \/ Stopped)
=============================================================================
