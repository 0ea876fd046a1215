# A TLA+ development of RTBus

This directory models the RTBus firmware: a Zephyr image that runs an event bus
(the *runtime*) and, beside it, a separately linked *native program* that
reaches the bus through a table of function pointers. It holds TLA+ modules,
configurations for the model checker TLC, and theorems whose proofs the TLA+
proof system (tlapm) checks.

Paths: `M` is `src/zephyr/modules/rtbus`, `R` is `src/zephyr/runtime/src`.
`PROJECT.json` maps every definition to the lines it stands for, and lists
runs, mutants, hazards, findings and theorems.

Contents: 1 Inventory · 2 Hard behaviours · 3 Plan · 4 Modules · 5 Runs and
bounds · 6 Fairness · 7 Proofs · 8 Findings · 9 What the models leave out ·
10 Running it.

## 1. Inventory

| Component | State | Operations | Interacts with | What makes it correct |
|---|---|---|---|---|
| Pool allocator `M/lib/bmalloc.c` | a chain of headers in a fixed pool, the high-water mark `_last_heap_object` | `init_mem_pool`, `bmalloc`, `bfree` | called by the linked list | blocks are disjoint, aligned, large enough; holes coalesce; nothing leaks |
| Linked list `M/lib/linklist.c` | `next` pointers of nodes in the pool | `linklist_new`, `linklist_remove` | allocator; event core | FIFO; an accepted node stays reachable until it is removed |
| Event core (EMOS) `M/src/emos.c` | `task_tbl` (a list per priority), `poll_next_index`, `entry_count` | `emos_init`, `emos_post`, `emos_process` | list; entry table; handlers | each event is handled once, by priority; polls rotate |
| Entry table `M/src/rtbus_iterable.c`, `rtbus_entries.c` | entries of a linker section | `emos_entries_init`, look-ups | event core | an accepted table has valid priorities and distinct tasks |
| RTBus API `M/src/rtbus.c` | `delayed_events[]` | `rtbus_post`, `rtbus_post_delay`, `rtbus_process`, `rtbus_next_timeout_ms` | event core; clock; semaphore | a delayed event fires after its delay, across the clock's wrap, and is slept over by no more than the thread was held up |
| Runtime thread `M/services/rtbus_runtime.c`, `rtbus_event.c` | a binary semaphore; the thread (priority 9) | loop: process, sleep for at most 100 ms | RTBus API | everything queued is served |
| Native API table `.../native_service/api.c`, `abi.c` | `native_rtbus_post_msgq` (8 messages of at most 32 bytes), a result semaphore, wake bits, a busy counter | posts, `result_wait`, `k_delay`, event get | native thread to runtime thread | posts stay in order; every request is answered or refused |
| Native service `.../native_service/native_service.c`, `native_board.c` | service state, event queue (8), native thread (priority 10), handoff flag | start, handoff, force stop, resume | image store, native API, CLI | a stopped program has no effect on the next one |
| Serial CLI `M/services/rtbus_cli.c` | 128-byte input queue, pending flag, work item, line buffer | byte submission (interrupt), work handler, line handler, TEST / DFU / REBOOT | serial ports, RTBus API, YMODEM, native service | every byte is processed in the end; a DFU restores console and program |
| Runtime serial `R/services/rtbus_serial.c` | receive ring, control-line router | receive callback, start, begin, read, flush | CLI, YMODEM, native program | bytes keep their order; control lines are told from data |
| Image store `M/services/rtbus_image.c` | the transfer's context: sizes, flash offset, pending words | begin, write, finish (checks, commit to the slot); `get_status` and metadata for the loader | YMODEM, native service | the slot is empty or holds one whole image, after any power loss |
| YMODEM `M/services/rtbus_ymodem.c` | expected block, sizes, "metadata received", "EOT seen" | receive loop | serial, image store; the uploader `system/ymodem_upload.c` | what is stored is what was sent, in spite of lost packets; both sides end |
| BLE service `R/services/rtbus_ble.c` | ready and advertising flags, connection handle, table of services | bus handlers; host callbacks (other threads) | RTBus API, native events | the handle is the connection's; a program can be connected to again |
| Diagnostics, start-up `M/services/rtbus_diagnostics.c`, `R/services/startup_service.c` | counters, a delayable work item | prints, USB console start-up | the boards | - |
| Native application side `src/.../cores`, `system/` | the program's own loop and image header | setup/loop, start-up code | native API table | - |
| Host tools, packaging, board files | - | - | - | - |

Contexts that run concurrently: the **runtime thread** (preemptible, priority 9;
every bus handler runs on it), the **native thread** (priority 10, so it runs
only while the runtime thread sleeps or blocks), the **system work queue**
(a higher, by default cooperative priority), the **Bluetooth host threads**, and
**interrupts** (serial input, clock).

Boot: the runtime thread calls `rtbus_init`, which checks the entry table,
hands the pool to the allocator and posts a SYS_INIT event for each entry that
asks for one; then it repeats `rtbus_process` and a bounded sleep. One
`rtbus_process` moves the due delayed events to the queue, drains the native
message queue into it, and then handles **one** queued event or, when none is
queued, makes **one** poll call. An error in the first two parts ends it there.

## 2. Hard behaviours

`PROJECT.json` lists the hazards by line. In groups:

* *A list and an allocator without a lock, used from two threads.* The CLI's
  work item posts from the system work queue. (`EmosList`, section 8.)
* *Handlers re-enter the bus.* While a handler runs its node is still on the
  list, and the handler, the native program and the work queue post meanwhile.
* *Error paths that end a cycle early.* A delayed event the queue cannot take
  ends every cycle before any handler could free memory; a drained native post
  that fails is dropped and ends its cycle, so that a program that keeps posting
  for an unknown task keeps the queue from being served.
* *Time.* A 32-bit millisecond clock that wraps; a semaphore that counts to
  one; a sleep computed some time before it starts.
* *Restarts of the native program* with requests, events and completions under
  way; a handoff with a gate and a time-out. (`NativeService`)
* *Serial input* through bounded queues that are filled from interrupts, and a
  wake-up that must be neither lost nor doubled. (`CliInput`)
* *Flash errors and power loss* between any two flash operations. (`ImageStore`)
* *A line that loses bytes*, under a protocol whose sender never repeats.
  (`Ymodem`)
* *Bluetooth callbacks* on other threads that touch flags of the runtime's.
  (`BleService`)

## 3. Plan

In order of importance to the whole; "done" means modelled, checked and, where
the table says so, proved.

| # | Module | Composes / implements | Runs | Theorems |
|---|---|---|---|---|
| 1 | `Heap`, `Bmalloc` — done | implements `PoolAllocator` | `heap` | all four state properties and the refinement, proved |
| 2 | `Rtbus` — done | uses the operators of `Heap` | `bus`, `bus_progress` | `TypeOK`, `NodesOwnBlocks`, `NoOversleep`, `NeverEarly`, `EveryPostInOnePlace`, `NativePostsInOrder`, `PollRoundRobin`, `WedgedTillWrap`, proved |
| 3 | `EmosList` — done | implements `EventQueue`; uses `Heap` | `list`, `list_race` | `AcceptedOnList`, `ListOwnsBlocks` and the refinement, without preemption, proved |
| 4 | `NativeService` — done | the service with its API, its thread and the requests under way | `native` | `BusyExact`, `OwnAnswer`, `TypeOK`, proved |
| 5 | `CliInput` — done | serial port 0 with the CLI | `cli`, `cli_stream` | `OneWakeup`, `RunsAsAsked`, `TypeOK`, proved |
| 6 | `ImageStore` — done | the store with the loader; implements `ImageSlot` | `image`, `image_ram` | `OldImageKept`, `NothingLostInTransit`, `SuccessIsInstalled`, `TypeOK` and the refinement, proved |
| 7 | `Ymodem` — done | the receiver with the uploader and the line | `ymodem` | `StoredInOrder`, `TypeOK`, `NoMutualWait`, proved |
| 8 | `BleService` — done | the service with the stack, as it sees it, and a program | `ble` | `HandleExact`, `TypeOK`, proved |
| 9 | composition: `Ymodem` on `ImageStore`, the DFU command of `CliInput` on `NativeService` — to do | | if small enough | |

Every safety property of a run that passes is now a theorem. What is left are
compositions (row 9) and theorems about them.

## 4. Modules

**`Heap`** — the allocator's state as a record and its operations as operators,
shared by every module that allocates. A heap is `active` (the pool was
accepted), `next` (the header chain as a function from header addresses),
`busy`, `last` (the high-water mark `_last_heap_object`) and `top` (the pool's
last address). `Malloc(h, n)` is the set of results of
`bmalloc(n)`: the fast path on top of the mark, the slow path that picks the
first sufficient hole and splits it if its tail holds more than a header, or
`NoBlock`. `Free(h, ptr)` is `bfree`: a pointer that is not a busy block's is
ignored; otherwise the block merges with its free neighbours and, at the top,
lowers the mark. Addresses are numbers, headers have their size on a 32-bit
target, sizes round up to four.

**`Bmalloc`** — the allocator as a state machine: a client that allocates any
of `Requests` and frees anything it holds. `HeapInv` is its inductive
invariant. **`PoolAllocator`** is what an allocator promises: it hands out
aligned ranges inside the pool, disjoint from all ranges held, and when nothing
is held it refuses only what is empty or larger than the pool.

**`Rtbus`** — the bus. `entry_tbl`, `entry_count`, `task_tbl`,
`poll_next_index`, `delayed_events`, `msgq`, `sem` and `now` are the code's
variables; `pc`, `i`, `now_ms`, `level`, `proc` and `wait` are where the runtime
thread is and its locals. The thread takes one step per call that another
context can come between:

| Action | Code |
|---|---|
| `Boot`, `PostInit` | `emos_init`: table check, then one SYS_INIT post per step; a failure ends the thread |
| `MoveDue` | one slot of `rtbus_move_due_events` |
| `DrainAsync` | one message of `rtbus_process_async_posts` |
| `CallHandler`, `HandlerReturns` | `emos_process_queued_event` before and after the handler |
| `CallPoll`, `PollReturns` | `emos_process_poll_event` before and after the poll handler |
| `Sleep` | `rtbus_next_timeout_ms`, which reads the clock, with the loop's cap |
| `StartWait`, `Wake` | `k_sem_take` in `runtime_event_wait`: the start of the timeout, any time later, and the return |
| `HandlerPosts`, `HandlerPostsLater` | `rtbus_post`, `rtbus_post_delay` in a handler |
| `HandlerPurges` | `native_service_force_stop_thread` purging the message queue |
| `NativePosts` | `native_api_rtbus_post` |
| `WorkQueuePosts` | `rtbus_cli_input_work_handler` |
| `Tick` | a millisecond |

`rtbus_post_delay` has no caller in the repository: it is part of the API that
handlers of an application use, and is modelled as called by a handler. Ghost
variables `left`, `held`, `posts`, `done`, `lost` and `overtaken` observe and restrict
nothing but the bounds. `left` is the time until a slot is due, counted down to
`-Half`: a slot that late reads as not yet due (`rtbus_due_reached` is a signed
comparison). `held` is the time that passed between `Sleep` and `StartWait`.

**`EmosList`** — `linklist_new` and `linklist_remove` pointer by pointer on one
level, with the fast path of `bmalloc` in three steps (header marked, mark
raised, header linked). The constant `Preempts` says whether the work queue's
post may come inside a call of the runtime thread (as it may in the code) or
only between calls (as the note at `bmalloc` demands). **`EventQueue`** is a
FIFO queue. `Rtbus` treats each list call as one step; `list` shows that this is
right when calls do not overlap, `list_race` that the code does not ensure it.

**`NativeService`** — the native program's life. The runtime thread's place is
`rt`, the program's `thread`; the flags `handoff`, `busy`, `suppressed`, the
event callback, the post queue, the event queue, the wake bits and the result
semaphore are the code's. The runtime thread has the higher priority, so the
program's thread moves only between two of its steps.

| Action | Code |
|---|---|
| `ThreadLoop`, `AppReturns` | `native_thread_entry`: park during an upgrade, dispatch events, run the program |
| `PostRequest`, `PutMessage`, `RefuseMessage`, `EndPost` | `native_api_rtbus_post` inside its busy section |
| `WaitReturns` | `native_api_result_wait`, and the program reading its result |
| `StartWrite`, `EndWrite` | `native_api_serial_write`, `native_api_serial_vprintf` |
| `StartDelay`, `DelayLoop`, `DelayWoken`, `DelayOver` | `native_api_k_delay` |
| `OnEvent`, `EmitEvent` | `native_api_on_event`, `native_service_emit_event` |
| `Boot`, `Resume` | `native_service_start`, with a force stop if the image does not load; `native_service_resume_after_upgrade` |
| `DrainOne`, `PostDrained` | `rtbus_process_async_posts` with the busy section around it |
| `Complete`, `Ignore` | a handler that does, or does not, call `native_service_complete_result` |
| `Command`, `RequestStop`, `StopThread`, `StopTimeout` | the DFU command, the stop request, the handoff polling its gate, and its 2 s time-out |

After `StopTimeout` the handoff flag stays up, as in the code: the program runs
on with a `k_delay` that returns at once, until a later upgrade. Ghosts:
`leftover`, `dropped` (the bus refused a request that is waited for) and `misread` say
what a property excepts or forbids.

**`CliInput`** — `Receive` is the receive callback of port 0 with its router
(`ControlByte`, `StartControlLine`, `PlainByte`), the ring, and
`rtbus_cli_submit_byte`. It runs in an interrupt, or on a cooperative work queue
for USB, so a byte is one step, between any two steps of the others.
`PostInput` and `GiveUpPost` are the work handler; `StartDrain`, `CollectByte`,
`Dispatch`, `Reboot`, `StartRecv`, `EndRecv`, `FoundEmpty`, `ClearFlag` and
`Recheck` are `rtbus_cli_process_input` with the handlers of its commands. The
text of a command is one byte, so is the prefix `@RTBUS:`.

**`ImageStore`** — `store_ctx` is the code's, flash is two sequences of words
(the slot, and the patch partition where a board has one; `direct` tells which
board), and a CRC stands for the words it was computed from. A step makes at
most one flash call, which may succeed, fail, or be cut short by a power loss
with any part of an erase and any first part of a write done.

| Action | Code |
|---|---|
| `BeginRefused`, `Begin` | `rtbus_image_store_begin` |
| `Write`, `FillPending`, `FlushPending` | `rtbus_image_store_write`: the call, then a turn of its loop each |
| `FinishEarly`, `FinishFlush`, `Verify` | `rtbus_image_store_finish`: its early returns, the padded rest, the checks |
| `CommitErase`, `CommitCopy`, `CommitDone` | `rtbus_image_commit_store_to_slot` |
| `Launch` | `native_service_start` reading status and metadata back; the header's `native` is the verdict of `native_validate_metadata` on flag, ABI version and offsets |
| `PowerLoss` | a power loss between two flash calls |

**`ImageSlot`** is what the store promises: a slot that holds no image or one of
those offered, and changes only by losing its image or by getting the one now
offered.

**`Ymodem`** — one upload: `rtbus_ymodem_recv` with the status line of its command
handler (`Recv...`), the sender `send_ymodem` with its waits (`Advance`,
`SenderRead`, `SenderTimeout`), and the line (`DamageFrame`, `LoseAnswer`). A
frame that loses bytes reaches the receiver as stray bytes, any of which may
look like EOT or CAN. A stray EOT is answered with an ACK the sender takes for
its block's; so a sender may report "assuming success" for an upload the
receiver refused. What is stored is right nevertheless, which is the property, up
to a limit that section 7 is about: `false_eots` counts the stray EOTs.

**`BleService`** — `rtbus_ble_process` call by call (`Reset`, `Register`, `Use`,
`AdvStart`, `RegisterPending`, `Enable`, `LoadSettings`, `StartAdvertising`,
`SetFlag`), the callbacks (`Connected`, `Disconnected`, `Recycled`,
`SecurityChanged`), and a program (`AskAdvertising`, `Ask`, `DispatchEvent`,
`Restart`). The stack is what the service sees of it, with the one connection
object of the shipped configuration. Two windows of the code show as ghosts:
`late`, a recycled callback that comes when the object is in use again and
clears the handle of the new connection; `lost`, a stack call of `adv_start` that
fails without the program learning of it, a recycled event dropped at a full
queue, or a connection made before the advertising flag was set, which then
stays set.

**Proofs** are in `HeapLemmas`, `PoolProofs` (of `Bmalloc` and `EmosList`), `RtbusProofs`,
`NativeServiceProofs`, `CliInputProofs`, `ImageStoreProofs`, `BleServiceProofs` and `YmodemProofs`.
**Instances** for TLC are the modules `MC...`.

## 5. Runs and bounds

| Run | Shows | Bounds, and why they are enough |
|---|---|---|
| `heap` | `HeapInv` part by part (headers tile the pool, no two free blocks are neighbours, the client's blocks are the busy ones), and that `Bmalloc` implements `PoolAllocator` | Pools of 61 bytes at an aligned address, 56 at an odd one, 11 (rejected); requests 0, 1, 7, 12, 20. Four or five blocks give every neighbourhood of a freed block (free or busy on both sides, first, last), splitting, tails too small to split, rounding and refusal |
| `bus` | `NodesOwnBlocks`: queued nodes and busy blocks correspond; `EveryPostInOnePlace`: an accepted post is in one place until it is handled or dropped; `NativePostsInOrder`; `NeverEarly` and `NoOversleep` across the wrap; `PollRoundRobin` | A pool with room for two events, so that a third is refused; a clock that wraps after 4 ms with delays of 2 (the largest in the future) and 3 (in the past as a signed number); `Depth = 1`, message queue of 2, three posts; an accepted table with tasks of two levels, and four that `rtbus_init` rejects or fails on. About 1.1 million states |
| `bus_progress` | `QueueServed`, `NativePostsServed`, `DelayedServed`, `PolledForever`, except where the bus never started or is wedged, and that a wedge lasts until the clock wraps (`WedgedTillWrap`) | Posters never stop (`Endless`), so posts are not told apart (`MaxPosts = 0`); one slot, one message, a pool for two events, delay 2, cap 1. What several slots do to each other is left to the proofs, which are for every `Depth`. About 243,000 states |
| `list` | `AcceptedOnList`, `ListOwnsBlocks`, refinement of `EventQueue`, with `Preempts = FALSE` | A pool for three nodes and six posts: refusals, reuse of holes, both branches of both functions |
| `list_race` | `AcceptedOnList` fails with `Preempts = TRUE` | three posts |
| `image` | `NothingLostInTransit`, `SuccessIsInstalled`, `OldImageKept`, refinement of `ImageSlot`, with a flash error or a power loss at every flash call, on both kinds of board | A slot of six words, a patch partition of four, so that a file can fit one and not the other; alignment 2, pending buffer and copy buffer 2, packets of 1 to 3, so that packets straddle the buffer and the last write is padded; ten files, good, truncated, padded, of the wrong kind, too large, too greedy of RAM, no image, or shorter than a header. 28,431 states |
| `image_ram` | `RamWithinLimit` fails, without any fault | as `image`, `Faults = {}` |
| `ymodem` | `StoredInOrder`, `NoMutualWait`, `TransfersEnd` | Files of 0, 1, 2 and 6 blocks with block numbers that wrap at 4; three faults of the line, each leaving up to three stray bytes: nine stray bytes against four numbers, so the limit of `StoredInOrder` is passed. About 342,000 states |
| `cli` | `OneWakeup`, `RunsAsAsked`, `InputServed` | A queue that takes one command and one byte more, so that the second command loses its end; lines one byte longer than a command, so that longer ones overflow; two control lines, one failed post. About 980,000 states |
| `cli_stream` | `StreamWhole` fails | one control line, no failed post |
| `native` | `BusyExact`, `OwnAnswer`, `RequestsAnswered` | Queues of one, so that full ones are met; three requests and two upgrades: requests of two programs and an upgrade that comes while one is under way. 109,190 states |
| `ble` | `HandleExact`, `Reconnectable` | A table for two services and three requests to fill it; an event queue for one connection's events; one failing call, one restart. 158,702 states |

`MaxPosts` is how many posts are told apart; without `Endless` it bounds them.
`Half` is half the clock's range. `MaxLag` is how many milliseconds late for a due
event the clock lets the runtime thread be (none in the runs). It says nothing of a
thread that sleeps, of one that is wedged, nor of a slot that is half the range
late, so that the clock runs on in all these; and between `Sleep` and `StartWait` the
clock passes up to the due time and `MaxLag` beyond. All are parameters of the
proofs, which need `MaxLag + TimeoutMax < Half`: at 2^32 ms that is 24 days, beyond
which the signed comparison cannot tell late from early.

Three properties say what is not welcome.
* `WedgedTillWrap`: once a due delayed event cannot be queued, because its task is
  unknown or because the pool is full of nodes, `rtbus_process` returns before
  `emos_process`, so no handler frees a node and no later cycle gets further. It ends
  only when the event is half the clock's range late (24 days) and reads as not due;
  then the bus runs for as long again. The progress properties therefore say "or
  `Stopped`", and `DelayedServed` leaves out the slot that has come round.
* `QueueServed`: a queue may starve if from some time on every cycle ends on a native
  post that is refused (`Drops`), as a program that keeps posting for an unknown task
  can bring about, or if higher levels always have events. Without any one of the
  three exceptions TLC finds it violated.
* `NoOversleep`: a sleep ends late by the time the thread was held up between reading
  the clock and starting to wait (`held`); the code does not look at the clock again.

`PolledForever` says of polls only that the polled tasks share them and that the bus
does one of its jobs again and again: polls have but the idle cycles, so a bus that
always has events polls nobody. It quantifies over indices 1 to 3, the largest table
of the instance.

Deadlock is checked in `heap`, `bus` and `bus_progress`. In `list` and
`list_race` it is not: `MaxPosts` bounds the posts, and with all of them
handled the system rightly stops. Nor in `native`, which may stop when no image
loads and the bounds are used up, nor in `ble`, which stops when a failed start
of advertising leaves nobody to ask again. In the other runs it is; `Ymodem` ends in
`Finished`, a state that may repeat itself.

Three bounds deserve a word. In `ymodem` each stray EOT but the first buys the sender
a false answer, and the faults are enough for these to carry it all the way round the
four block numbers: with a limit of `BlockMod + 1` false EOTs instead of `BlockMod`
the run finds `StoredInOrder` violated (section 7 says what this means for the code's
256). In `image` no file is a damaged image that becomes right
when a word is lost in a cut-short erase; with a real CRC this is a collision or
the image itself. A file that lacks words at its end is among them: if the
missing words are those of an erased slot, the slot holds the whole image, which
the refinement mapping (`Offer`) says. In `cli` the bound on control lines is a
guard of the byte that would end one line too many.

Every property of a passing run has a mutant in `PROJECT.json`: a plausible
defect of one definition (marked `defect:` beside it) under which the same run
fails.

## 6. Fairness

`FairSpec` assumes weak fairness of `RuntimeStep`, the disjunction of the
runtime thread's own steps, and of `Tick`. The first says the thread is
scheduled when it can run and that handlers return; the scheduler is
preemptive, the contexts above it are interrupt handlers and short work items,
and no handler of the repository loops for ever. The second says that time
passes. Nothing is assumed of posters: no post is ever required to happen, and in
`bus_progress` none is ever the last. No fairness is put on any single step of the
thread.

* `Ymodem`: weak fairness of `Receiver` and of `Sender`. Both programs are loops
  whose every wait has a deadline. None of the line.
* `CliInput`: weak fairness of `WorkQueue` and of `CliTask`: both threads run, and
  the transfer inside a DFU command ends, which `TransfersEnd` of `Ymodem` says.
  None of the bytes that arrive.
* `NativeService`: weak fairness of `Runtime`, and of `WaitReturns`: the kernel wakes
  a thread whose semaphore is given, unless the thread is aborted. None of the
  program, which may loop for ever, nor of commands.
* `BleService`: weak fairness of `RuntimeThread`, of `Program` (it takes its events
  and asks for advertising when it is not waiting), and of `Freed` and `Recycled`,
  the stack's own bookkeeping. None of the peer, which may stay away: hence
  `Reconnectable` says "connectable or connected", not "connected".

## 7. Proofs

Proved for every value of the constants that meets the modules' assumptions:

| Theorem | States |
|---|---|
| `AllocatorInvariant`, `HeapTypeCorrect`, `ChainAlwaysTiled`, `HolesAlwaysCoalesced`, `BusyBlocksAreOwned` | `HeapInv` is inductive, and its parts that the run checks |
| `AllocatorRefinement` | `Bmalloc` implements `PoolAllocator` |
| `BusInvariant` | `BusInv` is inductive |
| `TypeCorrect`, `NodesAlwaysOwnBlocks`, `NoOversleepHolds` | its parts that the runs check |
| `NeverEarlyHolds` | the action property `NeverEarly` |
| `PostsAreNeverLostOrDoubled` | `EveryPostInOnePlace` of `Rtbus` |
| `NativePostsStayInOrder`, `WedgedUntilClockWraps` | the action properties `NativePostsInOrder` and `WedgedTillWrap` |
| `PollsTakeTurns` | `PollRoundRobin` |
| `AcceptedStaysOnList`, `NodesAreTheBlocks` | `AcceptedOnList` and `ListOwnsBlocks` of `EmosList`, without preemption |
| `ListIsQueue` | `EmosList` implements `EventQueue`, without preemption |
| `BusyIsExact`, `AnswerIsOwn`, `ServiceInBounds` | `BusyExact`, `OwnAnswer` and `TypeOK` of `NativeService` |
| `WakeupIsSingle`, `CommandsRunAsAsked`, `InputInBounds` | `OneWakeup`, `RunsAsAsked` and `TypeOK` of `CliInput` |
| `OldImageIsKept`, `NothingIsLostInTransit`, `SuccessMeansInstalled`, `StoreCountersInBounds` | the action property and three invariants of `ImageStore` |
| `StoreImplementsSlot` | `ImageStore` implements `ImageSlot` |
| `BlocksStoredInOrder`, `TransferInBounds` | `StoredInOrder` and `TypeOK` of `Ymodem` |
| `NoDeadlyWait` | `NoMutualWait` of `Ymodem` |
| `HandleIsExact`, `BleTypeCorrect` | `HandleExact` and `TypeOK` of `BleService` |

*Assumptions.* `HeapAssumption`: pools have a start and a length in `Nat`,
requests are in `Nat`. `RtbusAssumption`: entry tables are sequences of
entries; lengths are in `Nat`; the pool's length is not 0; delays are below
`2 * Half`; the cap and the lag are together below `Half`. Nothing is assumed of the
entries (bad tables are covered), the depth, or the size of the pool.
`NativeAssumption`, `CliAssumption` and `BleAssumption`: depths are positive (the
ring and the line buffers hold at least one byte beside their terminator) and
bounds are in `Nat`. `ImageStoreAssumption`: sizes are positive; the partitions
and the pending buffer are whole multiples of the alignment, which the copy
buffer is at least as large as; an erased word may be a payload's; files are
sequences of words, and `None` is no word.

Some theorems carry a hypothesis beside the specification. Those of `EmosList` ask
for `Preempts = FALSE`: that no other thread posts inside a call, which the note
at `bmalloc` demands and the code does not ensure; `list_race` shows that they
fail without it. `StoreImplementsSlot` asks, on a board that stores uploads
directly in the slot, that every file `TellsErasure`: that no part of it, its
other words erased, has the payload its header names unless the file has. It
excludes a damaged file that becomes right when the damaged word is erased or not
yet written, which the CRC would have to tell from the image itself: with such a
file among its `Files` the run `image` finds the refinement violated.
`MCFilesTellErasure` checks that the run's files meet the hypothesis.

`BlocksStoredInOrder` carries its limit in the property: the blocks are in order as long
as damaged frames have left no more bytes that look like EOT than there are block
numbers. The code has 256 numbers. One 1K frame that loses its header leaves up to 1027
bytes that are read as headers, so a line that does this to a block with 257 bytes of
the value of EOT (0x04) is beyond the limit, and there the claim ends: the sender,
acknowledged for each of them but the first, can be carried once round the numbers, and the
receiver take a later block for the one it expects. TLC shows this with four numbers
and five false EOTs; with four false EOTs, never. What is stored then is the wrong
image, which `rtbus_image_store_finish` still holds against its header, size and CRC.

Every invariant below was checked by TLC on the run of its module before it was
proved.

*Allocator.* `HeapLemmas` proves of the operators, for a heap that is `Sound`
(headers tile the pool up to the mark, coalesced, aligned), what `Malloc` and
`Free` return and that the heap stays sound: one lemma each for the fast path,
the slow path with and without a split, and `Free` with its four combinations
of free neighbours. That holes are coalesced belongs to the invariant because
the refinement needs it: when nothing is held, no two holes side by side and
none under the mark mean that the mark is back at the start of the pool, so a
request that fits an empty pool is granted. `PoolProofs` needs only these
lemmas.

*Bus.* `NodesOwnBlocks` is not inductive alone. A handler's node is freed after
the handler, by address, so the proof must know that it still is the head of
its list (`ServedIsHead`), which holds because posts append. A post looks up
its task's level, so a queue that accepts posts must have a table that
`emos_init` has checked (`TableChecked`). For time, `DueTellsLeft` says that a slot's
due time and the ghost `left` agree modulo the clock's range and that
`left` lies within `-(Half - 1) .. Half`; `DueToldLeft` says the same relative to
the time `rtbus_move_due_events` read before it started, which lies in the
past by the time it reaches a slot. `NeverEarly` follows from the latter: if the
signed difference says "due" for the old time, the time left was at most 0
then, and has only shrunk. `NoOversleep` follows from `DueTellsLeft` when the
sleep is computed; a tick before it starts lowers `left` and raises `held`, one after
lowers `left` and the sleep; a slot armed later comes from a handler, when the thread is not asleep. The proof of the induction step
has one lemma per action.

Three more invariants rest on `BusInv`. `Ledger` books every number from 1 to
`posts` exactly once among message queue, slots, lists, `done` and `lost`;
`EveryPostInOnePlace` is that and no number more. `InOrder` says that queue and
lists are sorted by number, as far as posts of the native program go, and
that what is listed comes before what is queued: a post gets the next number
when it joins the queue, and the drain moves the first of the queue to the end of a
list. `InTurn` bounds `overtaken[e]` by the number of polled entries whose
`Distance` from `poll_next_index` is larger than that of `e`; `PollRoundRobin`
follows because `e` is not among them. `WedgedTillWrap` needs no invariant beyond
`BusInv`, but a lemma on the allocator: what `Malloc` refuses it refuses again
after it has granted something else (`RefusedAgain`), since first fit refuses only
when no hole fits (`FirstFitFinds`).

*List.* `ListInv` holds under `Preempts = FALSE`. `PoolBehind` says that the pool,
or while a node is being made the pool before its header was marked, is `Sound`;
`Listed` that there is a sequence of distinct busy blocks linked one to the
next from the head of the level to `NULL`, and `Standing` where the thread inside a call
stands on it. The model's `At` walks the links by a recursive function; that it
meets exactly that sequence (`WalkMeetsChain`) is shown by the least index at
which it would not. Everything else is a fact about sequences: linking appends,
removing the head takes the tail, and the mapped queue moves accordingly.

*Native service.* `BusyInv` is `BusyExact` and that there is no thread before the
first start; each path through a section is a case. `AnswerInv` relates the
request waited for to where it is: `OneAsked` says that while a program waits, at
most one request of its own is in the post queue, drained, on the bus or answered,
that it is the last, and that the semaphore is given only when its answer is
written. Requests of earlier programs are told by their numbers, and `leftover`
remembers whether one was on the bus when the program started. `ServiceInv` adds to
`AnswerInv` that every message on its way is of a request made so far.

*CLI.* `OneWakeup` is inductive with the range of its variables: every action
that raises or lowers the flag moves exactly one of the other terms. `InputInv` adds `Accounted`: the runs of a
command and the ends of its lines still in the line buffer or the input queue are
together at most the lines the host ended with it. A byte that is dropped lowers the
sum, a line that overflows is not counted, and a run takes one end away.

*Image store.* `CommitVerified` says that a commit under way is on a board with a
patch partition and that what is stored there is accepted; `Verify` is the only
way in, and the commit touches neither. `OldImageIsKept` follows. `StoreInv` adds
where every word of the file is: `Transfer` (the context is about the file, which
fits), `Receiving` (the store area holds the file up to the flash offset and is
blank from there; the pending words and the rest of the call's data are the ones
that follow), `Received` (after the last flush it holds the whole file), and
`Copying` (the slot holds the file up to the block that is next). All three are
said with `Filling(n, k, f)`, an area of `n` words that begins with the first `k`
of `f`, and rest on one lemma, `ProgramAppends`: a write at `k` of the words that
follow, padded with erased words or not, makes a longer `Filling`. Padding is
harmless because programming an erased word changes nothing, so a later write may
cover it. `NothingIsLostInTransit` restates `Receiving` in the form the run checks.
`SlotInv` adds for the refinement that the slot always is a part of some file with
`PartsTold` (`SlotHolds`): so whatever an erase cut short or a write half done
leaves there is that file's image or none. `StoreTyped` adds the ranges.

*BLE.* `HandleInv` adds to `HandleExact` that nothing has been advertised before
the reset at start-up, which would clear the handle.

*YMODEM.* `TransferInv` is a balance of answers. Every ACK the sender has taken or
will find on the line was put for something the receiver accepted or for a stray
EOT, and there were `false_eots` of those (`Honest`, `Budget`). So the sender is at most `Ahead` blocks beyond what the receiver
has, and every block on the line lies in that window (`PacketsOnLine`): its number,
taken modulo `BlockMod`, can equal `expected_block` only if it is the expected
block. The first EOT a receiver sees gets NAK, which is what makes `Ahead` one less
than the false EOTs, and the limit tight: `Guarded`, the invariant, is `TransferInv` up to
that limit. `TransferInBounds` rests on bounds that hold beyond it (`InBounds`). `NoDeadlyWait` needs none of this: until
there is trouble, sender, receiver and line match one of the fifteen patterns of
`Calm`, which are the stations of a transfer, and all but `AllDone` have something
on the line or, in `Asking`, no metadata.

*Model-checked only.* All progress properties.
Liveness under fairness and `ENABLED` are out of the prover's reach. So is
induction over data, as the library states it; where a proof needs one
(`FirstFitFinds`, `WalkMeetsChain`) it argues from a least counterexample, which
`LeastNatural` takes from the well-foundedness of the natural numbers. Recursive operators
are out of reach too, for which reason `At` in `EmosList` is a recursive function over a
bounded range and no module declares a recursive operator.

## 8. Findings

`list_race`: `bmalloc` is documented as not safe for threads "until those macros are
replaced by a real Zephyr lock or the API is restricted to one scheduler
thread" (`M/lib/bmalloc.c`). Neither is so: `rtbus_cli_input_work_handler`
posts on the system work queue, whose thread can preempt the runtime thread
inside the same functions. In the run's trace an event whose post returned 0 is
on no list afterwards. For the CLI this event is the one its pending flag
waits for.

`image_ram`: `CONFIG_RTBUS_IMAGE_RAM_MAX` is the "maximum private runtime RAM ... that an
RTBus image may declare in its header" (`M/Kconfig`). The store refuses an image
that declares more, but on a board without a patch partition it is in the slot by
then, and the loader does not look at that field. The image refused is launched
when the upload ends.

`cli_stream`: `README.md` says that during a DFU the image is received by YMODEM on
serial port 0. The control-line router of that port stays at work: in a packet
with an end-of-line byte followed by `@` it takes the bytes from there to the next
end of line away. The packet is refused, the sender does not repeat it, and so
an image with these two bytes in sequence cannot be uploaded.

## 9. What the models leave out

* *Contents of events.* A payload is its length; an event is told by its number.
* *The memory order of the processor.* All contexts share one core.
* *A preempted list call in `Rtbus`.* There the calls are atomic; `EmosList` is the
  module about this question.
* *A length near 2^32* in `emos_post`, whose 32-bit sum would wrap: callers'
  lengths are at most 16-bit numbers.
* *Handlers that post to the native message queue, or wait for it.* The native
  API is called by the native thread only.
* *Native API:* GPIO, `millis` and `serial_read`, which touch a pin or the ring
  only; `result_wait` with a time-out, which nothing in the repository uses;
  `native_last_error`, which is only read back. A handler that does not answer
  a request (unknown, or of the wrong size) leaves its waiter waiting; the
  wrappers in `system/include` post no such request, and `NativeService` has none
  that is waited for.
* *Serial:* baud rate and line control; bytes written out; the second port, which
  is the same ring without the router.
* *BLE:* advertising data, characteristic values and attribute tables,
  subscriptions, bonds: data that no decision of the service depends on. More
  than one connection object, which the shipped configurations do not have. The
  program is assumed to advertise again on a recycled connection, as the
  examples do.
* *Diagnostics* start the native service and answer a request, both in
  `NativeService`. The *start-up service* registers USB and polls DTR to raise DCD and
  DSR, flags no other part reads.
* *Not modelled:* board files (register accesses of a pin table and a reset hook),
  core libraries, the build tool `system/header.c`, packaging and the editor
  extension, which are data, file and process I/O, or run elsewhere. Of the host
  tools the uploader's protocol is the sender of `Ymodem`.
* *Composition.* Each module has the others as what it sees of them: `Ymodem` an
  image store that may refuse at any call, `CliInput` a transfer that ends,
  `NativeService` a DFU command, `ImageStore` a sender of packets of any size.

## 10. Running it

    tlc -workers 2 -config MCBmalloc.cfg   MCBmalloc     # heap
    tlc -workers 2 -config MCRtbus.cfg     MCRtbus       # bus, about 1.1 million states
    tlc -workers 2 -config MCRtbusLive.cfg MCRtbus       # bus_progress
    tlc -workers 2 -config MCEmosList.cfg  MCEmosList    # list
    tlc -workers 2 -config MCEmosListRace.cfg MCEmosList # list_race: a violation
    tlc -workers 2 -config MCImageStore.cfg MCImageStore # image
    tlc -workers 2 -config MCImageStoreRam.cfg MCImageStore # image_ram: a violation
    tlc -workers 2 -config MCYmodem.cfg    MCYmodem      # ymodem
    tlc -workers 2 -config MCCliInput.cfg  MCCliInput    # cli, about 1 million states
    tlc -workers 2 -config MCCliStream.cfg MCCliInput    # cli_stream: a violation
    tlc -workers 2 -config MCNativeService.cfg MCNativeService # native
    tlc -workers 2 -config MCBleService.cfg MCBleService # ble
    for m in HeapLemmas PoolProofs RtbusProofs NativeServiceProofs CliInputProofs \
             ImageStoreProofs BleServiceProofs YmodemProofs; do tlapm $m.tla; done
