--------------------------- MODULE NativeService ---------------------------
(***************************************************************************)
(* The life of the native program: the thread that runs it and the API it  *)
(* calls (native_service.c, api.c), the requests it posts and waits for,   *)
(* and the upgrade command that stops and restarts it from the runtime     *)
(* thread.  The order in which the bus serves events is module Rtbus; here *)
(* requests and upgrade commands share one queue.  An event callback that  *)
(* calls the API is the program at "app".                                  *)
(*                                                                         *)
(* The runtime thread has the higher priority, so the program's thread     *)
(* moves only between two steps of it.                                     *)
(***************************************************************************)
EXTENDS Naturals, Sequences, SequencesExt

CONSTANTS
  PostDepth,    \* NATIVE_RTBUS_POST_QUEUE_DEPTH
  EventDepth,   \* NATIVE_EVENT_QUEUE_DEPTH
  MaxRequests,  \* bound: requests the program posts
  MaxUpgrades   \* bound: DFU commands

ASSUME NativeAssumption ==
  /\ PostDepth \in Nat \ {0} /\ EventDepth \in Nat \ {0}
  /\ MaxRequests \in Nat /\ MaxUpgrades \in Nat

VARIABLES
  thread,       \* where native_thread is; "none" if there is no thread
  handoff,      \* native_patch_handoff
  busy,         \* native_api_busy
  suppressed,   \* native_console_suppressed
  callback,     \* native_event_callback is set
  post_msgq, event_msgq, wake_event, result_sem,
  rt,           \* the runtime thread: boot, idle, posting, handoff, upgrade
  drained,      \* the message the runtime thread is posting
  bus,          \* events on the bus: requests, and DFU commands
  result,       \* the program's result variable: 0 is -EINPROGRESS, else the
                \* number of the request whose completion wrote it
  request,      \* the number of the last request; 0 at first
  waits,        \* the program will wait for the answer to the one it posts
  upgrades,     \* ghost: DFU commands so far
  first,        \* ghost: the first request of this program
  leftover,     \* ghost: a request of an earlier program was on the bus when
                \* this one was started
  dropped,      \* ghost: the bus refused the request the program waits for
  misread       \* ghost: a wait of this program returned without its answer

queues  == <<post_msgq, event_msgq, wake_event, result_sem>>
flags   == <<handoff, busy, suppressed>>
runtime == <<rt, drained, bus>>
ghosts  == <<upgrades, first, leftover, dropped, misread>>
vars    == <<thread, flags, callback, queues, runtime, result, request, waits, ghosts>>

DFU      == MaxRequests + 1
Unwaited == MaxRequests + 2    \* a request of plain rtbus_post
Requests == 1 .. MaxRequests

Posting  == {"put", "posted"}
Calling  == Posting \cup {"wait", "write", "delay", "sleep"}

TypeOK ==
  /\ thread \in {"none", "loop", "parked", "app"} \cup Calling
  /\ {handoff, suppressed, callback, waits, leftover, dropped, misread} \subseteq BOOLEAN
  /\ busy \in 0 .. 2 /\ result_sem \in {0, 1}
  /\ wake_event \subseteq {"irq", "process"}
  /\ Len(post_msgq) <= PostDepth /\ Range(post_msgq) \subseteq Requests \cup {Unwaited}
  /\ event_msgq \in 0 .. EventDepth
  /\ rt \in {"boot", "idle", "posting", "handoff", "upgrade"}
  /\ drained \in {0, Unwaited} \cup Requests
  /\ Range(bus) \subseteq Requests \cup {DFU, Unwaited}
  /\ result \in 0 .. request /\ request \in 0 .. MaxRequests
  /\ first \in 1 .. request + 1 /\ upgrades \in 0 .. MaxUpgrades

Init ==
  /\ thread = "none" /\ handoff = FALSE /\ busy = 0 /\ suppressed = FALSE
  /\ callback = FALSE
  /\ post_msgq = <<>> /\ event_msgq = 0 /\ wake_event = {} /\ result_sem = 0
  /\ rt = "boot" /\ drained = 0 /\ bus = <<>>
  /\ result = 0 /\ request = 0 /\ waits = FALSE
  /\ upgrades = 0 /\ first = 1 /\ leftover = FALSE /\ dropped = FALSE /\ misread = FALSE

-----------------------------------------------------------------------------
(***************************************************************************)
(* The thread's loop, and the calls of the program.                        *)
(***************************************************************************)

\* native_service_dispatch_events: all queued events, oldest first.
DispatchEvents == event_msgq' = 0

\* native_thread_entry: parks for ever while an upgrade is under way.
ThreadLoop ==
  /\ thread = "loop"
  /\ IF handoff THEN thread' = "parked" /\ UNCHANGED event_msgq
                ELSE thread' = "app" /\ DispatchEvents
  /\ UNCHANGED <<flags, callback, post_msgq, wake_event, result_sem, runtime, result,
                 request, ghosts, waits>>

\* main returns; a sketch's main never does.
AppReturns ==
  /\ thread = "app"
  /\ thread' = "loop" /\ DispatchEvents
  /\ UNCHANGED <<flags, callback, post_msgq, wake_event, result_sem, runtime, result,
                 request, ghosts, waits>>

\* native_api_on_event.
OnEvent ==
  /\ thread = "app"
  /\ callback' \in BOOLEAN
  /\ UNCHANGED <<thread, flags, queues, runtime, result, request, ghosts, waits>>

\* native_api_rtbus_post, called by the program or by
\* rtbus_post_wait_result, which presets the result variable before and calls
\* native_api_result_wait without a timeout after.
PostRequest ==
  /\ thread = "app" /\ request < MaxRequests
  /\ request' = request + 1
  /\ waits' \in BOOLEAN /\ result' = (IF waits' THEN 0 ELSE result)
  /\ busy' = busy + 1 /\ thread' = "put"
  /\ UNCHANGED <<handoff, suppressed, callback, queues, runtime, ghosts>>

Unbounded == TRUE                          \* defect: the queue has no limit
PutRoom   == Len(post_msgq) < PostDepth

PutMessage ==
  /\ thread = "put" /\ PutRoom
  /\ post_msgq' = Append(post_msgq, IF waits THEN request ELSE Unwaited) /\ thread' = "posted"
  /\ UNCHANGED <<flags, callback, event_msgq, wake_event, result_sem, runtime, result,
                 request, ghosts, waits>>

KeepBusy(n) == n                           \* defect: an early return keeps the count
Released(n) == n - 1

\* A payload that is too long, or a full queue: no wait follows.
RefuseMessage ==
  /\ thread = "put"
  /\ busy' = Released(busy) /\ thread' = "app" /\ waits' = FALSE
  /\ UNCHANGED <<handoff, suppressed, callback, queues, runtime, result, request, ghosts>>

EndPost ==
  /\ thread = "posted"
  /\ busy' = busy - 1 /\ thread' = (IF waits THEN "wait" ELSE "app") /\ waits' = FALSE
  /\ UNCHANGED <<handoff, suppressed, callback, queues, runtime, result, request, ghosts>>

\* The wait returns, and the program reads its result variable.
WaitReturns ==
  /\ thread = "wait" /\ result_sem = 1
  /\ result_sem' = 0 /\ thread' = "app"
  /\ misread' = (misread \/ result # request)
  /\ UNCHANGED <<flags, callback, post_msgq, event_msgq, wake_event, runtime, result,
                 request, upgrades, first, leftover, dropped, waits>>

\* native_api_serial_write, and native_api_serial_vprintf, whose formatting
\* is a first such section.
StartWrite ==
  /\ thread = "app" /\ ~suppressed
  /\ busy' = busy + 1 /\ thread' = "write"
  /\ UNCHANGED <<handoff, suppressed, callback, queues, runtime, result, request, ghosts, waits>>

EndWrite ==
  /\ thread = "write"
  /\ busy' = busy - 1 /\ thread' = "app"
  /\ UNCHANGED <<handoff, suppressed, callback, queues, runtime, result, request, ghosts, waits>>

\* native_api_k_delay: events are dispatched, then the loop waits for a wake
\* bit.  k_event_wait clears the bits when the wait starts, not when it ends.
StartDelay ==
  /\ thread = "app"
  /\ DispatchEvents /\ thread' = "delay"
  /\ UNCHANGED <<flags, callback, post_msgq, wake_event, result_sem, runtime, result,
                 request, ghosts, waits>>

DelayLoop ==
  /\ thread = "delay"
  /\ IF handoff THEN thread' = "app" /\ UNCHANGED wake_event
                ELSE thread' = "sleep" /\ wake_event' = {}
  /\ UNCHANGED <<flags, callback, post_msgq, event_msgq, result_sem, runtime, result,
                 request, ghosts, waits>>

DelayWoken ==
  /\ thread = "sleep" /\ wake_event # {}
  /\ IF "irq" \in wake_event THEN thread' \in {"delay", "app"} /\ DispatchEvents
                             ELSE thread' = "delay" /\ UNCHANGED event_msgq
  /\ UNCHANGED <<flags, callback, post_msgq, wake_event, result_sem, runtime, result,
                 request, ghosts, waits>>

DelayOver ==
  /\ thread \in {"delay", "sleep"} /\ (thread = "delay" => ~handoff)
  /\ thread' = "app" /\ DispatchEvents
  /\ UNCHANGED <<flags, callback, post_msgq, wake_event, result_sem, runtime, result,
                 request, ghosts, waits>>

-----------------------------------------------------------------------------
(***************************************************************************)
(* Stopping and starting, all from the runtime thread.                     *)
(***************************************************************************)

KeepSem  == result_sem                     \* defect: k_sem_reset is missing
ResetSem == 0

\* native_service_force_stop_thread.
ForceStop ==
  /\ callback' = FALSE
  /\ post_msgq' = <<>> /\ event_msgq' = 0 /\ wake_event' = {} /\ result_sem' = ResetSem

\* native_service_start: the thread is created if the image loads.  .data
\* and .bss are fresh.
Start ==
  /\ thread' \in {"none", "loop"}
  /\ result' = 0 /\ first' = request + 1 /\ misread' = FALSE /\ dropped' = FALSE
  /\ leftover' = (\E n \in DOMAIN bus : bus[n] \in Requests)

\* The first start; an image that does not load ends in a force stop.
Boot ==
  /\ rt = "boot"
  /\ rt' = "idle" /\ Start
  /\ IF thread' = "none" THEN ForceStop ELSE UNCHANGED <<callback, queues>>
  /\ UNCHANGED <<flags, drained, bus, request, upgrades, waits>>

\* The CLI task is sent a DFU command.
Command ==
  /\ rt # "boot" /\ upgrades < MaxUpgrades
  /\ bus' = Append(bus, DFU) /\ upgrades' = upgrades + 1
  /\ UNCHANGED <<thread, flags, callback, queues, rt, drained, result, request, first,
                 leftover, dropped, misread, waits>>

\* rtbus_process_async_posts: one message, posted inside the busy section.
DrainOne ==
  /\ rt = "idle" /\ post_msgq # <<>>
  /\ drained' = Head(post_msgq) /\ post_msgq' = Tail(post_msgq)
  /\ busy' = busy + 1 /\ rt' = "posting"
  /\ UNCHANGED <<thread, handoff, suppressed, callback, event_msgq, wake_event, result_sem,
                 bus, result, request, ghosts, waits>>

PostDrained ==
  /\ rt = "posting"
  /\ busy' = busy - 1 /\ rt' = "idle" /\ drained' = 0
  /\ \/ bus' = Append(bus, drained) /\ UNCHANGED dropped
     \/ dropped' = (dropped \/ drained # Unwaited) /\ UNCHANGED bus
  /\ UNCHANGED <<thread, handoff, suppressed, callback, queues, result, request,
                 upgrades, first, leftover, misread, waits>>

NoGive  == result_sem                      \* defect: the result is written only
GiveSem == 1

\* A handler serves a request: native_service_complete_result.  The address
\* is one of the program that posted it; in a later program it is another
\* variable, or the same.
Complete ==
  /\ rt = "idle" /\ bus # <<>> /\ Head(bus) \in Requests
  /\ bus' = Tail(bus)
  /\ \/ result' = Head(bus)
     \/ Head(bus) < first /\ UNCHANGED result
  /\ result_sem' = GiveSem /\ wake_event' = wake_event \cup {"process"}
  /\ UNCHANGED <<thread, flags, callback, post_msgq, event_msgq, rt, drained, request,
                 ghosts, waits>>

\* A request without a result.  A handler leaves one it does not know, or whose
\* size it does not accept, unanswered as well; programs wait for no such
\* request, as the wrappers of system/include post none.
Ignore ==
  /\ rt = "idle" /\ bus # <<>> /\ Head(bus) = Unwaited
  /\ bus' = Tail(bus)
  /\ UNCHANGED <<thread, flags, callback, queues, rt, drained, result, request, ghosts, waits>>

\* rtbus_cli_dfu_handler and native_service_request_stop_for_upgrade.
RequestStop ==
  /\ rt = "idle" /\ bus # <<>> /\ Head(bus) = DFU
  /\ bus' = Tail(bus) /\ rt' = "handoff"
  /\ handoff' = TRUE /\ suppressed' = TRUE /\ wake_event' = wake_event \cup {"process"}
  /\ thread' = IF thread = "parked" THEN "loop" ELSE thread
  /\ UNCHANGED <<busy, callback, post_msgq, event_msgq, result_sem, drained, result,
                 request, ghosts, waits>>

AnyTime == TRUE                            \* defect: the gate is open
Gate    == busy = 0

\* native_service_handoff_ram_for_patch polls the gate every 10 ms.
StopThread ==
  /\ rt = "handoff"
  /\ \/ thread = "none" /\ UNCHANGED <<thread, callback, queues>>
     \/ thread # "none" /\ Gate /\ thread' = "none" /\ ForceStop
  /\ rt' = "upgrade"
  /\ UNCHANGED <<flags, drained, bus, result, request, ghosts, waits>>

\* The gate stays shut for 2 s.  The command handler unmutes the console; the
\* handoff flag stays up.
StopTimeout ==
  /\ rt = "handoff" /\ thread # "none" /\ busy # 0
  /\ rt' = "idle" /\ suppressed' = FALSE
  /\ UNCHANGED <<thread, handoff, busy, callback, queues, drained, bus, result, request,
                 ghosts, waits>>

\* The transfer is over, or READY could not be written:
\* native_service_resume_after_upgrade.
Resume ==
  /\ rt = "upgrade"
  /\ handoff' = FALSE /\ busy' = 0 /\ suppressed' = FALSE
  /\ ForceStop /\ Start
  /\ rt' = "idle"
  /\ UNCHANGED <<drained, bus, request, upgrades, waits>>

\* native_service_emit_event, from a Bluetooth thread or a handler; a full
\* queue drops the event.
EmitEvent ==
  /\ event_msgq < EventDepth
  /\ event_msgq' = event_msgq + 1 /\ wake_event' = wake_event \cup {"irq"}
  /\ UNCHANGED <<thread, flags, callback, post_msgq, result_sem, runtime, result, request,
                 ghosts, waits>>

-----------------------------------------------------------------------------
Program ==
  \/ ThreadLoop \/ AppReturns \/ OnEvent
  \/ PostRequest \/ PutMessage \/ RefuseMessage \/ EndPost \/ WaitReturns
  \/ StartWrite \/ EndWrite
  \/ StartDelay \/ DelayLoop \/ DelayWoken \/ DelayOver

Runtime ==
  \/ Boot \/ DrainOne \/ PostDrained \/ Complete \/ Ignore
  \/ RequestStop \/ StopThread \/ StopTimeout \/ Resume

Next == Program \/ Runtime \/ Command \/ EmitEvent

\* The runtime thread runs, and the kernel wakes a thread whose semaphore is
\* given.
Spec == Init /\ [][Next]_vars /\ WF_vars(Runtime) /\ WF_vars(WaitReturns)

-----------------------------------------------------------------------------
(***************************************************************************)
(* Properties.                                                             *)
(***************************************************************************)

\* The busy counter counts exactly the calls in a section that the handoff
\* must not cut: so it never sticks above zero, which would refuse every
\* later upgrade, and a transfer starts only with the program stopped.
BusyExact ==
  /\ busy = (IF thread \in Posting \cup {"write"} THEN 1 ELSE 0)
            + (IF rt = "posting" THEN 1 ELSE 0)
  /\ rt = "upgrade" => thread = "none"

\* A wait returns only with the answer to the program's own request, also
\* right after a restart, unless a request of the program before was still on
\* the bus when this one was started.
OwnAnswer == misread => leftover

\* A request that is waited for is answered, or the program is stopped, or
\* the bus refused that very request when the queue was drained.
RequestsAnswered == thread = "wait" ~> thread # "wait" \/ dropped
=============================================================================
