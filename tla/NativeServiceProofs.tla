----------------------- MODULE NativeServiceProofs -----------------------
(***************************************************************************)
(* Proofs about NativeService: the busy counter is exact, a wait gets its  *)
(* own answer, and every queue and variable keeps within its bounds, for   *)
(* any depths and numbers of requests and upgrades.                        *)
(***************************************************************************)
EXTENDS NativeService, TLAPS

\* The counter is exact; an upgrade finds the program stopped; before the
\* first start there is no thread.
BusyInv ==
  /\ BusyExact
  /\ rt = "boot" => thread = "none"

\* At start-up nothing is in a section.
LEMMA BusyInit == Init => BusyInv
  BY DEF Init, BusyInv, BusyExact, Posting

\* The program's own steps: a section is entered with the counter raised and
\* left, by every path, with it lowered.  There is no such step while an
\* upgrade is under way, for there is no thread.
LEMMA BusyProgram == BusyInv /\ Program => BusyInv'
<1> SUFFICES ASSUME BusyInv, Program PROVE BusyInv'
  OBVIOUS
<1> USE DEF BusyInv, BusyExact, Posting, flags, runtime, queues
<1>1. CASE ThreadLoop \/ AppReturns \/ OnEvent
  BY <1>1 DEF ThreadLoop, AppReturns, OnEvent
<1>2. CASE PostRequest
  BY <1>2 DEF PostRequest
<1>3. CASE PutMessage
  BY <1>3 DEF PutMessage
<1>4. CASE RefuseMessage
  BY <1>4 DEF RefuseMessage, Released
<1>5. CASE EndPost
  BY <1>5 DEF EndPost
<1>6. CASE WaitReturns
  BY <1>6 DEF WaitReturns
<1>7. CASE StartWrite \/ EndWrite
  BY <1>7 DEF StartWrite, EndWrite
<1>8. CASE StartDelay \/ DelayLoop \/ DelayWoken \/ DelayOver
  BY <1>8 DEF StartDelay, DelayLoop, DelayWoken, DelayOver
<1> QED
  BY <1>1, <1>2, <1>3, <1>4, <1>5, <1>6, <1>7, <1>8 DEF Program

\* The runtime thread: the drain has a section of its own; the handoff stops
\* the thread only at zero, where it is in none; the restart's reset of the
\* counter finds it at zero already.
LEMMA BusyRuntime == BusyInv /\ Runtime => BusyInv'
<1> SUFFICES ASSUME BusyInv, Runtime PROVE BusyInv'
  OBVIOUS
<1> USE DEF BusyInv, BusyExact, Posting, flags, queues
<1>1. CASE Boot
  BY <1>1 DEF Boot, Start
<1>2. CASE DrainOne
  BY <1>2 DEF DrainOne
<1>3. CASE PostDrained
  BY <1>3 DEF PostDrained
<1>4. CASE Complete \/ Ignore
  BY <1>4 DEF Complete, Ignore
<1>5. CASE RequestStop
  BY <1>5 DEF RequestStop
<1>6. CASE StopThread
  BY <1>6 DEF StopThread, Gate
<1>7. CASE StopTimeout
  BY <1>7 DEF StopTimeout
<1>8. CASE Resume
  BY <1>8 DEF Resume, Start
<1> QED
  BY <1>1, <1>2, <1>3, <1>4, <1>5, <1>6, <1>7, <1>8 DEF Runtime

\* Every step keeps the counter exact.
LEMMA BusyStep == BusyInv /\ [Next]_vars => BusyInv'
<1> SUFFICES ASSUME BusyInv, [Next]_vars PROVE BusyInv'
  OBVIOUS
<1>1. CASE Program
  BY <1>1, BusyProgram
<1>2. CASE Runtime
  BY <1>2, BusyRuntime
<1>3. CASE Command \/ EmitEvent
  BY <1>3 DEF Command, EmitEvent, flags, runtime, BusyInv, BusyExact
<1>4. CASE UNCHANGED vars
  BY <1>4 DEF vars, flags, runtime, BusyInv, BusyExact
<1> QED
  BY <1>1, <1>2, <1>3, <1>4 DEF Next

\* The busy counter counts exactly the sections that the handoff must not
\* cut, and a transfer runs only with the program stopped
\* (native_service_handoff_ram_for_patch, native_api_rtbus_post,
\* rtbus_process_async_posts, native_service_resume_after_upgrade).
THEOREM BusyIsExact == Spec => []BusyExact
<1>1. BusyInv => BusyExact
  BY DEF BusyInv
<1> QED
  BY <1>1, BusyInit, BusyStep, PTL DEF Spec

-----------------------------------------------------------------------------
(***************************************************************************)
(* A wait returns the program's own answer.                                *)
(***************************************************************************)

\* The program has posted a request that it waits for, or is about to.
Asking == thread = "wait" \/ (thread = "posted" /\ waits)

\* No request is on its way: the three places are empty of requests.
NonePosted  == \A n \in DOMAIN post_msgq : post_msgq[n] \notin Requests
NoneDrained == drained \notin Requests
NoneOnBus   == \A n \in DOMAIN bus : bus[n] \notin Requests

\* A request on its way is the last one, which is waited for, is the only one
\* and has no answer yet; an answer that has been given is that request's.
OneAsked ==
  /\ \A n \in DOMAIN post_msgq : post_msgq[n] \in Requests =>
       /\ post_msgq[n] = request /\ NoneDrained /\ NoneOnBus
       /\ \A m \in DOMAIN post_msgq : post_msgq[m] \in Requests => m = n
  /\ drained \in Requests => drained = request /\ NonePosted /\ NoneOnBus
  /\ \A n \in DOMAIN bus : bus[n] \in Requests =>
       /\ bus[n] = request /\ NonePosted /\ NoneDrained
       /\ \A m \in DOMAIN bus : bus[m] \in Requests => m = n
  /\ ~(NonePosted /\ NoneDrained /\ NoneOnBus) => Asking /\ result_sem = 0
  /\ result_sem = 1 => Asking /\ result = request

AnswerTypes ==
  /\ post_msgq \in Seq(Nat) /\ bus \in Seq(Nat) /\ drained \in Nat
  /\ request \in Nat /\ first \in Nat /\ first <= request + 1 /\ result_sem \in {0, 1}
  /\ rt # "posting" => drained = 0
  /\ thread \in Posting \cup {"wait"} => first <= request
  /\ (thread \in Posting /\ waits) => request \in Requests
  /\ rt = "boot" => post_msgq = <<>> /\ result_sem = 0 /\ thread = "none"

\* leftover says that a request of the program before is on its way; then
\* nothing is promised to this one.  During an upgrade the program that asked
\* is gone.
AnswerInv ==
  /\ AnswerTypes
  /\ BusyInv
  /\ leftover \/ ((rt = "upgrade" \/ OneAsked) /\ ~misread)

\* What the queues do: the first message is taken, or one is added at the end.
LEMMA TakeFirst ==
  ASSUME NEW q \in Seq(Nat), q # <<>>
  PROVE  /\ Head(q) \in Nat /\ Tail(q) \in Seq(Nat)
         /\ 1 \in DOMAIN q /\ Head(q) = q[1]
         /\ \A n \in DOMAIN Tail(q) : n + 1 \in DOMAIN q /\ n + 1 # 1 /\ Tail(q)[n] = q[n + 1]
  OBVIOUS

\* What is added is last; the rest keeps its place.
LEMMA AddLast ==
  ASSUME NEW q \in Seq(Nat), NEW e \in Nat
  PROVE  /\ Append(q, e) \in Seq(Nat)
         /\ \A n \in DOMAIN Append(q, e) :
              \/ n \in DOMAIN q /\ Append(q, e)[n] = q[n]
              \/ n = Len(q) + 1 /\ Append(q, e)[n] = e
  OBVIOUS

\* At start-up nothing is asked.
LEMMA AnswerInit == Init => AnswerInv
<1> SUFFICES ASSUME Init PROVE AnswerInv
  OBVIOUS
<1>1. BusyInv
  BY BusyInit
<1>2. AnswerTypes
  BY DEF Init, AnswerTypes, Posting
<1>3. OneAsked /\ ~misread
  BY DEF Init, OneAsked, NonePosted, NoneDrained, NoneOnBus, Requests
<1> QED
  BY <1>1, <1>2, <1>3 DEF AnswerInv

\* Steps that move the program outside its requests, or touch none of this.
LEMMA AnswerAside ==
  ASSUME AnswerInv, BusyInv',
         UNCHANGED <<post_msgq, bus, drained, request, first, result_sem, result, waits,
                     leftover, misread>>,
         (~Asking /\ thread \notin Posting) \/ UNCHANGED thread,
         thread' \notin Posting \cup {"wait"} \/ UNCHANGED thread,
         thread # "none" \/ UNCHANGED thread,
         UNCHANGED rt
  PROVE  AnswerInv'
  BY DEF AnswerInv, AnswerTypes, OneAsked, Asking, Posting, NonePosted, NoneDrained,
         NoneOnBus

\* The program's own steps: it asks only when no request of its own is on its
\* way, and goes on only with the answer.
LEMMA AnswerProgram == AnswerInv /\ Program => AnswerInv'
<1> SUFFICES ASSUME AnswerInv, Program PROVE AnswerInv'
  OBVIOUS
<1>1. BusyInv'
  BY BusyProgram DEF AnswerInv
<1>2. rt # "upgrade" /\ UNCHANGED rt
  BY DEF AnswerInv, BusyInv, BusyExact, Program, Posting, ThreadLoop, AppReturns, OnEvent,
         PostRequest, PutMessage, RefuseMessage, EndPost, WaitReturns, StartWrite, EndWrite,
         StartDelay, DelayLoop, DelayWoken, DelayOver, runtime
<1>3. CASE PostRequest
  <2>1. AnswerTypes'
    BY <1>3, NativeAssumption DEF PostRequest, AnswerInv, AnswerTypes, Posting, Requests,
                                  runtime, queues, ghosts
  <2>2. OneAsked => OneAsked' /\ UNCHANGED misread
    BY <1>3 DEF PostRequest, OneAsked, Asking, NonePosted, NoneDrained, NoneOnBus, runtime,
                queues, ghosts
  <2> QED
    BY <1>1, <1>2, <1>3, <2>1, <2>2 DEF AnswerInv, PostRequest, ghosts
<1>4. CASE PutMessage
  <2> DEFINE message == IF waits THEN request ELSE Unwaited
  <2>1. message \in Nat /\ (message \in Requests => waits /\ message = request)
    BY <1>4, NativeAssumption DEF PutMessage, AnswerInv, AnswerTypes, Requests, Unwaited,
                                  Posting
  <2>2. post_msgq' = Append(post_msgq, message) /\ thread' = "posted"
    BY <1>4 DEF PutMessage
  <2>3. UNCHANGED <<bus, drained, request, first, result_sem, result, waits, leftover,
                    misread>>
    BY <1>4 DEF PutMessage, runtime, ghosts
  <2>4. AnswerTypes'
    BY <1>2, <1>4, <2>1, <2>2, <2>3 DEF PutMessage, AnswerInv, AnswerTypes, Posting
  <2>5. ASSUME OneAsked PROVE OneAsked'
    <3>1. NonePosted /\ NoneDrained /\ NoneOnBus /\ result_sem # 1
      BY <1>4, <2>5 DEF PutMessage, OneAsked, Asking
    <3>2. \A n \in DOMAIN post_msgq' : post_msgq'[n] \in Requests =>
            n = Len(post_msgq) + 1 /\ post_msgq'[n] = message
      BY <2>1, <2>2, <3>1 DEF NonePosted, AnswerInv, AnswerTypes
    <3>3. NoneDrained' /\ NoneOnBus'
      BY <2>3, <3>1 DEF NoneDrained, NoneOnBus
    <3>4. NonePosted' \/ Asking'
      BY <2>1, <2>2, <2>3, <3>2 DEF NonePosted, Asking
    <3>5. result_sem' = 0
      BY <2>3, <3>1 DEF AnswerInv, AnswerTypes
    <3> QED
      BY <2>1, <2>3, <3>2, <3>3, <3>4, <3>5 DEF OneAsked, NoneDrained, NoneOnBus
  <2> QED
    BY <1>1, <1>2, <2>3, <2>4, <2>5 DEF AnswerInv
<1>5. CASE RefuseMessage \/ EndPost
  <2>1. AnswerTypes'
    BY <1>5 DEF RefuseMessage, EndPost, AnswerInv, AnswerTypes, Posting, runtime, queues,
                ghosts
  <2>2. OneAsked => OneAsked' /\ UNCHANGED misread
    BY <1>5 DEF RefuseMessage, EndPost, OneAsked, Asking, NonePosted, NoneDrained, NoneOnBus,
                runtime, queues, ghosts
  <2> QED
    BY <1>1, <1>2, <1>5, <2>1, <2>2 DEF AnswerInv, RefuseMessage, EndPost, ghosts
<1>6. CASE WaitReturns
  <2>1. AnswerTypes'
    BY <1>6 DEF WaitReturns, AnswerInv, AnswerTypes, Posting, runtime, ghosts
  <2>2. OneAsked => OneAsked' /\ result = request
    BY <1>6 DEF WaitReturns, OneAsked, Asking, NonePosted, NoneDrained, NoneOnBus,
                runtime, ghosts
  <2>3. misread' <=> misread \/ result # request
    BY <1>6, Zenon DEF WaitReturns
  <2>4. leftover' <=> leftover
    BY <1>6 DEF WaitReturns
  <2>5. leftover \/ (OneAsked /\ ~misread)
    BY <1>2 DEF AnswerInv
  <2>6. leftover' \/ (OneAsked' /\ ~misread')
    BY <2>2, <2>3, <2>4, <2>5
  <2> QED
    BY <1>1, <2>1, <2>6 DEF AnswerInv
<1>7. CASE ThreadLoop \/ AppReturns \/ OnEvent \/ StartWrite \/ EndWrite
           \/ StartDelay \/ DelayLoop \/ DelayWoken \/ DelayOver
  <2>1. UNCHANGED <<post_msgq, bus, drained, request, first, result_sem, result, waits,
                    leftover, misread>>
    BY <1>7 DEF ThreadLoop, AppReturns, OnEvent, StartWrite, EndWrite, StartDelay, DelayLoop,
                DelayWoken, DelayOver, queues, runtime, ghosts
  <2>2. ~Asking /\ thread \notin Posting \cup {"none"} /\ thread' \notin Posting \cup {"wait"}
    BY <1>7 DEF ThreadLoop, AppReturns, OnEvent, StartWrite, EndWrite, StartDelay, DelayLoop,
                DelayWoken, DelayOver, Asking, Posting
  <2> QED
    BY <1>1, <1>2, <2>1, <2>2, AnswerAside
<1> QED
  BY <1>3, <1>4, <1>5, <1>6, <1>7 DEF Program

\* The thread is stopped only outside an upgrade's reach of it; the start
\* that follows finds every queue empty, as the first does, and notes what is
\* left on the bus.
LEMMA AnswerRuntime == AnswerInv /\ Runtime => AnswerInv'
<1> SUFFICES ASSUME AnswerInv, Runtime PROVE AnswerInv'
  OBVIOUS
<1>1. BusyInv'
  BY BusyRuntime DEF AnswerInv
<1>2. ASSUME Start, post_msgq' = <<>>, result_sem' = 0, drained' = 0,
             UNCHANGED <<bus, request>>, rt' = "idle"
      PROVE  AnswerInv'
  <2>1. AnswerTypes'
    BY <1>2 DEF Start, AnswerInv, AnswerTypes, Posting
  <2>2. leftover' <=> ~NoneOnBus'
    BY <1>2 DEF Start, NoneOnBus
  <2>3. NoneOnBus' => OneAsked'
    BY <1>2 DEF Start, OneAsked, NonePosted, NoneDrained, NoneOnBus, Requests
  <2>4. ~misread'
    BY <1>2 DEF Start
  <2> QED
    BY <1>1, <2>1, <2>2, <2>3, <2>4 DEF AnswerInv
<1>3. CASE Boot
  <2>1. post_msgq' = <<>> /\ result_sem' = 0
    BY <1>3 DEF Boot, ForceStop, ResetSem, AnswerInv, AnswerTypes, queues
  <2> QED
    BY <1>2, <1>3, <2>1 DEF Boot, AnswerInv, AnswerTypes
<1>4. CASE Resume
  <2>1. post_msgq' = <<>> /\ result_sem' = 0
    BY <1>4 DEF Resume, ForceStop, ResetSem
  <2> QED
    BY <1>2, <1>4, <2>1 DEF Resume, AnswerInv, AnswerTypes
<1>5. CASE DrainOne
  <2>1. post_msgq \in Seq(Nat) /\ post_msgq # <<>>
    BY <1>5 DEF DrainOne, AnswerInv, AnswerTypes
  <2>2. AnswerTypes'
    BY <1>5, <2>1, TakeFirst DEF DrainOne, AnswerInv, AnswerTypes, ghosts
  <2>3. ASSUME OneAsked PROVE OneAsked'
    <3>1. NoneDrained /\ (Head(post_msgq) \in Requests => NonePosted')
      BY <1>5, <2>1, <2>3, TakeFirst DEF DrainOne, AnswerInv, AnswerTypes, NonePosted,
           NoneDrained, OneAsked, Requests
    <3>2. Asking' = Asking /\ UNCHANGED <<bus, request, result_sem, result>>
      BY <1>5 DEF DrainOne, Asking, ghosts
    <3>3. drained' \in Requests => drained' = request /\ NonePosted' /\ NoneOnBus'
                                   /\ ~NonePosted
      BY <1>5, <2>1, <2>3, <3>1, TakeFirst DEF DrainOne, OneAsked, NonePosted, NoneOnBus
    <3>4. \A n \in DOMAIN post_msgq' : post_msgq'[n] \in Requests =>
             /\ n + 1 \in DOMAIN post_msgq /\ post_msgq'[n] = post_msgq[n + 1]
             /\ NoneDrained'
      BY <1>5, <2>1, <3>3, TakeFirst DEF DrainOne, NonePosted, NoneDrained
    <3> QED
      BY <2>1, <2>3, <3>1, <3>2, <3>3, <3>4 DEF OneAsked, NonePosted, NoneDrained, NoneOnBus
  <2> QED
    BY <1>1, <1>5, <2>2, <2>3 DEF AnswerInv, DrainOne, ghosts
<1>6. CASE PostDrained
  <2>1. bus \in Seq(Nat) /\ drained \in Nat
    BY DEF AnswerInv, AnswerTypes
  <2>2. AnswerTypes'
    <3>1. bus' \in Seq(Nat)
      BY <1>6, <2>1, AddLast DEF PostDrained
    <3>2. UNCHANGED <<post_msgq, result_sem, request, first, thread, waits>> /\ drained' = 0
          /\ rt' = "idle"
      BY <1>6 DEF PostDrained, queues
    <3> QED
      BY <3>1, <3>2 DEF AnswerInv, AnswerTypes, Posting
  <2>3. ASSUME OneAsked PROVE OneAsked'
    <3>1. Asking' = Asking /\ UNCHANGED <<post_msgq, request, result_sem, result>>
      BY <1>6 DEF PostDrained, Asking, queues
    <3>2. drained' \notin Requests
      BY <1>6 DEF PostDrained, Requests
    <3>3. \A n \in DOMAIN bus' : bus'[n] \in Requests =>
            \/ n \in DOMAIN bus /\ bus'[n] = bus[n] /\ ~NoneOnBus
            \/ n = Len(bus) + 1 /\ bus'[n] = drained /\ drained \in Requests
      BY <1>6, <2>1, AddLast DEF PostDrained, NoneOnBus
    <3>4. drained \in Requests => drained = request /\ NonePosted /\ NoneOnBus
      BY <2>3 DEF OneAsked
    <3>5. ~NoneOnBus => NoneDrained
      BY <3>4 DEF NoneDrained
    <3>6. \A n \in DOMAIN bus' : bus'[n] \in Requests =>
            /\ bus'[n] = request /\ NonePosted'
            /\ \A m \in DOMAIN bus' : bus'[m] \in Requests => m = n
      BY <2>3, <3>1, <3>3, <3>4, <3>5 DEF OneAsked, NonePosted, NoneDrained
    <3>7. ~NonePosted => NoneOnBus'
      BY <2>3, <3>3, <3>4 DEF OneAsked, NonePosted, NoneOnBus
    <3>8. ~NoneOnBus' => ~NoneOnBus \/ ~NoneDrained
      BY <3>3 DEF NoneOnBus, NoneDrained
    <3> QED
      BY <2>3, <3>1, <3>2, <3>6, <3>7, <3>8 DEF OneAsked, NonePosted, NoneDrained
  <2> QED
    BY <1>1, <1>6, <2>2, <2>3 DEF AnswerInv, PostDrained
<1>7. CASE Complete \/ Ignore \/ RequestStop
  <2>1. bus \in Seq(Nat) /\ bus # <<>> /\ bus' = Tail(bus)
    BY <1>7 DEF Complete, Ignore, RequestStop, AnswerInv, AnswerTypes
  <2>2. AnswerTypes'
    BY <1>7, <2>1, TakeFirst DEF Complete, Ignore, RequestStop, GiveSem, AnswerInv,
         AnswerTypes, Posting, queues, ghosts
  <2>3. ASSUME OneAsked PROVE OneAsked'
    <3>1. Asking' = Asking /\ UNCHANGED <<post_msgq, drained, request>>
      BY <1>7 DEF Complete, Ignore, RequestStop, Asking, queues
    <3>2. \A n \in DOMAIN bus' : bus'[n] \in Requests =>
            n + 1 \in DOMAIN bus /\ n + 1 # 1 /\ bus'[n] = bus[n + 1]
      BY <2>1, TakeFirst
    <3>3. CASE Complete
      <4>1. Head(bus) = request /\ NonePosted /\ NoneDrained /\ Asking /\ NoneOnBus'
        BY <2>1, <2>3, <3>2, <3>3, TakeFirst DEF Complete, OneAsked, NoneOnBus
      <4>2. result' = request
        BY <3>3, <4>1 DEF Complete, AnswerInv, AnswerTypes, Asking, Posting
      <4> QED
        BY <3>1, <4>1, <4>2 DEF OneAsked, NonePosted, NoneDrained, NoneOnBus
    <3>4. CASE Ignore \/ RequestStop
      <4>1. UNCHANGED <<result, result_sem>>
        BY <3>4 DEF Ignore, RequestStop, queues
      <4>2. NoneOnBus => NoneOnBus'
        BY <2>1, <3>2 DEF NoneOnBus
      <4>3. \A n \in DOMAIN bus' : bus'[n] \in Requests =>
              /\ bus'[n] = request /\ NonePosted /\ NoneDrained
              /\ \A m \in DOMAIN bus' : bus'[m] \in Requests => m = n
        BY <2>1, <2>3, <3>2, TakeFirst DEF OneAsked
      <4> QED
        BY <2>3, <3>1, <4>1, <4>2, <4>3 DEF OneAsked, NonePosted, NoneDrained
    <3> QED
      BY <1>7, <3>3, <3>4
  <2>4. UNCHANGED <<leftover, misread>> /\ rt # "upgrade"
    BY <1>7 DEF Complete, Ignore, RequestStop, ghosts
  <2> QED
    BY <1>1, <2>2, <2>3, <2>4 DEF AnswerInv
<1>8. CASE StopThread
  <2>1. UNCHANGED <<bus, drained, request, first, waits, leftover, misread>>
        /\ rt = "handoff" /\ rt' = "upgrade"
    BY <1>8 DEF StopThread, ghosts
  <2>2. post_msgq' \in Seq(Nat) /\ result_sem' \in {0, 1} /\ (thread' = "none" \/ thread' = thread)
    <3>1. \/ UNCHANGED <<thread, post_msgq, result_sem>>
          \/ thread' = "none" /\ post_msgq' = <<>> /\ result_sem' = 0
      BY <1>8 DEF StopThread, ForceStop, ResetSem, queues
    <3>2. post_msgq \in Seq(Nat) /\ result_sem \in {0, 1} /\ <<>> \in Seq(Nat)
      BY DEF AnswerInv, AnswerTypes
    <3> QED
      BY <3>1, <3>2
  <2>3. AnswerTypes'
    BY <2>1, <2>2 DEF AnswerInv, AnswerTypes, Posting
  <2> QED
    BY <1>1, <2>1, <2>3 DEF AnswerInv
<1>9. CASE StopTimeout
  <2>1. AnswerTypes' /\ (OneAsked => OneAsked')
    BY <1>9 DEF StopTimeout, AnswerInv, AnswerTypes, OneAsked, Asking, NonePosted,
                 NoneDrained, NoneOnBus, queues, ghosts
  <2> QED
    BY <1>1, <1>9, <2>1 DEF AnswerInv, StopTimeout, ghosts
<1> QED
  BY <1>3, <1>4, <1>5, <1>6, <1>7, <1>8, <1>9 DEF Runtime

\* Every step keeps the one request under way in one place.
LEMMA AnswerStep == AnswerInv /\ [Next]_vars => AnswerInv'
<1> SUFFICES ASSUME AnswerInv, [Next]_vars PROVE AnswerInv'
  OBVIOUS
<1>1. BusyInv'
  BY BusyStep DEF AnswerInv
<1>2. CASE Program
  BY <1>2, AnswerProgram
<1>3. CASE Runtime
  BY <1>3, AnswerRuntime
<1>4. CASE Command
  <2>1. AnswerTypes'
    BY <1>4, NativeAssumption DEF Command, DFU, AnswerInv, AnswerTypes, queues
  <2>2. OneAsked => OneAsked'
    BY <1>4, NativeAssumption DEF Command, DFU, AnswerInv, AnswerTypes, OneAsked, Asking,
         NonePosted, NoneDrained, NoneOnBus, queues, Requests
  <2> QED
    BY <1>1, <1>4, <2>1, <2>2 DEF AnswerInv, Command
<1>5. CASE EmitEvent \/ UNCHANGED vars
  <2>1. UNCHANGED <<thread, rt, post_msgq, bus, drained, request, first, result_sem, result,
                    waits, leftover, misread>>
    BY <1>5 DEF EmitEvent, vars, flags, queues, runtime, ghosts
  <2> QED
    BY <1>1, <2>1, AnswerAside
<1> QED
  BY <1>2, <1>3, <1>4, <1>5 DEF Next

\* A wait returns only with the answer to the program's own request, also
\* right after a restart, unless a request of the program before was still on
\* the bus when this one was started (native_service_complete_result,
\* native_service_force_stop_thread, native_api_result_wait).
THEOREM AnswerIsOwn == Spec => []OwnAnswer
<1>1. AnswerInv => OwnAnswer
  BY DEF AnswerInv, OwnAnswer
<1> QED
  BY <1>1, AnswerInit, AnswerStep, PTL DEF Spec

-----------------------------------------------------------------------------
(***************************************************************************)
(* The queues, the flags and the messages on their way.                    *)
(***************************************************************************)

\* The requests that have been posted so far, and what the queues may hold.
Posted(n)   == 1 .. n
InPosts(n)  == Posted(n) \cup {Unwaited}
OnBus(n)    == Posted(n) \cup {DFU, Unwaited}

\* The flags, and where the two threads are.
FlagTypes ==
  /\ thread \in {"none", "loop", "parked", "app"} \cup Calling
  /\ handoff \in BOOLEAN /\ suppressed \in BOOLEAN /\ callback \in BOOLEAN
  /\ waits \in BOOLEAN /\ leftover \in BOOLEAN /\ dropped \in BOOLEAN /\ misread \in BOOLEAN
  /\ wake_event \subseteq {"irq", "process"} /\ event_msgq \in 0 .. EventDepth
  /\ rt \in {"boot", "idle", "posting", "handoff", "upgrade"}
  /\ upgrades \in 0 .. MaxUpgrades

\* A message on its way is one of a request that has been posted: so is the
\* request whose completion wrote the result.
FlowTypes ==
  /\ request \in 0 .. MaxRequests /\ first >= 1 /\ result \in 0 .. request
  /\ post_msgq \in Seq(InPosts(request)) /\ Len(post_msgq) <= PostDepth
  /\ rt = "posting" => drained \in InPosts(request)
  /\ bus \in Seq(OnBus(request))

\* The two invariants above, and the bounds.
ServiceInv == AnswerInv /\ FlagTypes /\ FlowTypes

\* At start-up every queue is empty.
LEMMA ServiceInit == Init => ServiceInv
<1> SUFFICES ASSUME Init PROVE ServiceInv
  OBVIOUS
<1>1. FlagTypes
  <2>1. 0 \in 0 .. MaxUpgrades /\ 0 \in 0 .. EventDepth
    BY NativeAssumption
  <2>2. event_msgq \in 0 .. EventDepth /\ upgrades \in 0 .. MaxUpgrades
    BY <2>1, Zenon DEF Init
  <2> QED
    BY <2>2 DEF Init, FlagTypes
<1>2. FlowTypes
  <2>1. /\ <<>> \in Seq(InPosts(0)) /\ <<>> \in Seq(OnBus(0)) /\ Len(<<>>) <= PostDepth
        /\ 0 \in 0 .. MaxRequests /\ 0 \in 0 .. 0 /\ 1 >= 1
    BY NativeAssumption
  <2>2. /\ post_msgq \in Seq(InPosts(request)) /\ Len(post_msgq) <= PostDepth
        /\ bus \in Seq(OnBus(request))
    BY <2>1, Zenon DEF Init
  <2> QED
    BY <2>1, <2>2 DEF Init, FlowTypes
<1> QED
  BY <1>1, <1>2, AnswerInit DEF ServiceInv

\* The flags and places that no message depends on, when the program steps.
LEMMA FlagProgram ==
  ASSUME ServiceInv, Program
  PROVE  FlagTypes'
<1>0. 0 \in 0 .. EventDepth
  BY NativeAssumption
<1>1. FlagTypes
  BY DEF ServiceInv
<1> USE DEF Calling, Posting, flags, queues, runtime, ghosts
<1>2. CASE ThreadLoop \/ AppReturns \/ OnEvent
  BY <1>0, <1>1, <1>2 DEF FlagTypes, ThreadLoop, AppReturns, OnEvent, DispatchEvents
<1>3. CASE PostRequest \/ PutMessage \/ RefuseMessage \/ EndPost
  <2>1. /\ waits' \in BOOLEAN /\ thread' \in {"put", "posted", "app", "wait"}
        /\ UNCHANGED <<handoff, suppressed, callback, wake_event, event_msgq, rt, ghosts>>
    <3>1. CASE PostRequest
      BY <3>1 DEF PostRequest
    <3>2. CASE PutMessage
      BY <1>1, <3>2 DEF PutMessage, FlagTypes
    <3>3. CASE RefuseMessage
      BY <3>3 DEF RefuseMessage
    <3>4. CASE EndPost
      BY <3>4 DEF EndPost
    <3> QED
      BY <1>3, <3>1, <3>2, <3>3, <3>4
  <2> QED
    BY <1>1, <2>1 DEF FlagTypes
<1>4. CASE WaitReturns
  <2>1. misread' \in BOOLEAN
    BY <1>4 DEF WaitReturns
  <2> QED
    BY <1>1, <1>4, <2>1 DEF FlagTypes, WaitReturns
<1>5. CASE StartWrite \/ EndWrite
  BY <1>1, <1>5 DEF FlagTypes, StartWrite, EndWrite
<1>6. CASE StartDelay \/ DelayLoop \/ DelayWoken \/ DelayOver
  <2>1. /\ thread' \in {"delay", "app", "sleep"} /\ event_msgq' \in {event_msgq, 0}
        /\ wake_event' \in {wake_event, {}}
        /\ UNCHANGED <<handoff, suppressed, callback, rt, ghosts, waits>>
    <3>1. CASE StartDelay
      BY <3>1 DEF StartDelay, DispatchEvents
    <3>2. CASE DelayLoop
      BY <3>2 DEF DelayLoop
    <3>3. CASE DelayWoken
      BY <3>3 DEF DelayWoken, DispatchEvents
    <3>4. CASE DelayOver
      BY <3>4 DEF DelayOver, DispatchEvents
    <3> QED
      BY <1>6, <3>1, <3>2, <3>3, <3>4
  <2> QED
    BY <1>0, <1>1, <2>1 DEF FlagTypes
<1> QED
  BY <1>2, <1>3, <1>4, <1>5, <1>6 DEF Program

\* The flags and places, when the runtime thread, the console or an emitter
\* steps.
LEMMA FlagRest ==
  ASSUME ServiceInv, Runtime \/ Command \/ EmitEvent \/ UNCHANGED vars
  PROVE  FlagTypes'
<1>0. 0 \in 0 .. EventDepth
  BY NativeAssumption
<1>1. FlagTypes
  BY DEF ServiceInv
<1> USE DEF Calling, Posting, flags, queues, runtime, ghosts
<1>2. CASE Boot \/ Resume
  <2>1. /\ thread' \in {"none", "loop"} /\ callback' \in {FALSE, callback}
        /\ event_msgq' \in {0, event_msgq} /\ wake_event' \in {{}, wake_event}
        /\ misread' = FALSE /\ dropped' = FALSE /\ leftover' \in BOOLEAN
        /\ rt' = "idle" /\ UNCHANGED <<upgrades, waits>>
        /\ handoff' \in {handoff, FALSE} /\ suppressed' \in {suppressed, FALSE}
    BY <1>2 DEF Boot, Resume, Start, ForceStop
  <2> QED
    BY <1>0, <1>1, <2>1 DEF FlagTypes
<1>3. CASE DrainOne \/ PostDrained \/ Complete \/ Ignore \/ StopTimeout
  <2>1. /\ rt' \in {"posting", "idle"} /\ wake_event' \in {wake_event, wake_event \cup {"process"}}
        /\ UNCHANGED <<thread, handoff, callback, event_msgq, waits, upgrades, leftover, misread>>
    BY <1>3 DEF DrainOne, PostDrained, Complete, Ignore, StopTimeout
  <2>2. suppressed' \in BOOLEAN /\ dropped' \in BOOLEAN
    <3>1. CASE PostDrained
      <4>1. dropped' \in {TRUE, FALSE} \/ UNCHANGED dropped
        BY <3>1, Zenon DEF PostDrained
      <4>2. UNCHANGED suppressed
        BY <3>1 DEF PostDrained
      <4> QED
        BY <1>1, <4>1, <4>2 DEF FlagTypes
    <3>2. CASE DrainOne \/ Complete \/ Ignore
      BY <1>1, <3>2 DEF FlagTypes, DrainOne, Complete, Ignore
    <3>3. CASE StopTimeout
      BY <1>1, <3>3 DEF FlagTypes, StopTimeout
    <3> QED
      BY <1>3, <3>1, <3>2, <3>3
  <2> QED
    BY <1>1, <2>1, <2>2 DEF FlagTypes
<1>4. CASE RequestStop
  BY <1>1, <1>4 DEF FlagTypes, RequestStop
<1>5. CASE StopThread
  BY <1>0, <1>1, <1>5 DEF FlagTypes, StopThread, ForceStop
<1>6. CASE Command
  BY <1>1, <1>6, NativeAssumption DEF FlagTypes, Command
<1>7. CASE EmitEvent
  BY <1>1, <1>7, NativeAssumption DEF FlagTypes, EmitEvent
<1>8. CASE UNCHANGED vars
  BY <1>1, <1>8 DEF FlagTypes, vars
<1> QED
  BY <1>2, <1>3, <1>4, <1>5, <1>6, <1>7, <1>8 DEF Runtime

\* Queues of a larger set.
LEMMA SeqWider ==
  ASSUME NEW S, NEW T, S \subseteq T, NEW s \in Seq(S)
  PROVE  s \in Seq(T)
<1>1. s \in [1 .. Len(s) -> T] /\ Len(s) \in Nat
  OBVIOUS
<1> QED
  BY <1>1

\* The messages, when the program steps: it adds the request it has just posted,
\* and only to a queue with room.
LEMMA FlowProgram ==
  ASSUME ServiceInv, Program
  PROVE  FlowTypes'
<1>1. FlowTypes
  BY DEF ServiceInv
<1>2. CASE PostRequest
  <2>1. /\ request < MaxRequests /\ request' = request + 1 /\ result' \in {0, result}
        /\ UNCHANGED <<first, post_msgq, drained, bus, rt>>
    BY <1>2 DEF PostRequest, queues, runtime, ghosts
  <2>2. /\ request' \in 0 .. MaxRequests /\ result' \in 0 .. request'
        /\ Posted(request) \subseteq Posted(request')
    BY <1>1, <2>1, NativeAssumption DEF FlowTypes, Posted
  <2>3. InPosts(request) \subseteq InPosts(request') /\ OnBus(request) \subseteq OnBus(request')
    BY <2>2 DEF InPosts, OnBus
  <2>4. post_msgq \in Seq(InPosts(request')) /\ bus \in Seq(OnBus(request'))
    BY <1>1, <2>3, SeqWider DEF FlowTypes
  <2>5. rt' = "posting" => drained' \in InPosts(request')
    BY <1>1, <2>1, <2>3 DEF FlowTypes
  <2> QED
    BY <1>1, <2>1, <2>2, <2>4, <2>5 DEF FlowTypes
<1>3. CASE PutMessage
  <2> DEFINE message == IF waits THEN request ELSE Unwaited
  <2>1. /\ thread = "put" /\ Len(post_msgq) < PostDepth /\ post_msgq' = Append(post_msgq, message)
        /\ UNCHANGED <<request, result, first, drained, bus, rt>>
    BY <1>3 DEF PutMessage, PutRoom, queues, runtime, ghosts
  <2>2. message \in InPosts(request)
    BY <2>1 DEF ServiceInv, AnswerInv, AnswerTypes, Posting, InPosts, Posted, Requests
  <2> HIDE DEF message
  <2>3. post_msgq' \in Seq(InPosts(request)) /\ Len(post_msgq') = Len(post_msgq) + 1
        /\ Len(post_msgq) \in Nat
    BY <1>1, <2>1, <2>2 DEF FlowTypes
  <2>4. Len(post_msgq') <= PostDepth
    BY <2>1, <2>3, NativeAssumption
  <2> QED
    BY <1>1, <2>1, <2>3, <2>4 DEF FlowTypes
<1>4. CASE ~PostRequest /\ ~PutMessage
  <2>1. UNCHANGED <<request, result, first, post_msgq, drained, bus, rt>>
    BY <1>4 DEF Program, ThreadLoop, AppReturns, OnEvent, RefuseMessage, EndPost, WaitReturns,
           StartWrite, EndWrite, StartDelay, DelayLoop, DelayWoken, DelayOver, queues, runtime,
           ghosts
  <2> QED
    BY <1>1, <2>1 DEF FlowTypes
<1> QED
  BY <1>2, <1>3, <1>4

\* The messages, when the runtime thread, the console or an emitter steps: one
\* moves on, is served or is thrown away.
LEMMA FlowRest ==
  ASSUME ServiceInv, Runtime \/ Command \/ EmitEvent \/ UNCHANGED vars
  PROVE  FlowTypes'
<1>1. FlowTypes
  BY DEF ServiceInv
<1>2. /\ request \in Nat /\ 0 \in 0 .. request
      /\ <<>> \in Seq(InPosts(request)) /\ Len(<<>>) <= PostDepth
  BY <1>1, NativeAssumption DEF FlowTypes
<1>3. CASE Boot \/ Resume
  <2>1. /\ post_msgq' = <<>> \/ UNCHANGED post_msgq
        /\ result' = 0 /\ first' = request + 1
        /\ UNCHANGED <<drained, bus, request>> /\ rt' = "idle"
    BY <1>3 DEF Boot, Resume, Start, ForceStop, queues
  <2>2. post_msgq' \in Seq(InPosts(request)) /\ Len(post_msgq') <= PostDepth
    <3>1. CASE post_msgq' = <<>>
      BY <1>2, <3>1, Zenon
    <3>2. CASE UNCHANGED post_msgq
      BY <1>1, <3>2 DEF FlowTypes
    <3> QED
      BY <2>1, <3>1, <3>2
  <2>3. first' >= 1
    BY <1>2, <2>1
  <2> QED
    BY <1>1, <1>2, <2>1, <2>2, <2>3 DEF FlowTypes
<1>4. CASE DrainOne
  <2>1. /\ post_msgq # <<>> /\ drained' = Head(post_msgq) /\ post_msgq' = Tail(post_msgq)
        /\ UNCHANGED <<request, result, first, bus>>
    BY <1>4 DEF DrainOne, ghosts
  <2>2. /\ Head(post_msgq) \in InPosts(request) /\ Tail(post_msgq) \in Seq(InPosts(request))
        /\ Len(Tail(post_msgq)) = Len(post_msgq) - 1 /\ Len(post_msgq) \in Nat
    BY <1>1, <2>1 DEF FlowTypes
  <2>3. Len(Tail(post_msgq)) <= PostDepth
    BY <1>1, <2>2, NativeAssumption DEF FlowTypes
  <2> QED
    BY <1>1, <2>1, <2>2, <2>3 DEF FlowTypes
<1>5. CASE PostDrained
  <2>1. /\ rt = "posting" /\ rt' = "idle" /\ UNCHANGED <<request, result, first, post_msgq>>
        /\ (bus' = Append(bus, drained) \/ UNCHANGED bus)
    BY <1>5 DEF PostDrained, queues
  <2>2. drained \in OnBus(request)
    BY <1>1, <2>1 DEF FlowTypes, OnBus, InPosts
  <2> QED
    BY <1>1, <2>1, <2>2 DEF FlowTypes
<1>6. CASE Complete \/ Ignore \/ RequestStop
  <2>1. /\ bus # <<>> /\ bus' = Tail(bus) /\ UNCHANGED <<request, first, post_msgq, drained>>
        /\ rt' # "posting"
        /\ result' = result \/ (result' = Head(bus) /\ Head(bus) \in Requests)
    BY <1>6 DEF Complete, Ignore, RequestStop, queues, ghosts
  <2>2. Head(bus) \in OnBus(request) /\ Tail(bus) \in Seq(OnBus(request))
    BY <1>1, <2>1 DEF FlowTypes
  <2>3. Head(bus) \in Requests => Head(bus) \in 0 .. request
    BY <1>2, <2>2, NativeAssumption DEF OnBus, Posted, Requests, DFU, Unwaited
  <2> QED
    BY <1>1, <2>1, <2>2, <2>3 DEF FlowTypes
<1>7. CASE StopThread
  <2>1. /\ UNCHANGED <<request, result, first, drained, bus>> /\ rt' # "posting"
        /\ (post_msgq' = post_msgq \/ post_msgq' = <<>>)
    BY <1>7 DEF StopThread, ForceStop, queues, ghosts
  <2>2. post_msgq' \in Seq(InPosts(request)) /\ Len(post_msgq') <= PostDepth
    <3>1. CASE post_msgq' = post_msgq
      BY <1>1, <3>1 DEF FlowTypes
    <3>2. CASE post_msgq' = <<>>
      BY <1>2, <3>2, Zenon
    <3> QED
      BY <2>1, <3>1, <3>2
  <2> QED
    BY <1>1, <2>1, <2>2 DEF FlowTypes
<1>8. CASE Command
  <2>1. bus' = Append(bus, DFU) /\ UNCHANGED <<request, result, first, post_msgq, drained, rt>>
    BY <1>8 DEF Command, queues
  <2>2. DFU \in OnBus(request)
    BY DEF OnBus
  <2> QED
    BY <1>1, <2>1, <2>2 DEF FlowTypes
<1>9. CASE StopTimeout \/ EmitEvent \/ UNCHANGED vars
  <2>1. UNCHANGED <<request, result, first, post_msgq, drained, bus>>
        /\ (UNCHANGED rt \/ rt' # "posting")
    BY <1>9 DEF StopTimeout, EmitEvent, vars, queues, runtime, ghosts
  <2> QED
    BY <1>1, <2>1 DEF FlowTypes
<1> QED
  BY <1>3, <1>4, <1>5, <1>6, <1>7, <1>8, <1>9 DEF Runtime

\* Every step keeps the bounds.
LEMMA ServiceStep == ServiceInv /\ [Next]_vars => ServiceInv'
<1> SUFFICES ASSUME ServiceInv, [Next]_vars PROVE ServiceInv'
  OBVIOUS
<1>1. AnswerInv'
  BY AnswerStep DEF ServiceInv
<1>2. FlagTypes' /\ FlowTypes'
  BY FlagProgram, FlagRest, FlowProgram, FlowRest DEF Next
<1> QED
  BY <1>1, <1>2 DEF ServiceInv

\* The bounds of the invariant are those of TypeOK.
LEMMA ServiceMeansTypeOK == ServiceInv => TypeOK
<1> SUFFICES ASSUME ServiceInv PROVE TypeOK
  OBVIOUS
<1>1. FlagTypes /\ FlowTypes /\ BusyExact /\ AnswerTypes
  BY DEF ServiceInv, AnswerInv, BusyInv
<1>2. busy \in 0 .. 2
  BY <1>1 DEF BusyExact
<1>3. /\ first \in 1 .. request + 1 /\ result_sem \in {0, 1}
      /\ result \in 0 .. request /\ request \in 0 .. MaxRequests
  BY <1>1 DEF FlowTypes, AnswerTypes
<1>4. Posted(request) \subseteq Requests
  BY <1>1, NativeAssumption DEF FlowTypes, Posted, Requests
<1>5. Range(post_msgq) \subseteq Requests \cup {Unwaited}
  BY <1>1, <1>4 DEF FlowTypes, Range, InPosts
<1>6. Range(bus) \subseteq Requests \cup {DFU, Unwaited}
  BY <1>1, <1>4 DEF FlowTypes, Range, OnBus
<1>7. drained \in {0, Unwaited} \cup Requests /\ Len(post_msgq) <= PostDepth
  BY <1>1, <1>4 DEF FlowTypes, InPosts, AnswerTypes
<1>8. {handoff, suppressed, callback, waits, leftover, dropped, misread} \subseteq BOOLEAN
  BY <1>1 DEF FlagTypes
<1> QED
  BY <1>1, <1>2, <1>3, <1>5, <1>6, <1>7, <1>8 DEF TypeOK, FlagTypes

\* The queues of the native service keep within their depths, the busy counter
\* within the two threads that may raise it, and every message on its way, and
\* the result, is of a request that has been posted (native_api_rtbus_post,
\* rtbus_process_async_posts, native_service_emit_event,
\* native_service_complete_result).
THEOREM ServiceInBounds == Spec => []TypeOK
  BY ServiceInit, ServiceStep, ServiceMeansTypeOK, PTL DEF Spec
=============================================================================
