------------------------- MODULE BleServiceProofs -------------------------
(***************************************************************************)
(* Proofs about BleService: its types and the connection handle, for       *)
(* any table size, queue depth and number of faults and restarts.          *)
(***************************************************************************)
EXTENDS BleService, TLAPS

\* What HandleExact needs beside itself: the handle is 0 or the object, and
\* before the first request is served nothing has been advertised.
HandleInv ==
  /\ current_conn \in {0, Object}
  /\ rt = "init" => conn = "free"
  /\ HandleExact

LEMMA HandleInit == Init => HandleInv
  BY DEF Init, HandleInv, HandleExact, Object

\* The steps of the runtime thread leave handle and connection alone, but for
\* the reset, which comes before any advertising, and the start of
\* advertising, which takes a free object.
LEMMA HandleRuntime == HandleInv /\ RuntimeThread => HandleInv'
<1> SUFFICES ASSUME HandleInv, RuntimeThread PROVE HandleInv'
  OBVIOUS
<1> USE DEF HandleInv, HandleExact, Object
<1>1. CASE Reset
  BY <1>1 DEF Reset, stack
<1>2. CASE Register
  BY <1>2 DEF Register, Serve, stack
<1>3. CASE Use
  BY <1>3 DEF Use, Serve, stack, service
<1>4. CASE AdvStart
  BY <1>4 DEF AdvStart, Serve, stack
<1>5. CASE RegisterPending
  BY <1>5 DEF RegisterPending, AdvGivesUp, stack
<1>6. CASE Enable
  BY <1>6 DEF Enable, AdvGivesUp, stack
<1>7. CASE LoadSettings
  BY <1>7 DEF LoadSettings, AdvGivesUp, stack
<1>8. CASE StartAdvertising
  BY <1>8 DEF StartAdvertising, AdvGivesUp, stack
<1>9. CASE SetFlag
  BY <1>9 DEF SetFlag, stack
<1> QED
  BY <1>1, <1>2, <1>3, <1>4, <1>5, <1>6, <1>7, <1>8, <1>9 DEF RuntimeThread

\* The callbacks: the three that change the connection or the handle change
\* both, and the late recycled callback is noted.
LEMMA HandleCallbacks == HandleInv /\ (Peer \/ WorkQueue) => HandleInv'
<1> SUFFICES ASSUME HandleInv, Peer \/ WorkQueue PROVE HandleInv'
  OBVIOUS
<1> USE DEF HandleInv, HandleExact, Object
<1>1. CASE Connected
  BY <1>1 DEF Connected
<1>2. CASE Disconnected
  BY <1>2 DEF Disconnected, DroppedHandle
<1>3. CASE SecurityChanged
  BY <1>3 DEF SecurityChanged, stack, service
<1>4. CASE Freed
  BY <1>4 DEF Freed, service
<1>5. CASE Recycled
  BY <1>5 DEF Recycled
<1> QED
  BY <1>1, <1>2, <1>3, <1>4, <1>5 DEF Peer, WorkQueue

LEMMA HandleStep == HandleInv /\ [Next]_vars => HandleInv'
<1> SUFFICES ASSUME HandleInv, [Next]_vars PROVE HandleInv'
  OBVIOUS
<1>1. CASE RuntimeThread
  BY <1>1, HandleRuntime
<1>2. CASE Peer \/ WorkQueue
  BY <1>2, HandleCallbacks
<1>3. CASE Program \/ Ask \/ Restart
  BY <1>3 DEF Program, AskAdvertising, DispatchEvent, Ask, Restart, service, stack,
              HandleInv, HandleExact
<1>4. CASE UNCHANGED vars
  BY <1>4 DEF vars, service, stack, HandleInv, HandleExact
<1> QED
  BY <1>1, <1>2, <1>3, <1>4 DEF Next

\* The handle by which values are notified and security is requested is the
\* connection's exactly while it is up, late recycled callbacks apart
\* (rtbus_ble_connected, _disconnected, _recycled, _reset_app_state).
THEOREM HandleIsExact == Spec => []HandleExact
<1>1. HandleInv => HandleExact
  BY DEF HandleInv
<1> QED
  BY <1>1, HandleInit, HandleStep, PTL DEF Spec

-----------------------------------------------------------------------------
(***************************************************************************)
(* Types, and the limits of the table of services and the event queue.     *)
(***************************************************************************)

\* TypeOK in parts: the provers treat flags, numbers and sequences apart.
FlagTypes ==
  /\ {ready, advertising, enabled, recycling, waiting, advertise, late, lost}
       \subseteq BOOLEAN
  /\ current_conn \in {0, Object} /\ conn \in {"free", "adv", "up", "down"}
  /\ rt \in {"init", "idle"} \cup Starting

CountTypes ==
  asks \in 0 .. MaxAsks /\ faults \in 0 .. MaxFaults /\ restarts \in 0 .. MaxRestarts

QueueTypes ==
  /\ gatts \in Seq(BOOLEAN) /\ Len(gatts) <= GattMax
  /\ bus \in Seq(Kinds)
  /\ event_msgq \in Seq(Events) /\ Len(event_msgq) <= EventDepth

LEMMA TypeParts == TypeOK <=> FlagTypes /\ CountTypes /\ QueueTypes
  BY DEF TypeOK, FlagTypes, CountTypes, QueueTypes

LEMMA NoElements ==
  ASSUME NEW S
  PROVE  <<>> \in Seq(S) /\ Len(<<>>) = 0
  OBVIOUS

LEMMA TypeInit == Init => TypeOK
<1> SUFFICES ASSUME Init PROVE TypeOK
  OBVIOUS
<1>1. FlagTypes
  BY DEF Init, FlagTypes, Object
<1>2. CountTypes
  BY BleAssumption DEF Init, CountTypes
<1>3. QueueTypes
  BY BleAssumption, NoElements DEF Init, QueueTypes
<1> QED
  BY <1>1, <1>2, <1>3, TypeParts

\* A counter of a bound moves only below the bound.
LEMMA CountsStep == CountTypes /\ [Next]_vars => CountTypes'
<1> SUFFICES ASSUME CountTypes, [Next]_vars PROVE CountTypes'
  OBVIOUS
<1>1. asks' = asks \/ (asks < MaxAsks /\ asks' = asks + 1)
  BY DEF Next, RuntimeThread, WorkQueue, Program, Peer, Reset, Register, Use, AdvStart,
         RegisterPending, Enable, LoadSettings, StartAdvertising, SetFlag, AdvGivesUp,
         Connected, Disconnected, Freed, Recycled, SecurityChanged, AskAdvertising, Ask,
         DispatchEvent, Restart, vars, bounds
<1>2. faults' = faults \/ Fault
  BY DEF Next, RuntimeThread, WorkQueue, Program, Peer, Reset, Register, Use, AdvStart,
         RegisterPending, Enable, LoadSettings, StartAdvertising, SetFlag, AdvGivesUp,
         Connected, Disconnected, Freed, Recycled, SecurityChanged, AskAdvertising, Ask,
         DispatchEvent, Restart, vars, bounds
<1>3. restarts' = restarts \/ (restarts < MaxRestarts /\ restarts' = restarts + 1)
  BY DEF Next, RuntimeThread, WorkQueue, Program, Peer, Reset, Register, Use, AdvStart,
         RegisterPending, Enable, LoadSettings, StartAdvertising, SetFlag, AdvGivesUp,
         Connected, Disconnected, Freed, Recycled, SecurityChanged, AskAdvertising, Ask,
         DispatchEvent, Restart, vars, bounds
<1> QED
  BY <1>1, <1>2, <1>3, BleAssumption DEF CountTypes, Fault

LEMMA FlagsRuntime == FlagTypes /\ RuntimeThread => FlagTypes'
<1> SUFFICES ASSUME FlagTypes, RuntimeThread PROVE FlagTypes'
  OBVIOUS
<1> USE DEF FlagTypes, Starting
<1>1. CASE Reset
  BY <1>1 DEF Reset, stack, program
<1>2. CASE Register
  BY <1>2 DEF Register, Serve, stack
<1>3. CASE Use
  BY <1>3 DEF Use, Serve, stack, service
<1>4. CASE AdvStart
  BY <1>4 DEF AdvStart, Serve, stack, program
<1>5. CASE RegisterPending
  BY <1>5 DEF RegisterPending, AdvGivesUp, stack, program
<1>6. CASE Enable
  BY <1>6 DEF Enable, AdvGivesUp, stack, program
<1>7. CASE LoadSettings
  BY <1>7 DEF LoadSettings, AdvGivesUp, stack, program
<1>8. CASE StartAdvertising
  BY <1>8 DEF StartAdvertising, AdvGivesUp, stack, program
<1>9. CASE SetFlag
  BY <1>9 DEF SetFlag, stack, program
<1> QED
  BY <1>1, <1>2, <1>3, <1>4, <1>5, <1>6, <1>7, <1>8, <1>9 DEF RuntimeThread

LEMMA FlagsOthers ==
  ASSUME FlagTypes, Peer \/ WorkQueue \/ Program \/ Ask \/ Restart
  PROVE  FlagTypes'
<1> USE DEF FlagTypes
<1>1. CASE Peer
  BY <1>1 DEF Peer, Connected, ClearFlag, Disconnected, DroppedHandle, SecurityChanged,
              Emit, service, stack
<1>2. CASE WorkQueue
  BY <1>2 DEF WorkQueue, Freed, Recycled, Emit, service, program
<1>3. CASE Program
  BY <1>3 DEF Program, AskAdvertising, DispatchEvent, service, stack
<1>4. CASE Ask \/ Restart
  BY <1>4 DEF Ask, Restart, service, stack
<1> QED
  BY <1>1, <1>2, <1>3, <1>4

\* A request is served: the queue loses its first element, if anything.
LEMMA ShorterBus ==
  ASSUME bus \in Seq(Kinds), bus # <<>>
  PROVE  Tail(bus) \in Seq(Kinds)
  OBVIOUS

LEMMA OneMoreService ==
  ASSUME gatts \in Seq(BOOLEAN), Room, NEW b \in BOOLEAN
  PROVE  Append(gatts, b) \in Seq(BOOLEAN) /\ Len(Append(gatts, b)) <= GattMax
  BY BleAssumption DEF Room

LEMMA QueuesRuntime == TypeOK /\ RuntimeThread => QueueTypes'
<1> SUFFICES ASSUME FlagTypes, QueueTypes, RuntimeThread PROVE QueueTypes'
  BY TypeParts
<1> USE DEF QueueTypes
<1>1. CASE Reset
  BY <1>1, NoElements, BleAssumption DEF Reset, program
<1>2. CASE Register
  <2>1. gatts' = gatts \/ \E b \in BOOLEAN : Room /\ gatts' = Append(gatts, b)
    BY <1>2 DEF Register, FlagTypes
  <2>2. gatts' \in Seq(BOOLEAN) /\ Len(gatts') <= GattMax
    BY <2>1, OneMoreService
  <2>3. bus' \in Seq(Kinds)
    BY <1>2, ShorterBus DEF Register, Serve
  <2> QED
    BY <1>2, <2>2, <2>3 DEF Register
<1>3. CASE Use \/ AdvStart
  BY <1>3, ShorterBus DEF Use, AdvStart, Serve, service, program
<1>4. CASE RegisterPending
  <2>1. gatts' \in [1 .. Len(gatts) -> BOOLEAN]
    <3>1. DOMAIN gatts = 1 .. Len(gatts)
      OBVIOUS
    <3>2. CASE gatts' = [n \in DOMAIN gatts |-> TRUE]
      BY <3>1, <3>2
    <3>3. ASSUME NEW k \in DOMAIN gatts, gatts' = [n \in DOMAIN gatts |-> gatts[n] \/ n < k]
          PROVE  gatts' \in [1 .. Len(gatts) -> BOOLEAN]
      BY <3>1, <3>3
    <3> QED
      BY <1>4, <3>2, <3>3 DEF RegisterPending
  <2>2. gatts' \in Seq(BOOLEAN) /\ Len(gatts') = Len(gatts)
    BY <2>1
  <2> QED
    BY <1>4, <2>2 DEF RegisterPending, AdvGivesUp, program
<1>5. CASE Enable \/ LoadSettings \/ StartAdvertising \/ SetFlag
  BY <1>5 DEF Enable, LoadSettings, StartAdvertising, SetFlag, AdvGivesUp, program
<1> QED
  BY <1>1, <1>2, <1>3, <1>4, <1>5 DEF RuntimeThread

\* An event is added while there is room, and dropped otherwise.
LEMMA EmitKeepsQueue ==
  ASSUME QueueTypes, NEW event \in Events, NEW missing, Emit(event, missing)
  PROVE  event_msgq' \in Seq(Events) /\ Len(event_msgq') <= EventDepth
  BY BleAssumption DEF Emit, QueueTypes

LEMMA QueuesOthers ==
  ASSUME QueueTypes, Peer \/ WorkQueue \/ Program \/ Ask \/ Restart
  PROVE  QueueTypes'
<1>1. CASE Peer \/ Recycled
  <2>1. \E event \in Events : \E missing : Emit(event, missing)
    BY <1>1 DEF Peer, Connected, Disconnected, SecurityChanged, Recycled, Events
  <2>2. UNCHANGED <<gatts, bus>>
    BY <1>1 DEF Peer, Connected, Disconnected, SecurityChanged, Recycled, service
  <2> QED
    BY <2>1, <2>2, EmitKeepsQueue DEF QueueTypes
<1>2. CASE Freed
  BY <1>2 DEF Freed, QueueTypes, service, program
<1>3. CASE AskAdvertising
  BY <1>3 DEF AskAdvertising, Kinds, QueueTypes, service
<1>4. CASE DispatchEvent
  <2>1. event_msgq # <<>> /\ event_msgq' = Tail(event_msgq) /\ UNCHANGED <<gatts, bus>>
    BY <1>4 DEF DispatchEvent, service
  <2> QED
    BY <2>1, BleAssumption DEF QueueTypes
<1>5. CASE Ask
  BY <1>5 DEF Ask, QueueTypes, service
<1>6. CASE Restart
  <2>1. bus' \in Seq(Kinds)
    BY <1>6, NoElements DEF Restart, QueueTypes
  <2>2. event_msgq' = <<>> /\ UNCHANGED gatts
    BY <1>6 DEF Restart, service
  <2> QED
    BY <2>1, <2>2, NoElements, BleAssumption DEF QueueTypes
<1> QED
  BY <1>1, <1>2, <1>3, <1>4, <1>5, <1>6 DEF WorkQueue, Program

\* The variables keep their types; the table of services and the event queue
\* their limits (rtbus_ble_app_gatt_notify_register_now, emit_event).
THEOREM BleTypeCorrect == Spec => []TypeOK
<1>1. TypeOK /\ UNCHANGED vars => TypeOK'
  BY DEF TypeOK, vars, service, stack, program, bounds
<1>2. TypeOK /\ [Next]_vars => TypeOK'
  <2> SUFFICES ASSUME TypeOK, Next PROVE TypeOK'
    BY <1>1
  <2>1. FlagTypes /\ CountTypes /\ QueueTypes
    BY TypeParts
  <2>2. RuntimeThread \/ Peer \/ WorkQueue \/ Program \/ Ask \/ Restart
    BY DEF Next
  <2>3. CountTypes'
    BY <2>1, CountsStep
  <2>4. FlagTypes'
    BY <2>1, <2>2, FlagsRuntime, FlagsOthers
  <2>5. QueueTypes'
    BY <2>1, <2>2, QueuesRuntime, QueuesOthers
  <2> QED
    BY <2>3, <2>4, <2>5 DEF TypeOK, FlagTypes, CountTypes, QueueTypes
<1> QED
  BY <1>2, TypeInit, PTL DEF Spec
=============================================================================
