---------------------------- MODULE BleService ----------------------------
(***************************************************************************)
(* The BLE service (rtbus_ble.c): the task that serves the native          *)
(* program's requests on the runtime thread, and the callbacks that the    *)
(* Bluetooth threads run between any two steps of it.                      *)
(*                                                                         *)
(* Of the Bluetooth stack there is what the service sees of it, with the   *)
(* one connection object of the shipped configuration: advertising takes   *)
(* it, and its recycled callback comes from a work queue some time after   *)
(* it is free again.  The program advertises at first, and again after     *)
(* each recycled connection; otherwise it asks for what it likes.          *)
(* Advertising data, characteristic values and bonds are left out.         *)
(***************************************************************************)
EXTENDS Naturals, Sequences

CONSTANTS
  GattMax,      \* RTBUS_BLE_APP_GATT_MAX
  EventDepth,   \* NATIVE_EVENT_QUEUE_DEPTH
  MaxAsks,      \* bound: requests beside those to advertise
  MaxFaults,    \* bound: calls of the stack that fail
  MaxRestarts   \* bound: restarts of the program

ASSUME BleAssumption ==
  /\ GattMax \in Nat \ {0} /\ EventDepth \in Nat \ {0}
  /\ MaxAsks \in Nat /\ MaxFaults \in Nat /\ MaxRestarts \in Nat

VARIABLES
  ready,         \* rtbus_ble_ready
  advertising,   \* rtbus_ble_advertising
  current_conn,  \* rtbus_ble_current_conn: 0, or the address of the object
  gatts,         \* of each service of rtbus_ble_app_gatts: is it registered
  rt,            \* the runtime thread's place in rtbus_ble_process
  bus,           \* requests posted to the task
  enabled,       \* stack: bt_enable has succeeded
  conn,          \* stack: the connection object
  recycling,     \* stack: its recycled callback is due
  waiting,       \* the program waits for a result
  advertise,     \* the program has to ask for advertising
  event_msgq,    \* events for the program
  asks, faults, restarts,
  late,          \* ghost: a recycled callback came when the object was again
                 \* in use
  lost           \* ghost: a stack call of adv_start failed, an event that
                 \* asks for advertising was dropped, or a connection was made
                 \* before the advertising flag was set

service == <<ready, advertising, current_conn, gatts, rt>>
stack   == <<enabled, conn, recycling>>
program == <<waiting, advertise, event_msgq>>
bounds  == <<asks, faults, restarts>>
vars    == <<service, bus, stack, program, bounds, late, lost>>

Object   == 1
Kinds    == {"adv", "register", "use"}
Events   == {"connected", "failed", "disconnected", "recycled", "security"}
Starting == {"pre", "enable", "settings", "pending", "start", "started"}

TypeOK ==
  /\ {ready, advertising, enabled, recycling, waiting, advertise, late, lost}
       \subseteq BOOLEAN
  /\ current_conn \in {0, Object} /\ conn \in {"free", "adv", "up", "down"}
  /\ gatts \in Seq(BOOLEAN) /\ Len(gatts) <= GattMax
  /\ rt \in {"init", "idle"} \cup Starting
  /\ bus \in Seq(Kinds) /\ event_msgq \in Seq(Events) /\ Len(event_msgq) <= EventDepth
  /\ asks \in 0 .. MaxAsks /\ faults \in 0 .. MaxFaults /\ restarts \in 0 .. MaxRestarts

Init ==
  /\ ready = FALSE /\ advertising = FALSE /\ current_conn = 0 /\ gatts = <<>>
  /\ rt = "init" /\ bus = <<>>
  /\ enabled = FALSE /\ conn = "free" /\ recycling = FALSE
  /\ waiting = FALSE /\ advertise = TRUE /\ event_msgq = <<>>
  /\ asks = 0 /\ faults = 0 /\ restarts = 0 /\ late = FALSE /\ lost = FALSE

-----------------------------------------------------------------------------
(***************************************************************************)
(* The runtime thread: rtbus_ble_process.                                  *)
(***************************************************************************)

\* RTBUS_SYS_INIT, before any request: rtbus_ble_reset_app_state.
Reset ==
  /\ rt = "init"
  /\ rt' = "idle" /\ advertising' = FALSE /\ current_conn' = 0 /\ gatts' = <<>>
  /\ UNCHANGED <<ready, bus, stack, program, bounds, late, lost>>

Serve(kind) == rt = "idle" /\ bus # <<>> /\ Head(bus) = kind /\ bus' = Tail(bus)

\* A call of the stack that fails.
Fault == faults < MaxFaults /\ faults' = faults + 1

NoLimit == TRUE                            \* defect: the table has no limit
Room    == Len(gatts) < GattMax

\* rtbus_ble_app_gatt_notify_register_now: refused for its definition or for
\* want of room, or staged, and registered if the stack is ready.  A service
\* whose registration fails keeps its place.
Register ==
  /\ Serve("register") /\ waiting' = FALSE
  /\ \/ UNCHANGED <<gatts, faults>>
     \/ Room /\ gatts' = Append(gatts, ready) /\ UNCHANGED faults
     \/ Room /\ ready /\ gatts' = Append(gatts, FALSE) /\ Fault
  /\ UNCHANGED <<ready, advertising, current_conn, rt, stack, advertise, event_msgq,
                 asks, restarts, late, lost>>

\* A new value, notified to the peer of current_conn; a security level or
\* pairing for it; advertising data.  What these leave behind is data.
Use ==
  /\ Serve("use") /\ waiting' = FALSE
  /\ UNCHANGED <<service, stack, advertise, event_msgq, bounds, late, lost>>

\* rtbus_ble_adv_start_now.
AdvStart ==
  /\ Serve("adv")
  /\ rt' = IF ready THEN "pending" ELSE "pre"
  /\ UNCHANGED <<ready, advertising, current_conn, gatts, stack, program, bounds, late, lost>>

\* A step of adv_start whose stack call is refused ends it; its result goes
\* nowhere.
AdvGivesUp ==
  /\ rt' = "idle" /\ lost' = TRUE
  /\ UNCHANGED <<ready, advertising, current_conn, stack, bus, program, asks, restarts, late>>

\* rtbus_ble_app_gatt_register_pending.
RegisterPending ==
  /\ rt \in {"pre", "pending"}
  /\ \/ /\ gatts' = [n \in DOMAIN gatts |-> TRUE]
        /\ rt' = IF rt = "pre" THEN "enable" ELSE "start"
        /\ UNCHANGED <<ready, advertising, current_conn, stack, bus, program, bounds, late,
                       lost>>
     \/ \E k \in DOMAIN gatts :
          /\ ~gatts[k] /\ Fault
          /\ gatts' = [n \in DOMAIN gatts |-> gatts[n] \/ n < k]
          /\ AdvGivesUp

\* bt_enable refuses to be called again.
Enable ==
  /\ rt = "enable"
  /\ \/ /\ ~enabled
        /\ enabled' = TRUE /\ rt' = "settings"
        /\ UNCHANGED <<ready, advertising, current_conn, gatts, conn, recycling, bus,
                       program, bounds, late, lost>>
     \/ Fault /\ AdvGivesUp /\ UNCHANGED gatts
     \/ enabled /\ AdvGivesUp /\ UNCHANGED <<gatts, faults>>

\* The authentication callbacks, then settings_load.
LoadSettings ==
  /\ rt = "settings"
  /\ \/ /\ ready' = TRUE /\ rt' = "pending"
        /\ UNCHANGED <<advertising, current_conn, gatts, stack, bus, program, bounds, late,
                       lost>>
     \/ Fault /\ AdvGivesUp /\ UNCHANGED gatts

\* bt_le_adv_start needs the connection object.
StartAdvertising ==
  /\ rt = "start"
  /\ \/ /\ ~advertising /\ conn = "free"
        /\ conn' = "adv" /\ rt' = "started"
        /\ UNCHANGED <<ready, advertising, current_conn, gatts, enabled, recycling, bus,
                       program, bounds, late, lost>>
     \/ /\ advertising \/ conn # "free"
        /\ rt' = "idle"
        /\ UNCHANGED <<ready, advertising, current_conn, gatts, stack, bus, program, bounds,
                       late, lost>>
     \/ ~advertising /\ Fault /\ AdvGivesUp /\ UNCHANGED gatts

SetFlag ==
  /\ rt = "started"
  /\ advertising' = TRUE /\ rt' = "idle"
  /\ UNCHANGED <<ready, current_conn, gatts, bus, stack, program, bounds, late, lost>>

-----------------------------------------------------------------------------
(***************************************************************************)
(* The Bluetooth threads.                                                  *)
(***************************************************************************)

\* native_service_emit_event: a full queue drops the event.
Emit(event, missing) ==
  /\ event_msgq' = IF Len(event_msgq) < EventDepth THEN Append(event_msgq, event)
                                                   ELSE event_msgq
  /\ lost' = (lost \/ missing \/
                (Len(event_msgq) = EventDepth /\ event = "recycled"))

KeepFlag  == advertising                   \* defect: the flag is not cleared
ClearFlag == FALSE

\* rtbus_ble_connected, with and without an error.
Connected ==
  /\ conn = "adv"
  /\ advertising' = ClearFlag
  /\ \/ conn' = "up" /\ current_conn' = Object /\ Emit("connected", rt = "started")
     \/ conn' = "down" /\ current_conn' = 0 /\ Emit("failed", rt = "started")
  /\ UNCHANGED <<ready, gatts, rt, bus, enabled, recycling, waiting, advertise, bounds, late>>

StaleHandle   == current_conn              \* defect: the handle is kept
DroppedHandle == IF current_conn = Object THEN 0 ELSE current_conn

\* rtbus_ble_disconnected.
Disconnected ==
  /\ conn = "up"
  /\ conn' = "down" /\ current_conn' = DroppedHandle /\ late' = FALSE
  /\ Emit("disconnected", FALSE)
  /\ UNCHANGED <<ready, advertising, gatts, rt, bus, enabled, recycling, waiting, advertise,
                 bounds>>

\* The last reference to the object is dropped; a callback that is already
\* due is not queued twice.
Freed ==
  /\ conn = "down"
  /\ conn' = "free" /\ recycling' = TRUE
  /\ UNCHANGED <<service, bus, enabled, program, bounds, late, lost>>

\* rtbus_ble_recycled.
Recycled ==
  /\ recycling
  /\ recycling' = FALSE /\ current_conn' = 0 /\ late' = (late \/ conn = "up")
  /\ Emit("recycled", FALSE)
  /\ UNCHANGED <<ready, advertising, gatts, rt, bus, enabled, conn, waiting, advertise,
                 bounds>>

\* rtbus_ble_security_changed.
SecurityChanged ==
  /\ conn = "up"
  /\ Emit("security", FALSE)
  /\ UNCHANGED <<service, bus, stack, waiting, advertise, bounds, late>>

-----------------------------------------------------------------------------
(***************************************************************************)
(* The native program.                                                     *)
(***************************************************************************)

AskAdvertising ==
  /\ ~waiting /\ advertise
  /\ bus' = Append(bus, "adv") /\ advertise' = FALSE
  /\ UNCHANGED <<service, stack, waiting, event_msgq, bounds, late, lost>>

\* Any other request is waited for.
Ask ==
  /\ ~waiting /\ asks < MaxAsks
  /\ \E kind \in Kinds \ {"adv"} : bus' = Append(bus, kind)
  /\ waiting' = TRUE /\ asks' = asks + 1
  /\ UNCHANGED <<service, stack, advertise, event_msgq, faults, restarts, late, lost>>

DispatchEvent ==
  /\ ~waiting /\ ~advertise /\ event_msgq # <<>>
  /\ advertise' = (Head(event_msgq) = "recycled")
  /\ event_msgq' = Tail(event_msgq)
  /\ UNCHANGED <<service, bus, stack, waiting, bounds, late, lost>>

\* An upgrade: the program starts anew with an empty event queue; what it had
\* posted may still be served, but the service keeps its state.
Restart ==
  /\ rt = "idle" /\ restarts < MaxRestarts
  /\ restarts' = restarts + 1
  /\ waiting' = FALSE /\ advertise' = TRUE /\ event_msgq' = <<>> /\ bus' \in {bus, <<>>}
  /\ UNCHANGED <<service, stack, asks, faults, late, lost>>

-----------------------------------------------------------------------------
RuntimeThread ==
  \/ Reset \/ Register \/ Use \/ AdvStart \/ RegisterPending
  \/ Enable \/ LoadSettings \/ StartAdvertising \/ SetFlag
WorkQueue == Freed \/ Recycled
Program   == AskAdvertising \/ DispatchEvent
Peer      == Connected \/ Disconnected \/ SecurityChanged

Next == RuntimeThread \/ WorkQueue \/ Program \/ Peer \/ Ask \/ Restart

\* The runtime thread, the work queue and a program that is not waiting run;
\* nothing is asked of the peer.
Spec ==
  /\ Init /\ [][Next]_vars
  /\ WF_vars(RuntimeThread) /\ WF_vars(Program) /\ WF_vars(Freed) /\ WF_vars(Recycled)

-----------------------------------------------------------------------------
(***************************************************************************)
(* Properties.                                                             *)
(***************************************************************************)

\* The handle by which values are notified and security is requested is the
\* connection's exactly while it is up, so no call reaches an object that has
\* been dropped (connected, disconnected and recycled callbacks), except that
\* a late recycled callback takes the handle of the next connection away.
HandleExact == late \/ (current_conn = Object <=> conn = "up")

\* A program that asks for advertising after each connection can be connected
\* to again and again, across its own restarts, unless something was lost.
Reconnectable == []<>(conn \in {"adv", "up"} \/ lost)
=============================================================================
