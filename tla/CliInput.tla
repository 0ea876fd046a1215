------------------------------ MODULE CliInput ------------------------------
(***************************************************************************)
(* Serial port 0 and the command line: the receive path and the ring       *)
(* (services/rtbus_serial.c), and the byte queue, the work item and the    *)
(* line interpreter of the CLI task (services/rtbus_cli.c).                *)
(*                                                                         *)
(* The receive callback runs in an interrupt, or on a cooperative work     *)
(* queue for USB, so a received byte is one step; it may come between any  *)
(* two steps of the work queue and of the runtime thread.  The prefix      *)
(* `@RTBUS:' is one byte here, and so is the text of a command.            *)
(***************************************************************************)
EXTENDS Naturals, Sequences, SequencesExt

CONSTANTS
  Bytes,      \* what the host sends
  RingMax,    \* CONFIG_RTBUS_RUNTIME_SERIAL_RX_BUFFER_SIZE
  QueueMax,   \* rtbus_cli_input_msgq
  LineMax,    \* RTBUS_CLI_LINE_MAX
  MaxLines,   \* bound: control lines the host sends
  MaxFails    \* bound: failed posts of the work handler

Commands == {"TEST", "DFU", "REBOOT"}

ASSUME CliAssumption ==
  /\ Bytes \subseteq Commands \cup {"@", "eol", "x"}
  /\ RingMax \in Nat \ {0, 1} /\ QueueMax \in Nat \ {0} /\ LineMax \in Nat \ {0, 1}
  /\ MaxLines \in Nat /\ MaxFails \in Nat

VARIABLES
  prepared,           \* port 0 receives
  control_line, control_active, control_overflow,
  port0_line_start,
  ring,               \* number of bytes for the program, or for YMODEM
  input_msgq,
  input_enabled,
  input_pending,
  work,               \* rtbus_cli_input_work: idle, queued, failed (its post)
  events,             \* RTBUS_CLI_INPUT events on the bus
  cli,                \* the CLI task: idle, drain, dfu, recv, clear, recheck
  cli_line,
  stream,             \* ghost: the YMODEM stream so far: none, open, whole, cut;
                      \* none as well if a control line was open at its start
  unserved,           \* ghost: the last wake-up of the CLI task was lost
  asked, ran,         \* ghost: per command, lines sent that end in it, handlers run
  fails               \* ghost: failed posts so far

router  == <<control_line, control_active, control_overflow, port0_line_start>>
wakeup  == <<input_pending, work, events>>
task    == <<cli, cli_line, input_enabled>>
ghosts  == <<stream, unserved, asked, ran, fails>>
vars    == <<prepared, router, ring, input_msgq, wakeup, task, ghosts>>

Lines    == Commands \cup {"other"}
Total(f) == f["TEST"] + f["DFU"] + f["REBOOT"] + f["other"]

TypeOK ==
  /\ {prepared, control_active, control_overflow, port0_line_start,
      input_enabled, unserved} \subseteq BOOLEAN
  /\ Len(control_line) < LineMax /\ Len(cli_line) < LineMax
  /\ ring \in 0 .. RingMax - 1 /\ Len(input_msgq) <= QueueMax
  /\ input_pending \in {0, 1} /\ events \in {0, 1}
  /\ work \in {"idle", "queued", "failed"}
  /\ cli \in {"idle", "drain", "dfu", "recv", "clear", "recheck"}
  /\ input_enabled = (cli \notin {"dfu", "recv"})
  /\ stream \in {"none", "open", "whole", "cut"} /\ fails \in 0 .. MaxFails
  /\ asked \in [Lines -> 0 .. MaxLines] /\ ran \in [Commands -> 0 .. MaxLines]

Init ==
  /\ prepared = FALSE
  /\ control_line = <<>> /\ control_active = FALSE /\ control_overflow = FALSE
  /\ port0_line_start = TRUE
  /\ ring = 0 /\ input_msgq = <<>> /\ input_enabled = TRUE
  /\ input_pending = 0 /\ work = "idle" /\ events = 0
  /\ cli = "idle" /\ cli_line = <<>>
  /\ stream = "none" /\ unserved = FALSE /\ fails = 0
  /\ asked = [l \in Lines |-> 0] /\ ran = [c \in Commands |-> 0]

-----------------------------------------------------------------------------
(***************************************************************************)
(* The port: rtbus_runtime_serial_start at start-up, or                    *)
(* rtbus_runtime_serial_begin on demand, enable reception; either may      *)
(* fail.  Then the receive callback, byte by byte.                         *)
(***************************************************************************)

PreparePort ==
  /\ ~prepared
  /\ prepared' = TRUE
  /\ UNCHANGED <<router, ring, input_msgq, wakeup, task, ghosts>>

\* rtbus_runtime_serial_rx_put: a full ring loses its oldest byte.
NeverFull == FALSE                         \* defect: the ring overtakes its tail
RingFull  == ring = RingMax - 1
PutRing   == ring' = IF RingFull THEN ring ELSE ring + 1

\* rtbus_cli_submit_byte for each byte of a line.  Bytes that do not fit are
\* dropped; the first one queued raises the flag and submits the work item.
KeepEnd(s, n) ==                           \* defect: a cut line is ended
  IF n < Len(s) THEN SubSeq(s, 1, n - 1) \o <<"eol">> ELSE s
FirstOf(s, n) == SubSeq(s, 1, IF n < Len(s) THEN n ELSE Len(s))

Submit(line) ==
  LET bytes == IF input_enabled THEN FirstOf(line, QueueMax - Len(input_msgq)) ELSE <<>> IN
  /\ input_msgq' = input_msgq \o bytes
  /\ IF bytes # <<>> /\ input_pending = 0
     THEN input_pending' = 1 /\ work' = "queued" /\ unserved' = FALSE
     ELSE UNCHANGED <<input_pending, work, unserved>>

CommandOf(line) == IF Len(line) = 2 /\ line[1] = "@" /\ line[2] \in Commands
                   THEN line[2] ELSE "other"

LastOf(line, n) == SubSeq(line, IF n < Len(line) THEN Len(line) - n + 1 ELSE 1, Len(line))

EndControlLine(line) ==
  IF control_overflow THEN UNCHANGED <<input_msgq, input_pending, work, unserved>>
                      ELSE Submit(Append(line, "eol"))

\* rtbus_runtime_serial_route_port0_byte and _submit_control_line.
ControlByte(byte) ==
  /\ control_active
  /\ IF byte = "eol"
     THEN /\ EndControlLine(control_line)
          /\ control_line' = <<>> /\ control_active' = FALSE /\ control_overflow' = FALSE
          /\ port0_line_start' = TRUE
          /\ Total(asked) < MaxLines
          /\ asked' = [asked EXCEPT ![IF control_overflow THEN "other"
                                      ELSE CommandOf(LastOf(control_line, 2))] = @ + 1]
     ELSE /\ IF Len(control_line) < LineMax - 1
             THEN control_line' = Append(control_line, byte) /\ UNCHANGED control_overflow
             ELSE control_overflow' = TRUE /\ UNCHANGED control_line
          /\ UNCHANGED <<control_active, port0_line_start, input_msgq, input_pending, work,
                         unserved, asked>>
  /\ UNCHANGED ring

StartControlLine(byte) ==
  /\ ~control_active /\ port0_line_start /\ byte = "@"
  /\ control_active' = TRUE /\ port0_line_start' = FALSE
  /\ control_line' = <<"@">> /\ control_overflow' = FALSE
  /\ UNCHANGED <<ring, input_msgq, input_pending, work, unserved, asked>>

PlainByte(byte) ==
  /\ ~control_active /\ ~(port0_line_start /\ byte = "@")
  /\ port0_line_start' = (byte = "eol")
  /\ PutRing
  /\ UNCHANGED <<control_line, control_active, control_overflow, input_msgq,
                 input_pending, work, unserved, asked>>

\* A YMODEM stream starts with a frame header, which is neither `@' nor the
\* end of a line.
Receive(byte) ==
  /\ prepared
  /\ stream = "open" => byte = "x"
  /\ ControlByte(byte) \/ StartControlLine(byte) \/ PlainByte(byte)
  /\ stream' = IF stream \in {"open", "whole"}
               THEN IF control_active' THEN "cut" ELSE "whole"
               ELSE stream
  /\ UNCHANGED <<prepared, events, task, ran, fails>>

\* The program, or the YMODEM receiver, takes a byte.
ReadRing ==
  /\ ring > 0
  /\ ring' = ring - 1
  /\ UNCHANGED <<prepared, router, input_msgq, wakeup, task, ghosts>>

-----------------------------------------------------------------------------
(***************************************************************************)
(* The work item posts RTBUS_CLI_INPUT to the CLI task.                    *)
(***************************************************************************)

PostInput ==
  /\ work = "queued"
  /\ \/ work' = "idle" /\ events' = events + 1 /\ UNCHANGED fails
     \/ fails < MaxFails /\ work' = "failed" /\ fails' = fails + 1 /\ UNCHANGED events
  /\ UNCHANGED <<prepared, router, ring, input_msgq, input_pending, task, stream,
                 unserved, asked, ran>>

KeepPending(flag)  == flag                 \* defect: a failed post keeps the flag
ClearPending(flag) == 0

GiveUpPost ==
  /\ work = "failed"
  /\ work' = "idle" /\ input_pending' = ClearPending(input_pending) /\ unserved' = TRUE
  /\ UNCHANGED <<prepared, router, ring, input_msgq, events, task, stream, asked, ran,
                 fails>>

-----------------------------------------------------------------------------
(***************************************************************************)
(* The CLI task, rtbus_cli_process_input.                                  *)
(***************************************************************************)

StartDrain ==
  /\ cli = "idle" /\ events > 0
  /\ events' = events - 1 /\ cli' = "drain"
  /\ UNCHANGED <<prepared, router, ring, input_msgq, input_pending, work, cli_line,
                 input_enabled, ghosts>>

\* rtbus_cli_process_byte: a line that is too long is dropped together with
\* the byte that did not fit.
CollectByte ==
  /\ cli = "drain" /\ input_msgq # <<>> /\ Head(input_msgq) # "eol"
  /\ input_msgq' = Tail(input_msgq)
  /\ cli_line' = IF Len(cli_line) < LineMax - 1 THEN Append(cli_line, Head(input_msgq))
                 ELSE <<>>
  /\ UNCHANGED <<prepared, router, ring, wakeup, cli, input_enabled, ghosts>>

\* rtbus_cli_dispatch_line; REBOOT is next.
Dispatch ==
  /\ cli = "drain" /\ input_msgq # <<>> /\ Head(input_msgq) = "eol"
  /\ CommandOf(cli_line) # "REBOOT"
  /\ input_msgq' = Tail(input_msgq) /\ cli_line' = <<>>
  /\ ran' = [c \in Commands |-> ran[c] + (IF c = CommandOf(cli_line) THEN 1 ELSE 0)]
  /\ IF CommandOf(cli_line) = "DFU"
     THEN cli' = "dfu" /\ input_enabled' = FALSE
     ELSE UNCHANGED <<cli, input_enabled>>
  /\ UNCHANGED <<prepared, router, ring, wakeup, stream, unserved, asked, fails>>

\* rtbus_cli_reboot_handler: RAM starts anew.
Reboot ==
  /\ cli = "drain" /\ input_msgq # <<>> /\ Head(input_msgq) = "eol"
  /\ CommandOf(cli_line) = "REBOOT"
  /\ ran' = [ran EXCEPT !["REBOOT"] = @ + 1]
  /\ prepared' = FALSE
  /\ control_line' = <<>> /\ control_active' = FALSE /\ control_overflow' = FALSE
  /\ port0_line_start' = TRUE
  /\ ring' = 0 /\ input_msgq' = <<>> /\ input_enabled' = TRUE
  /\ input_pending' = 0 /\ work' = "idle" /\ events' = 0
  /\ cli' = "idle" /\ cli_line' = <<>> /\ stream' = "none" /\ unserved' = FALSE
  /\ UNCHANGED <<asked, fails>>

\* rtbus_cli_dfu_handler: the native program is stopped, the ring is emptied
\* and YMODEM reads it; or the stop, or the READY line, fails.
StartRecv ==
  /\ cli = "dfu"
  /\ \/ /\ cli' = "recv" /\ ring' = 0
        /\ stream' = IF control_active THEN "none" ELSE "open"
        /\ UNCHANGED input_enabled
     \/ cli' = "drain" /\ input_enabled' = TRUE /\ UNCHANGED <<ring, stream>>
  /\ UNCHANGED <<prepared, router, input_msgq, wakeup, cli_line, unserved, asked, ran,
                 fails>>

EndRecv ==
  /\ cli = "recv"
  /\ cli' = "drain" /\ input_enabled' = TRUE /\ stream' = "none"
  /\ UNCHANGED <<prepared, router, ring, input_msgq, wakeup, cli_line, unserved, asked,
                 ran, fails>>

\* The queue was found empty; the flag is cleared; the queue is looked at
\* once more.
FoundEmpty ==
  /\ cli = "drain" /\ input_msgq = <<>>
  /\ cli' = "clear"
  /\ UNCHANGED <<prepared, router, ring, input_msgq, wakeup, cli_line, input_enabled, ghosts>>

ClearFlag ==
  /\ cli = "clear"
  /\ input_pending' = 0 /\ cli' = "recheck"
  /\ UNCHANGED <<prepared, router, ring, input_msgq, work, events, cli_line,
                 input_enabled, ghosts>>

NoRecheck     == FALSE                     \* defect: the second look is missing
SecondWakeup  == input_msgq # <<>> /\ input_pending = 0

Recheck ==
  /\ cli = "recheck"
  /\ cli' = "idle"
  /\ IF SecondWakeup
     THEN input_pending' = 1 /\ work' = "queued" /\ unserved' = FALSE
     ELSE UNCHANGED <<input_pending, work, unserved>>
  /\ UNCHANGED <<prepared, router, ring, input_msgq, events, cli_line, input_enabled,
                 stream, asked, ran, fails>>

-----------------------------------------------------------------------------
WorkQueue == PostInput \/ GiveUpPost

CliTask ==
  \/ StartDrain \/ CollectByte \/ Dispatch \/ Reboot \/ StartRecv \/ EndRecv
  \/ FoundEmpty \/ ClearFlag \/ Recheck

Next ==
  \/ \E byte \in Bytes : Receive(byte)
  \/ PreparePort \/ ReadRing \/ WorkQueue \/ CliTask

\* The work queue and the runtime thread run; a transfer ends (see Ymodem).
Spec == Init /\ [][Next]_vars /\ WF_vars(WorkQueue) /\ WF_vars(CliTask)

-----------------------------------------------------------------------------
(***************************************************************************)
(* Properties.                                                             *)
(***************************************************************************)

\* The pending flag is up exactly while one wake-up of the CLI task is under
\* way: a queued work item, an event on the bus, or the task before its
\* second look.  So there is never a second event, and the flag never sticks.
OneWakeup ==
  input_pending = (IF work = "idle" THEN 0 ELSE 1) + events
                  + (IF cli \in {"drain", "dfu", "recv", "clear"} THEN 1 ELSE 0)

\* A command runs only for a line the host sent and ended with that command,
\* once for each: bytes dropped where the queue or a line buffer is full never
\* make a command of what is left.
RunsAsAsked == \A c \in Commands : ran[c] <= asked[c]

\* Bytes of a command do not wait in the queue for ever, unless the post that
\* announces them failed: then they wait for the next byte.
InputServed == input_msgq # <<>> ~> input_msgq = <<>> \/ unserved

\* README.md on @RTBUS:DFU=APP: the image is received by YMODEM on port 0.
\* No byte of its stream is taken away by the control line router.
StreamWhole == stream # "cut"
=============================================================================
