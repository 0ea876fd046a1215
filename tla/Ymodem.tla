------------------------------- MODULE Ymodem -------------------------------
(***************************************************************************)
(* One image upload: the YMODEM receiver of the runtime                    *)
(* (services/rtbus_ymodem.c), with the status line its command handler     *)
(* prints, and the sender on the host (system/ymodem_upload.c), joined by  *)
(* a serial line that loses bytes.                                         *)
(*                                                                         *)
(* A frame that loses bytes reaches the receiver as stray bytes: what is   *)
(* left of it is read as if each byte were the head of a frame, and any    *)
(* payload byte may look like EOT or CAN.  CRCs catch every other damage.  *)
(* The sender never repeats a frame: it answers silence and CAN by giving  *)
(* up, and passes over NAK.  A block stands for its 1024 bytes.            *)
(***************************************************************************)
EXTENDS Naturals, Sequences, FiniteSets

CONSTANTS
  Sizes,      \* file sizes in blocks; 0 is the empty header of other senders
  BlockMod,   \* block numbers wrap here (256)
  MaxFaults,  \* bound: faults of the line
  MaxStrays,  \* bound: stray bytes a damaged frame leaves
  MaxReady    \* bound: 'C's on the line that ask for the first frame

ASSUME YmodemAssumption ==
  /\ Sizes \subseteq Nat /\ BlockMod \in Nat \ {0, 1}
  /\ MaxFaults \in Nat /\ MaxStrays \in Nat /\ MaxReady \in Nat \ {0}

VARIABLES
  toRecv, toSend,     \* what the line carries, either way
  rpc,                \* the receiver: start, header, begin, returned
  got_metadata, eot_seen, store_active,
  expected_size,      \* in blocks
  expected_block,
  stored,             \* the blocks the image store was given
  rc,                 \* what rtbus_ymodem_recv returned: none, ok, error
  spc,                \* the sender: what it waits for, or how it ended
  size, sent, block_no, \* the sender's size, offset and block_no
  faults,
  trouble,            \* ghost: a fault, a timeout or a store error happened
  false_eots          \* ghost: bytes left of damaged frames that look like EOT

receiver == <<rpc, got_metadata, eot_seen, store_active, expected_size, expected_block,
              stored, rc>>
sender   == <<spc, size, sent, block_no>>
line     == <<faults, false_eots>>
vars     == <<toRecv, toSend, receiver, sender, line, trouble>>

WideNo(no) == no + 1                       \* defect: wider than a byte
NextNo(no) == (no + 1) % BlockMod

\* A packet with a block of the file, or with none (what = 0), and the sizes
\* that ymodem_parse_file_size may read in it.
Packet(no, what, sizes) == [kind |-> "packet", no |-> no, what |-> what, sizes |-> sizes]
Metadata       == Packet(0, 0, {size})
Final          == Packet(0, 0, {0})
Block(no, what) == Packet(no, what, Sizes \cup {0})

Stray(kind) == [kind |-> kind, no |-> 0, what |-> 0, sizes |-> {}]
Eot         == Stray("EOT")
\* junk: no header byte, or a packet that fails its checks.
Strays    == {Stray(kind) : kind \in {"EOT", "CAN", "junk"}}
StrayRuns == UNION {[1 .. n -> Strays] : n \in 0 .. MaxStrays}
EotsIn(run) == Cardinality({k \in 1 .. Len(run) : run[k] = Eot})

Frames == Strays \cup [kind : {"packet"}, no : 0 .. BlockMod - 1, what : Nat,
                       sizes : SUBSET (Sizes \cup {0})]
Bytes  == {"C", "ACK", "NAK", "CAN", "STAGED", "ERROR"}

\* The byte each of the sender's waits is for.
Awaited ==
  [ready |-> "C", meta_ack |-> "ACK", meta_crc |-> "C", data_ack |-> "ACK",
   eot_nak |-> "NAK", eot_ack |-> "ACK", eot_crc |-> "C", end_ack |-> "ACK",
   final |-> "STAGED"]
Ended == {"done", "assumed", "failed"}

\* The types of the transfer's variables; the store is never given more than
\* the size that the metadata named (rtbus_ymodem_recv, ymodem_upload.c).
TypeOK ==
  /\ toRecv \in Seq(Frames) /\ toSend \in Seq(Bytes)
  /\ rpc \in {"start", "header", "begin", "returned"} /\ rc \in {"none", "ok", "error"}
  /\ got_metadata \in BOOLEAN /\ eot_seen \in BOOLEAN /\ store_active \in BOOLEAN
  /\ expected_size \in Sizes \cup {0} /\ expected_block \in 0 .. BlockMod - 1
  /\ spc \in DOMAIN Awaited \cup Ended
  /\ size \in Sizes /\ sent \in 0 .. size /\ block_no \in 0 .. BlockMod - 1
  /\ stored \in Seq(Nat) /\ Len(stored) <= expected_size
  /\ faults \in 0 .. MaxFaults /\ false_eots \in Nat /\ trouble \in BOOLEAN

Init ==
  /\ toRecv = <<>> /\ toSend = <<>>
  /\ rpc = "start" /\ got_metadata = FALSE /\ eot_seen = FALSE /\ store_active = FALSE
  /\ expected_size = 0 /\ expected_block = 1 /\ stored = <<>> /\ rc = "none"
  /\ spc = "ready" /\ size \in Sizes /\ sent = 0 /\ block_no = 1
  /\ faults = 0 /\ false_eots = 0 /\ trouble = FALSE

-----------------------------------------------------------------------------
(***************************************************************************)
(* The receiver.                                                           *)
(***************************************************************************)

\* rtbus_ymodem_recv returns, after it has put `bytes', and the command
\* handler prints the status line.
Return(code, bytes) ==
  /\ rpc' = "returned" /\ rc' = code
  /\ toSend' = toSend \o bytes \o <<IF code = "ok" THEN "STAGED" ELSE "ERROR">>
  /\ store_active' = FALSE

Put(bytes) == toSend' = toSend \o bytes

Fail(bytes) == Return("error", bytes) /\ trouble' = TRUE

\* rtbus_runtime_serial_begin, then the receive ring is emptied.
RecvStart ==
  /\ rpc = "start"
  /\ \/ rpc' = "header" /\ toRecv' = <<>> /\ UNCHANGED <<toSend, store_active, rc, trouble>>
     \/ Fail(<<>>) /\ UNCHANGED toRecv
  /\ UNCHANGED <<got_metadata, eot_seen, expected_size, expected_block, stored, sender,
                 line>>

\* ymodem_wait_header asks for the first frame every second.
RecvAnnounce ==
  /\ rpc = "header" /\ ~got_metadata /\ Len(toSend) < MaxReady
  /\ Put(<<"C">>)
  /\ UNCHANGED <<toRecv, receiver, sender, line, trouble>>

NoDeadline == FALSE                        \* defect: waits for a byte for ever
Deadline   == toRecv = <<>>

\* No byte for 30 s before the metadata, for 3 s after it.
RecvTimeout ==
  /\ rpc = "header" /\ Deadline
  /\ Fail(<<>>)
  /\ UNCHANGED <<toRecv, got_metadata, eot_seen, expected_size, expected_block, stored,
                 sender, line>>

Got(kind) ==
  /\ rpc = "header" /\ toRecv # <<>> /\ Head(toRecv).kind = kind
  /\ toRecv' = Tail(toRecv)

RecvCancel ==
  /\ Got("CAN")
  /\ Fail(<<>>)
  /\ UNCHANGED <<got_metadata, eot_seen, expected_size, expected_block, stored, sender,
                 line>>

BareAck   == <<"ACK">>                     \* defect: the 'C' is missing
EotAnswer == IF eot_seen THEN <<"ACK", "C">> ELSE <<"NAK">>

RecvEot ==
  /\ Got("EOT")
  /\ Put(EotAnswer) /\ eot_seen' = TRUE
  /\ UNCHANGED <<rpc, got_metadata, store_active, expected_size, expected_block, stored,
                 rc, sender, line, trouble>>

\* ymodem_read_packet fails: bad header byte, timeout, complement or CRC.
RecvJunk ==
  /\ Got("junk")
  /\ Put(<<"NAK">>)
  /\ UNCHANGED <<receiver, sender, line, trouble>>

\* The metadata block.  The answer precedes rtbus_image_store_begin.
RecvMetadata ==
  /\ ~got_metadata /\ Got("packet")
  /\ UNCHANGED <<eot_seen, expected_block, stored, sender, line>>
  /\ LET packet == Head(toRecv) IN
     \/ /\ packet.no # 0
        /\ Put(<<"NAK">>)
        /\ UNCHANGED <<rpc, got_metadata, store_active, expected_size, rc, trouble>>
     \/ /\ packet.no = 0 /\ 0 \in packet.sizes
        /\ Fail(<<"NAK">>)
        /\ got_metadata' = TRUE /\ UNCHANGED expected_size
     \/ /\ packet.no = 0 /\ expected_size' \in packet.sizes \ {0}
        /\ Put(<<"ACK", "C">>)
        /\ got_metadata' = TRUE /\ rpc' = "begin"
        /\ UNCHANGED <<store_active, rc, trouble>>

RecvBegin ==
  /\ rpc = "begin"
  /\ \/ /\ rpc' = "header" /\ store_active' = TRUE
        /\ UNCHANGED <<toSend, rc, trouble>>
     \/ Fail(<<"CAN">>)
  /\ UNCHANGED <<toRecv, got_metadata, eot_seen, expected_size, expected_block, stored,
                 sender, line>>

\* rtbus_image_store_finish(0) refuses an image that is not complete, and
\* may refuse one that is (see ImageStore).
FinishAny  == TRUE                         \* defect: a short image is accepted
Finishable == Len(stored) = expected_size

RecvEnd ==
  /\ got_metadata /\ eot_seen /\ Got("packet")
  /\ Head(toRecv).no = 0
  /\ \/ Finishable /\ Return("ok", <<"ACK">>) /\ UNCHANGED trouble
     \/ Fail(<<"CAN">>)
  /\ UNCHANGED <<got_metadata, eot_seen, expected_size, expected_block, stored, sender,
                 line>>

AnyBlock(packet)   == TRUE                 \* defect: the number is not compared
IsExpected(packet) == packet.no = expected_block

\* Past expected_size there is nothing left to write of a block.
Taken(packet) == IF Len(stored) < expected_size THEN Append(stored, packet.what) ELSE stored

RecvData ==
  /\ got_metadata /\ Got("packet")
  /\ ~(eot_seen /\ Head(toRecv).no = 0)
  /\ LET packet == Head(toRecv) IN
     \/ /\ ~IsExpected(packet)
        /\ Put(<<"NAK">>)
        /\ UNCHANGED <<rpc, store_active, rc, expected_block, stored, trouble>>
     \/ /\ IsExpected(packet)
        /\ stored' = Taken(packet) /\ expected_block' = NextNo(expected_block)
        /\ Put(<<"ACK">>)
        /\ UNCHANGED <<rpc, store_active, rc, trouble>>
     \/ /\ IsExpected(packet)              \* rtbus_image_store_write failed
        /\ Fail(<<"CAN">>)
        /\ UNCHANGED <<expected_block, stored>>
  /\ UNCHANGED <<got_metadata, eot_seen, expected_size, sender, line>>

-----------------------------------------------------------------------------
(***************************************************************************)
(* The sender.                                                             *)
(***************************************************************************)

Send(frame) == toRecv' = Append(toRecv, frame)

\* After the awaited byte: the next frame, or the next wait.
NextBlock ==
  IF sent' < size
  THEN Send(Block(block_no', sent' + 1)) /\ spc' = "data_ack"
  ELSE Send(Eot) /\ spc' = "eot_nak"

Advance ==
  \/ spc = "ready" /\ Send(Metadata) /\ spc' = "meta_ack" /\ UNCHANGED <<sent, block_no>>
  \/ spc = "meta_ack" /\ spc' = "meta_crc" /\ UNCHANGED <<toRecv, sent, block_no>>
  \/ spc = "meta_crc" /\ UNCHANGED <<sent, block_no>> /\ NextBlock
  \/ /\ spc = "data_ack"
     /\ sent' = sent + 1 /\ block_no' = NextNo(block_no)
     /\ NextBlock
  \/ spc = "eot_nak" /\ Send(Eot) /\ spc' = "eot_ack" /\ UNCHANGED <<sent, block_no>>
  \/ spc = "eot_ack" /\ spc' = "eot_crc" /\ UNCHANGED <<toRecv, sent, block_no>>
  \/ spc = "eot_crc" /\ Send(Final) /\ spc' = "end_ack" /\ UNCHANGED <<sent, block_no>>
  \/ spc = "end_ack" /\ spc' = "final" /\ UNCHANGED <<toRecv, sent, block_no>>
  \/ spc = "final" /\ spc' = "done" /\ UNCHANGED <<toRecv, sent, block_no>>

\* What ends the sender at once: CAN in wait_byte, ERROR in the two waits
\* that read text.
Fatal == IF spc \in {"ready", "final"} THEN "ERROR" ELSE "CAN"

SenderRead ==
  /\ spc \in DOMAIN Awaited /\ toSend # <<>>
  /\ toSend' = Tail(toSend)
  /\ \/ Head(toSend) = Awaited[spc] /\ Advance
     \/ Head(toSend) = Fatal /\ spc' = "failed" /\ UNCHANGED <<toRecv, sent, block_no>>
     \/ Head(toSend) \notin {Awaited[spc], Fatal} /\ UNCHANGED <<toRecv, spc, sent, block_no>>
  /\ UNCHANGED <<receiver, size, line, trouble>>

\* wait_final_status takes silence for success.
SenderTimeout ==
  /\ spc \in DOMAIN Awaited /\ toSend = <<>>
  /\ spc' = IF spc = "final" THEN "assumed" ELSE "failed"
  /\ trouble' = TRUE
  /\ UNCHANGED <<toRecv, toSend, receiver, size, sent, block_no, line>>

-----------------------------------------------------------------------------
(***************************************************************************)
(* The line.  Bytes are lost where a receive buffer overruns.              *)
(***************************************************************************)

Fault == faults < MaxFaults /\ faults' = faults + 1 /\ trouble' = TRUE

DamageFrame ==
  /\ Fault /\ toRecv # <<>>
  /\ IF Head(toRecv) \in Strays THEN toRecv' = Tail(toRecv) /\ UNCHANGED false_eots
     ELSE \E run \in StrayRuns : /\ toRecv' = run \o Tail(toRecv)
                                 /\ false_eots' = false_eots + EotsIn(run)
  /\ UNCHANGED <<toSend, receiver, sender>>

LoseAnswer ==
  /\ Fault /\ toSend # <<>>
  /\ toSend' = Tail(toSend)
  /\ UNCHANGED <<toRecv, receiver, sender, false_eots>>

-----------------------------------------------------------------------------
Receiver ==
  \/ RecvStart \/ RecvTimeout \/ RecvCancel \/ RecvEot \/ RecvJunk
  \/ RecvMetadata \/ RecvBegin \/ RecvEnd \/ RecvData

Sender == SenderRead \/ SenderTimeout

Finished == rpc = "returned" /\ spc \in Ended /\ UNCHANGED vars

Next == Receiver \/ RecvAnnounce \/ Sender \/ DamageFrame \/ LoseAnswer \/ Finished

\* Both programs run on, and their timeouts expire.
Spec == Init /\ [][Next]_vars /\ WF_vars(Receiver) /\ WF_vars(Sender)

-----------------------------------------------------------------------------
(***************************************************************************)
(* Properties.                                                             *)
(***************************************************************************)

\* The image store is given the blocks of the file in order, each once and
\* with no gap, however often the numbers wrap, and recv succeeds only with all
\* of them: as long as damaged frames have left no more bytes that look like EOT
\* than there are block numbers.  From the second one on each is acknowledged,
\* which the sender takes for the ACK of its block (rtbus_ymodem_recv, wait_byte);
\* with one more it is a whole round of numbers ahead, and a later block passes
\* for the one that was lost.
StoredInOrder ==
  false_eots <= BlockMod =>
    /\ stored = [k \in 1 .. Len(stored) |-> k]
    /\ rc = "ok" => Len(stored) = size

\* While the line loses nothing and the store works, the two sides never
\* wait for each other with nothing on the line.
NoMutualWait ==
  ~trouble /\ toRecv = <<>> /\ toSend = <<>> /\ rpc = "header" /\ got_metadata =>
    spc \notin DOMAIN Awaited

\* Every upload ends on both sides: recv returns, so that the command handler
\* resumes the native program, and the sender reports.
TransfersEnd == <>(rpc = "returned" /\ spc \in Ended)
=============================================================================
