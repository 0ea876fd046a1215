----------------------------- MODULE ImageStore -----------------------------
(***************************************************************************)
(* The image store (services/rtbus_image.c) as the YMODEM receiver drives  *)
(* it, and the loader of the native service that reads the slot back.      *)
(*                                                                         *)
(* Flash is a sequence of words; the image header is one word.  A step     *)
(* makes at most one call of the flash driver, and every such call may     *)
(* succeed, fail, or be cut short by a power loss, with any part of an     *)
(* erase and any first part of a write done.  A CRC stands for the words   *)
(* it was computed from.                                                   *)
(***************************************************************************)
EXTENDS Naturals, Sequences, SequencesExt

CONSTANTS
  Erased,       \* the word of an erased flash (all ones), also the padding
  Mixed,        \* what programming a word twice leaves
  PayloadWords, \* the words of payloads; Erased is one of them
  Files,        \* the files hosts send
  SlotLen,      \* component_slot_partition, in words
  PatchLen,     \* patch_partition, where a board has one
  Align,        \* flash_area_align, of both partitions
  PendingMax,   \* CONFIG_RTBUS_IMAGE_FLASH_PENDING_MAX
  BufLen,       \* the buffer that copies the store area into the slot
  ChunkMax,     \* the payload of a YMODEM packet
  RamMax,       \* CONFIG_RTBUS_IMAGE_RAM_MAX
  Faults,       \* how a flash call may go wrong: "error", "power"
  None

\* native: what native_validate_metadata says of the header's flags, ABI version
\* and offsets, all of which it holds against payload_size and constants.
Header(n, crc, ram, native) ==
  [payload_size |-> n, payload_crc32 |-> crc, required_ram_size |-> ram, native |-> native]

ASSUME ImageStoreAssumption ==
  /\ Erased \in PayloadWords /\ Mixed \notin PayloadWords
  /\ SlotLen \in Nat \ {0} /\ PatchLen \in Nat \ {0}
  /\ Align \in Nat \ {0} /\ PendingMax \in Nat \ {0} /\ PendingMax % Align = 0
  /\ BufLen \in Nat \ {0} /\ Align <= BufLen
  /\ ChunkMax \in Nat \ {0} /\ RamMax \in Nat
  /\ Faults \subseteq {"error", "power"}
  /\ SlotLen % Align = 0 /\ PatchLen % Align = 0
  /\ \A f \in Files : f \in Seq(Range(f)) /\ None \notin Seq(Range(f))

VARIABLES
  direct,             \* the board has no patch_partition; never changes
  flash,              \* the words of the slot and of the patch partition
  store_ctx,
  file,               \* the file the host sends
  chunk,              \* what rtbus_image_store_write still has to copy
  size,               \* and how much it was given
  copied,             \* offset of the commit loop
  pc, result,
  launched            \* the image the native thread runs, None if it has none

call == <<chunk, size, copied>>
vars == <<direct, flash, store_ctx, file, call, pc, result, launched>>

-----------------------------------------------------------------------------
(***************************************************************************)
(* Flash, and the images in it.                                            *)
(***************************************************************************)

AreaLen   == [slot |-> SlotLen, patch |-> PatchLen]
InPlace   == "slot"                               \* defect: the staging area is not used
StoreArea == IF direct THEN "slot" ELSE "patch"
Outcomes  == {"ok"} \cup Faults

\* Programming clears bits and sets none.
Programmed(old, new) ==
  IF old = Erased THEN new ELSE IF new \in {Erased, old} THEN old ELSE Mixed

Program(area, offset, data) ==
  [k \in DOMAIN area |->
     IF k - offset \in 1 .. Len(data) THEN Programmed(area[k], data[k - offset]) ELSE area[k]]

flash_area_flatten(area, out) ==
  \E kept \in SUBSET (1 .. AreaLen[area]) :
    /\ out = "ok" => kept = {}
    /\ flash' = [flash EXCEPT ![area] =
                   [k \in DOMAIN @ |-> IF k \in kept THEN @[k] ELSE Erased]]

flash_area_write(area, offset, data, out) ==
  \E n \in 0 .. Len(data) :
    /\ out = "ok" => n = Len(data)
    /\ flash' = [flash EXCEPT ![area] = Program(@, offset, SubSeq(data, 1, n))]

RoundUp(n)   == ((n + Align - 1) \div Align) * Align
Padded(data) == data \o [k \in 1 .. RoundUp(Len(data)) - Len(data) |-> Erased]

\* The header checks; room is what the payload may take.
HeaderIn(words, room) ==
  /\ words[1] \notin PayloadWords \cup {Mixed}
  /\ words[1].payload_size \in 1 .. room

PayloadIn(words) == SubSeq(words, 2, 1 + words[1].payload_size)

NoCrc(words) == TRUE                               \* defect: not checked
CrcMatches(words) == PayloadIn(words) = words[1].payload_crc32

ImageIn(words) ==
  IF words # <<>> /\ HeaderIn(words, Len(words) - 1) /\ CrcMatches(words)
  THEN SubSeq(words, 1, 1 + words[1].payload_size) ELSE None

-----------------------------------------------------------------------------
TypeOK ==
  /\ direct \in BOOLEAN
  /\ \A area \in {"slot", "patch"} : Len(flash[area]) = AreaLen[area]
  /\ store_ctx.active \in BOOLEAN
  /\ store_ctx.expected_size \in 0 .. AreaLen[StoreArea]
  /\ store_ctx.written \in 0 .. store_ctx.expected_size
  /\ store_ctx.flash_write_offset \in 0 .. AreaLen[StoreArea]
  /\ Len(store_ctx.flash_pending) < PendingMax
  /\ file \in Files \cup {<<>>} /\ size \in 0 .. ChunkMax /\ Len(chunk) <= size
  /\ copied \in 0 .. SlotLen
  /\ pc \in {"idle", "receive", "write", "verify", "commit", "copy", "done", "off"}
  /\ result \in {"ok", "error"}

Blank(n) == [k \in 1 .. n |-> Erased]

Context(on, n) == [active |-> on, expected_size |-> n, written |-> 0,
                   flash_write_offset |-> 0, flash_pending |-> <<>>]

NoCall == chunk' = <<>> /\ size' = 0 /\ copied' = 0

\* A board leaves the factory with an empty slot.
Init ==
  /\ direct \in BOOLEAN
  /\ flash = [slot |-> Blank(SlotLen), patch |-> Blank(PatchLen)]
  /\ store_ctx = Context(FALSE, 0)
  /\ chunk = <<>> /\ size = 0 /\ copied = 0
  /\ file = <<>> /\ pc = "off" /\ result = "error" /\ launched = None

\* rtbus_image_store_reset, and the return of rc to the receiver.
Return(rc) ==
  result' = rc /\ pc' = "done" /\ NoCall /\ store_ctx' = Context(FALSE, 0)

\* RAM is lost; flash keeps what it has.
CutPower ==
  /\ pc' = "off" /\ store_ctx' = Context(FALSE, 0) /\ NoCall
  /\ file' = <<>> /\ result' = "error" /\ launched' = None

\* A flash call that did not succeed.  The receiver answers an error of
\* store_write with store_finish(rc), which resets the context as well.
Unless(out) ==
  \/ out = "error" /\ Return("error") /\ UNCHANGED <<file, launched>>
  \/ out = "power" /\ CutPower

-----------------------------------------------------------------------------
(***************************************************************************)
(* rtbus_image_store_begin.  The command handler has stopped the native    *)
(* program before it.                                                      *)
(***************************************************************************)

\* A file shorter than a header is the empty sequence of words.
HeaderLen == 1

FitsFlash(n) == TRUE                               \* defect: no -EFBIG
Fits(n)      == n \in HeaderLen .. SlotLen /\ n <= AreaLen[StoreArea]

BeginRefused(f) ==
  /\ pc = "idle" /\ (store_ctx.active \/ ~Fits(Len(f)))
  /\ file' = f /\ result' = "error" /\ pc' = "done" /\ launched' = None
  /\ UNCHANGED <<direct, flash, store_ctx, call>>

Begin(f, out) ==
  /\ pc = "idle" /\ ~store_ctx.active /\ Fits(Len(f))
  /\ flash_area_flatten(StoreArea, out)
  /\ UNCHANGED direct
  /\ \/ /\ out = "ok"
        /\ store_ctx' = Context(TRUE, Len(f)) /\ pc' = "receive"
        /\ file' = f /\ launched' = None
        /\ UNCHANGED <<call, result>>
     \/ out = "error" /\ Return("error") /\ file' = f /\ launched' = None
     \/ out = "power" /\ CutPower

(***************************************************************************)
(* rtbus_image_store_write: each turn of its loop fills the pending buffer *)
(* and flushes it when it is full.                                         *)
(***************************************************************************)

Write(n) ==
  /\ pc = "receive" /\ n <= store_ctx.expected_size - store_ctx.written
  /\ chunk' = SubSeq(file, store_ctx.written + 1, store_ctx.written + n) /\ size' = n
  /\ pc' = "write"
  /\ UNCHANGED <<direct, flash, store_ctx, file, copied, result, launched>>

Room    == PendingMax - Len(store_ctx.flash_pending)
CopyLen == IF Len(chunk) < Room THEN Len(chunk) ELSE Room
Filled  == store_ctx.flash_pending \o SubSeq(chunk, 1, CopyLen)

Overwrite(n)  == store_ctx.flash_write_offset      \* defect: the offset stays
NextOffset(n) == store_ctx.flash_write_offset + n

\* After the last turn the call returns and counts what it was given.
AfterTurn(offset, pending) ==
  /\ chunk' = SubSeq(chunk, CopyLen + 1, Len(chunk))
  /\ pc' = IF chunk' = <<>> THEN "receive" ELSE "write"
  /\ store_ctx' = [store_ctx EXCEPT !.flash_write_offset = offset,
                                    !.flash_pending = pending,
                                    !.written = IF chunk' = <<>> THEN @ + size ELSE @]
  /\ UNCHANGED <<file, size, copied, result, launched>>

FillPending ==
  /\ pc = "write" /\ Len(Filled) < PendingMax
  /\ AfterTurn(store_ctx.flash_write_offset, Filled)
  /\ UNCHANGED <<direct, flash>>

FlushPending(out) ==
  /\ pc = "write" /\ Len(Filled) = PendingMax
  /\ flash_area_write(StoreArea, store_ctx.flash_write_offset, Filled, out)
  /\ UNCHANGED direct
  /\ \/ out = "ok" /\ AfterTurn(NextOffset(PendingMax), <<>>)
     \/ Unless(out)

(***************************************************************************)
(* rtbus_image_store_finish(status).                                       *)
(***************************************************************************)

\* status # 0 (a cancelled or broken transfer), or data is missing (-EIO).
FinishEarly ==
  /\ pc = "receive"
  /\ Return("error")
  /\ UNCHANGED <<direct, flash, file, launched>>

FinishFlush(out) ==
  /\ pc = "receive" /\ store_ctx.written = store_ctx.expected_size
  /\ flash_area_write(StoreArea, store_ctx.flash_write_offset,
                      Padded(store_ctx.flash_pending), out)
  /\ UNCHANGED direct
  /\ \/ /\ out = "ok"
        /\ store_ctx' = [store_ctx EXCEPT
             !.flash_write_offset = NextOffset(Len(Padded(store_ctx.flash_pending))),
             !.flash_pending = <<>>]
        /\ pc' = "verify"
        /\ UNCHANGED <<file, call, result, launched>>
     \/ Unless(out)

Stored == SubSeq(flash[StoreArea], 1, store_ctx.written)

Accepted ==
  /\ HeaderIn(Stored, store_ctx.expected_size - 1)
  /\ Stored[1].required_ram_size <= RamMax
  /\ CrcMatches(Stored)

\* The header and the payload are read back from flash.
Verify ==
  /\ pc = "verify"
  /\ \/ Accepted /\ direct /\ Return("ok")
     \/ Accepted /\ ~direct /\ pc' = "commit" /\ UNCHANGED <<store_ctx, call, result>>
     \/ (~Accepted \/ "error" \in Faults) /\ Return("error")
  /\ UNCHANGED <<direct, flash, file, launched>>

(***************************************************************************)
(* rtbus_image_commit_store_to_slot, on a board with a patch partition.    *)
(***************************************************************************)

CommitErase(out) ==
  /\ pc = "commit"
  /\ flash_area_flatten("slot", out)
  /\ UNCHANGED direct
  /\ \/ /\ out = "ok" /\ pc' = "copy"
        /\ UNCHANGED <<store_ctx, file, call, result, launched>>
     \/ Unless(out)

ShortCommit == copied + BufLen < store_ctx.expected_size   \* defect: the last block stays
MoreToCopy  == copied < store_ctx.expected_size

Block == SubSeq(Stored, copied + 1,
                IF copied + BufLen < Len(Stored) THEN copied + BufLen ELSE Len(Stored))

CommitCopy(out) ==
  /\ pc = "copy" /\ MoreToCopy
  /\ flash_area_write("slot", copied, Padded(Block), out)
  /\ UNCHANGED direct
  /\ \/ /\ out = "ok" /\ copied' = copied + Len(Block)
        /\ UNCHANGED <<store_ctx, file, chunk, size, pc, result, launched>>
     \/ Unless(out)

CommitDone ==
  /\ pc = "copy" /\ ~MoreToCopy
  /\ Return("ok")
  /\ UNCHANGED <<direct, flash, file, launched>>

(***************************************************************************)
(* native_service_start, at boot and when the transfer is over: get_status *)
(* and get_native_metadata, then native_validate_metadata.                 *)
(***************************************************************************)

Launchable == IF ImageIn(flash["slot"]) # None /\ flash["slot"][1].native
              THEN ImageIn(flash["slot"]) ELSE None

Launch ==
  /\ pc \in {"done", "off"}
  /\ \/ launched' = Launchable
     \/ "error" \in Faults /\ launched' = None
  /\ pc' = "idle"
  /\ UNCHANGED <<direct, flash, store_ctx, file, call, result>>

PowerLoss ==
  /\ "power" \in Faults /\ pc # "off"
  /\ CutPower
  /\ UNCHANGED <<direct, flash>>

-----------------------------------------------------------------------------
FlashStep(out) ==
  \/ \E f \in Files : Begin(f, out)
  \/ FlushPending(out) \/ FinishFlush(out)
  \/ CommitErase(out) \/ CommitCopy(out)

Next ==
  \/ \E out \in Outcomes : FlashStep(out)
  \/ \E f \in Files : BeginRefused(f)
  \/ \E n \in 1 .. ChunkMax : Write(n)
  \/ FillPending \/ FinishEarly
  \/ Verify \/ CommitDone
  \/ Launch \/ PowerLoss

Spec == Init /\ [][Next]_vars

-----------------------------------------------------------------------------
(***************************************************************************)
(* Properties.                                                             *)
(***************************************************************************)

\* While a transfer is under way the store area and the pending buffer hold
\* together exactly the words received so far, in order and once each,
\* however the packets fell on the buffer and the flash alignment.
NothingLostInTransit ==
  store_ctx.active =>
    LET flushed == IF store_ctx.flash_write_offset < Len(file)
                   THEN store_ctx.flash_write_offset ELSE Len(file)
        here    == flushed + Len(store_ctx.flash_pending)
    IN  /\ flash[StoreArea] = Program(Blank(AreaLen[StoreArea]), 0, SubSeq(file, 1, flushed))
        /\ store_ctx.flash_pending = SubSeq(file, flushed + 1, here)
        /\ here + Len(chunk) = store_ctx.written + (IF pc = "write" THEN size ELSE 0)

\* Success is reported (rtbus_image_store_finish) only when the slot holds the
\* image the host sent, with header and CRC right and a RAM demand within the
\* limit; a launch may refuse it for what it is (native_validate_metadata).
SuccessIsInstalled ==
  pc = "done" /\ result = "ok" =>
    /\ ImageIn(file) # None /\ ImageIn(flash["slot"]) = ImageIn(file)
    /\ file[1].required_ram_size <= RamMax

\* On a board with a patch partition the old image stays launchable until the
\* new one has been received, verified and found to fit.
OldImageKept ==
  [][~direct /\ flash'["slot"] # flash["slot"] =>
       pc \in {"commit", "copy"} /\ Accepted]_vars

\* Seen through its header and CRC the slot is always empty or one whole
\* image, through every power loss and flash error.  Words a file lacks at its
\* end are those of an erased slot.
Offer(f) == ImageIn(Program(Blank(SlotLen), 0, f))
Offers   == {Offer(f) : f \in Files} \ {None}
Slot == INSTANCE ImageSlot WITH
          Images  <- Offers,
          held    <- ImageIn(flash["slot"]),
          offered <- Offer(file)
ImplementsImageSlot == Slot!Spec

\* The CRC in a file's header tells the file from one that an erase was cut short
\* on: no part of it whose other words are erased has the payload the header
\* names, unless the file has.
Part(f, kept) ==
  [k \in 1 .. SlotLen |-> IF k \in kept /\ k <= Len(f) THEN f[k] ELSE Erased]
TellsErasure(f) ==
  \A kept \in SUBSET (1 .. SlotLen) :
    LET part == Part(f, kept)
    IN  HeaderIn(part, SlotLen - 1) /\ PayloadIn(part) = part[1].payload_crc32 =>
          PayloadIn(Part(f, 1 .. SlotLen)) = part[1].payload_crc32

\* Kconfig on RTBUS_IMAGE_RAM_MAX: the maximum RAM an image may declare in
\* its header.  What the native thread runs declares no more.
RamWithinLimit == launched # None => launched[1].required_ram_size <= RamMax
=============================================================================
