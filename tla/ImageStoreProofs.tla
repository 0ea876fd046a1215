------------------------- MODULE ImageStoreProofs -------------------------
(***************************************************************************)
(* Proofs about ImageStore, for every size of the partitions, buffers and  *)
(* packets, every set of files, and every flash error and power loss:      *)
(*   - on a board with a patch partition the slot changes only after the   *)
(*     new image was received, verified and found to fit;                  *)
(*   - the words received arrive in flash in order and once each;          *)
(*   - success means that a launch finds the image that was sent.          *)
(***************************************************************************)
EXTENDS ImageStore, SequenceTheorems, TLAPS

\* What makes the property inductive: Verify is the only way into the commit,
\* and from then on neither the store area nor the context changes.
CommitVerified ==
  /\ DOMAIN flash = {"slot", "patch"}
  /\ pc \in {"commit", "copy"} => ~direct /\ Accepted

\* No image is being committed when the power comes on.
LEMMA CommitVerifiedInit == Init => CommitVerified
  BY DEF Init, CommitVerified

\* An early end of a call leaves the commit.
LEMMA UnlessLeaves ==
  ASSUME NEW out, Unless(out)
  PROVE  pc' \in {"done", "off"}
  BY DEF Unless, Return, CutPower

\* The image that was accepted is the image in the patch partition.
LEMMA AcceptedStays ==
  ASSUME ~direct, UNCHANGED <<direct, store_ctx>>, flash'["patch"] = flash["patch"]
  PROVE  Accepted' <=> Accepted
<1>1. StoreArea = "patch" /\ StoreArea' = "patch"
  BY DEF StoreArea
<1>2. Stored' = Stored
  BY <1>1 DEF Stored
<1> QED
  BY <1>2 DEF Accepted, HeaderIn, CrcMatches, PayloadIn

\* Calls of the flash driver change one partition.
LEMMA FlashOneArea ==
  ASSUME DOMAIN flash = {"slot", "patch"}, NEW area \in {"slot", "patch"}, NEW out,
         \/ flash_area_flatten(area, out)
         \/ \E offset, data : flash_area_write(area, offset, data, out)
  PROVE  /\ DOMAIN flash' = {"slot", "patch"}
         /\ \A other \in {"slot", "patch"} \ {area} : flash'[other] = flash[other]
  BY DEF flash_area_flatten, flash_area_write

\* Each step keeps CommitVerified and respects the old image.
OldImageStep == ~direct /\ flash'["slot"] # flash["slot"] => pc \in {"commit", "copy"} /\ Accepted

\* No flash call touches the slot outside the commit on such a board.
LEMMA FlashStepKeeps ==
  ASSUME CommitVerified, NEW out \in Outcomes, FlashStep(out)
  PROVE  CommitVerified' /\ OldImageStep
<1> USE DEF CommitVerified
<1>0. StoreArea \in {"slot", "patch"} /\ (~direct => StoreArea = "patch")
  BY DEF StoreArea
<1>1. CASE \E f \in Files : Begin(f, out)
  <2>1. PICK f \in Files : Begin(f, out)
    BY <1>1
  <2>2. pc' \notin {"commit", "copy"}
    BY <2>1 DEF Begin, Return, CutPower
  <2>3. flash_area_flatten(StoreArea, out)
    BY <2>1 DEF Begin
  <2> QED
    BY <1>0, <2>2, <2>3, FlashOneArea DEF OldImageStep
<1>2. CASE FlushPending(out)
  <2>1. pc' \notin {"commit", "copy"}
    BY <1>2, UnlessLeaves DEF FlushPending, AfterTurn
  <2>2. \E offset, data : flash_area_write(StoreArea, offset, data, out)
    BY <1>2 DEF FlushPending
  <2> QED
    BY <1>0, <2>1, <2>2, FlashOneArea DEF OldImageStep
<1>3. CASE FinishFlush(out)
  <2>1. pc' \notin {"commit", "copy"}
    BY <1>3, UnlessLeaves DEF FinishFlush
  <2>2. \E offset, data : flash_area_write(StoreArea, offset, data, out)
    BY <1>3 DEF FinishFlush
  <2> QED
    BY <1>0, <2>1, <2>2, FlashOneArea DEF OldImageStep
<1>4. CASE CommitErase(out)
  <2>1. pc = "commit" /\ ~direct /\ Accepted
    BY <1>4 DEF CommitErase
  <2>2. DOMAIN flash' = {"slot", "patch"} /\ flash'["patch"] = flash["patch"]
    BY <1>4, FlashOneArea DEF CommitErase
  <2>3. pc' \notin {"commit", "copy"} \/ UNCHANGED <<direct, store_ctx>>
    BY <1>4, UnlessLeaves DEF CommitErase
  <2> QED
    BY <2>1, <2>2, <2>3, AcceptedStays DEF OldImageStep
<1>5. CASE CommitCopy(out)
  <2>1. pc = "copy" /\ ~direct /\ Accepted
    BY <1>5 DEF CommitCopy
  <2>2. DOMAIN flash' = {"slot", "patch"} /\ flash'["patch"] = flash["patch"]
    BY <1>5, FlashOneArea DEF CommitCopy
  <2>3. pc' \notin {"commit", "copy"} \/ UNCHANGED <<direct, store_ctx>>
    BY <1>5, UnlessLeaves DEF CommitCopy
  <2> QED
    BY <2>1, <2>2, <2>3, AcceptedStays DEF OldImageStep
<1> QED
  BY <1>1, <1>2, <1>3, <1>4, <1>5 DEF FlashStep

\* All other steps leave flash alone.
LEMMA QuietStepKeeps ==
  ASSUME CommitVerified, [Next]_vars, ~\E out \in Outcomes : FlashStep(out)
  PROVE  CommitVerified' /\ OldImageStep
<1> USE DEF CommitVerified
<1>1. UNCHANGED <<direct, flash>>
  BY DEF Next, BeginRefused, Write, FillPending, FinishEarly, Verify, CommitDone, Launch,
         PowerLoss, vars
<1>2. CASE Verify
  <2>1. pc' = "commit" => ~direct /\ Accepted /\ UNCHANGED store_ctx
    BY <1>2 DEF Verify, Return
  <2>2. pc' # "copy"
    BY <1>2 DEF Verify, Return
  <2> QED
    BY <1>1, <2>1, <2>2, AcceptedStays DEF OldImageStep
<1>3. CASE UNCHANGED vars
  BY <1>1, <1>3, AcceptedStays DEF vars, OldImageStep
<1>4. CASE Next /\ ~Verify
  <2>1. pc' \notin {"commit", "copy"}
    BY <1>4 DEF Next, BeginRefused, Write, FillPending, AfterTurn, FinishEarly, CommitDone,
                Launch, PowerLoss, Return, CutPower
  <2> QED
    BY <1>1, <2>1 DEF OldImageStep
<1> QED
  BY <1>2, <1>3, <1>4

\* While a patch partition exists the old image stays in the slot until the
\* new one is complete and valid (rtbus_image_store_write, _finish,
\* rtbus_image_commit_store_to_slot).
THEOREM OldImageIsKept == Spec => OldImageKept
<1>1. CommitVerified /\ [Next]_vars => CommitVerified' /\ OldImageStep
  BY FlashStepKeeps, QuietStepKeeps
<1>2. CommitVerified /\ [Next]_vars =>
        [~direct /\ flash'["slot"] # flash["slot"] =>
           pc \in {"commit", "copy"} /\ Accepted]_vars
  BY <1>1 DEF OldImageStep
<1> QED
  BY <1>1, <1>2, CommitVerifiedInit, PTL DEF Spec, OldImageKept

-----------------------------------------------------------------------------
(***************************************************************************)
(* The words received arrive in order, and success means they are in the   *)
(* slot.                                                                   *)
(***************************************************************************)

Words == {Erased} \cup UNION {Range(f) : f \in Files}

\* What hosts send consists of words.
LEMMA FilesAreWords == \A f \in Files : f \in Seq(Words)
<1> TAKE f \in Files
<1>1. f \in Seq(Range(f))
  BY ImageStoreAssumption
<1>2. \A k \in 1 .. Len(f) : f[k] \in Words
  BY <1>1 DEF Words, Range
<1>3. f = [k \in 1 .. Len(f) |-> f[k]] /\ Len(f) \in Nat
  BY <1>1
<1> QED
  BY <1>2, <1>3

\* An area that holds the first n words of f and is erased behind them.
Filling(len, n, f) == [k \in 1 .. len |-> IF k <= n THEN f[k] ELSE Erased]

\* Words written behind the first n add to them; padding adds nothing.
LEMMA ProgramAppends ==
  ASSUME NEW f, NEW len \in Nat, NEW n \in Nat, NEW m \in Nat, n <= m,
         NEW data \in Seq(Words), m <= n + Len(data),
         \A j \in 1 .. Len(data) : data[j] = IF n + j <= m THEN f[n + j] ELSE Erased
  PROVE  Program(Filling(len, n, f), n, data) = Filling(len, m, f)
<1> DEFINE old == Filling(len, n, f)
<1>1. DOMAIN old = 1 .. len
  BY DEF Filling
<1>2. ASSUME NEW k \in 1 .. len
      PROVE  (IF k - n \in 1 .. Len(data) THEN Programmed(old[k], data[k - n]) ELSE old[k])
               = IF k <= m THEN f[k] ELSE Erased
  <2>1. CASE k - n \in 1 .. Len(data)
    <3>1. old[k] = Erased
      BY <2>1 DEF Filling
    <3>2. data[k - n] = IF k <= m THEN f[k] ELSE Erased
      BY <2>1
    <3> QED
      BY <2>1, <3>1, <3>2 DEF Programmed
  <2>2. CASE k - n \notin 1 .. Len(data)
    <3>1. k <= n \/ k > m
      BY <2>2
    <3> QED
      BY <2>2, <3>1 DEF Filling
  <2> QED
    BY <2>1, <2>2
<1> QED
  BY <1>1, <1>2 DEF Program, Filling

\* Padding rounds up to the alignment with erased words.
LEMMA PaddedWords ==
  ASSUME NEW data \in Seq(Words)
  PROVE  /\ Padded(data) \in Seq(Words)
         /\ Len(Padded(data)) >= Len(data)
         /\ \A j \in 1 .. Len(Padded(data)) :
              Padded(data)[j] = IF j <= Len(data) THEN data[j] ELSE Erased
<1> DEFINE gap == RoundUp(Len(data)) - Len(data)
           pad == [k \in 1 .. gap |-> Erased]
<1>1. gap \in Int
  BY ImageStoreAssumption DEF RoundUp
<1>2. pad \in Seq(Words) /\ \A k \in 1 .. Len(pad) : pad[k] = Erased
  <2> DEFINE m == IF gap > 0 THEN gap ELSE 0
  <2>1. m \in Nat /\ 1 .. gap = 1 .. m
    BY <1>1
  <2> HIDE DEF m, gap
  <2>2. pad = [k \in 1 .. m |-> Erased]
    BY <2>1
  <2>3. Erased \in Words
    BY DEF Words
  <2> HIDE DEF pad
  <2> QED
    BY <2>1, <2>2, <2>3
<1> HIDE DEF pad
<1>3. Padded(data) = data \o pad
  BY DEF Padded, pad
<1> QED
  BY <1>2, <1>3, ConcatProperties

\* A write that succeeds programs all its data.
LEMMA WriteSucceeds ==
  ASSUME NEW area \in {"slot", "patch"}, NEW offset, NEW data \in Seq(Words),
         flash_area_write(area, offset, data, "ok"), DOMAIN flash = {"slot", "patch"}
  PROVE  flash'[area] = Program(flash[area], offset, data)
<1>1. SubSeq(data, 1, Len(data)) = data
  <2>1. \A i \in 1 .. Len(data) : data[i] \in Words
    OBVIOUS
  <2>2. SubSeq(data, 1, Len(data)) \in Seq(Words)
    BY <2>1, SubSeqProperties
  <2>3. Len(SubSeq(data, 1, Len(data))) = Len(data)
    BY <2>1, SubSeqProperties
  <2>4. \A i \in 1 .. Len(data) : SubSeq(data, 1, Len(data))[i] = data[i]
    BY <2>1, SubSeqProperties
  <2> QED
    BY <2>2, <2>3, <2>4
<1> QED
  BY <1>1 DEF flash_area_write

InCall  == {"receive", "write", "verify", "commit", "copy"}
Ended   == {"verify", "commit", "copy"}
Pending == store_ctx.flash_pending
Offset  == store_ctx.flash_write_offset

StoreTypes ==
  /\ DOMAIN flash = {"slot", "patch"}
  /\ \A area \in {"slot", "patch"} : DOMAIN flash[area] = 1 .. AreaLen[area]
  /\ store_ctx \in [active : BOOLEAN, expected_size : Nat, written : Nat,
                    flash_write_offset : Nat, flash_pending : Seq(Words)]
  /\ chunk \in Seq(Words) /\ size \in Nat /\ copied \in Nat
  /\ direct \in BOOLEAN
  /\ store_ctx.active <=> pc \in InCall

\* The file fits, and the context is about it.
Transfer ==
  pc \in InCall =>
    /\ file \in Files /\ store_ctx.expected_size = Len(file)
    /\ Len(file) <= SlotLen /\ Len(file) <= AreaLen[StoreArea]

\* Flash, pending buffer and the rest of the packet follow each other.
Receiving ==
  pc \in {"receive", "write"} =>
    /\ flash[StoreArea] = Filling(AreaLen[StoreArea], Offset, file)
    /\ Len(Pending) < PendingMax
    /\ \A j \in 1 .. Len(Pending) : Pending[j] = file[Offset + j]
    /\ \A j \in 1 .. Len(chunk) : chunk[j] = file[Offset + Len(Pending) + j]
    /\ Offset + Len(Pending) + Len(chunk)
         = store_ctx.written + (IF pc = "write" THEN size ELSE 0)
    /\ Offset + Len(Pending) + Len(chunk) <= Len(file)

\* After the last flush the whole file is in the store area.
Received ==
  pc \in Ended =>
    /\ flash[StoreArea] = Filling(AreaLen[StoreArea], Len(file), file)
    /\ store_ctx.written = Len(file) /\ Offset >= Len(file)
    /\ Pending = <<>>

\* The commit has copied the first words of it to the slot.
Copying ==
  pc = "copy" => copied <= Len(file) /\ flash["slot"] = Filling(SlotLen, copied, file)

\* The locals of a call that is not under way.
NoLocals == (pc # "copy" => copied = 0) /\ (pc # "write" => chunk = <<>>)

StoreInv ==
  /\ StoreTypes /\ Transfer /\ Receiving /\ Received /\ Copying /\ NoLocals
  /\ CommitVerified /\ SuccessIsInstalled

\* At power-on the slot is empty and no transfer is under way.
LEMMA StoreInit == Init => StoreInv
<1> SUFFICES ASSUME Init PROVE StoreInv
  OBVIOUS
<1>1. StoreTypes
  BY ImageStoreAssumption DEF Init, StoreTypes, Blank, AreaLen, Context, InCall
<1>2. Transfer /\ Receiving /\ Received /\ Copying /\ NoLocals /\ SuccessIsInstalled
  BY DEF Init, Transfer, Receiving, Received, Copying, NoLocals, SuccessIsInstalled, InCall, Ended
<1> QED
  BY <1>1, <1>2, CommitVerifiedInit DEF StoreInv

\* The area a flash call does not name keeps its words; both keep their size.
LEMMA FlashSizes ==
  ASSUME StoreTypes, NEW area \in {"slot", "patch"}, NEW out,
         \/ flash_area_flatten(area, out)
         \/ \E offset, data : flash_area_write(area, offset, data, out)
  PROVE  /\ DOMAIN flash' = {"slot", "patch"}
         /\ \A other \in {"slot", "patch"} : DOMAIN flash'[other] = 1 .. AreaLen[other]
  BY DEF flash_area_flatten, flash_area_write, StoreTypes, Program

\* What a step must establish that ends the transfer without success, or
\* with a power loss.
LEMMA EndedBadly ==
  ASSUME StoreInv, CommitVerified',
         pc' \in {"done", "off", "idle"}, pc' = "done" => result' = "error",
         store_ctx' = Context(FALSE, 0), NoCall,
         DOMAIN flash' = {"slot", "patch"},
         \A area \in {"slot", "patch"} : DOMAIN flash'[area] = 1 .. AreaLen[area],
         UNCHANGED direct
  PROVE  StoreInv'
<1>1. StoreTypes'
  BY DEF StoreInv, StoreTypes, Context, NoCall, InCall
<1>2. Transfer' /\ Receiving' /\ Received' /\ Copying' /\ NoLocals' /\ SuccessIsInstalled'
  BY DEF NoCall, Transfer, Receiving, Received, Copying, NoLocals, SuccessIsInstalled, InCall, Ended
<1> QED
  BY <1>1, <1>2 DEF StoreInv

\* An erase that succeeds leaves no word.
LEMMA EraseSucceeds ==
  ASSUME StoreTypes, NEW area \in {"slot", "patch"}, NEW f, flash_area_flatten(area, "ok")
  PROVE  flash'[area] = Filling(AreaLen[area], 0, f)
<1>1. flash'[area] = [k \in 1 .. AreaLen[area] |-> Erased]
  BY DEF flash_area_flatten, StoreTypes
<1>2. AreaLen[area] \in Nat
  BY ImageStoreAssumption DEF AreaLen
<1>3. \A k \in 1 .. AreaLen[area] : ~(k <= 0)
  BY <1>2
<1>4. Filling(AreaLen[area], 0, f) = [k \in 1 .. AreaLen[area] |-> Erased]
  BY <1>3, Zenon DEF Filling
<1> QED
  BY <1>1, <1>4

\* n words of s behind its first m.
LEMMA PartOf ==
  ASSUME NEW s \in Seq(Words), NEW m \in Nat, NEW n \in Nat, m + n <= Len(s)
  PROVE  /\ SubSeq(s, m + 1, m + n) \in Seq(Words)
         /\ Len(SubSeq(s, m + 1, m + n)) = n
         /\ \A j \in 1 .. n : SubSeq(s, m + 1, m + n)[j] = s[m + j]
<1> DEFINE from == m + 1
           to   == m + n
<1>1. from \in Int /\ to \in Int
  OBVIOUS
<1>2. \A i \in from .. to : s[i] \in Words
  OBVIOUS
<1>3. (IF from <= to THEN to - from + 1 ELSE 0) = n /\ to - from + 1 = n
  OBVIOUS
<1>4. \A j \in 1 .. n : from + j - 1 = m + j
  OBVIOUS
<1> HIDE DEF from, to
<1>5. /\ SubSeq(s, from, to) \in Seq(Words)
      /\ Len(SubSeq(s, from, to)) = IF from <= to THEN to - from + 1 ELSE 0
      /\ \A i \in 1 .. to - from + 1 : SubSeq(s, from, to)[i] = s[from + i - 1]
  BY <1>1, <1>2, SubSeqProperties
<1>6. /\ SubSeq(s, from, to) \in Seq(Words)
      /\ Len(SubSeq(s, from, to)) = n
      /\ \A j \in 1 .. n : SubSeq(s, from, to)[j] = s[m + j]
  BY <1>3, <1>4, <1>5
<1> QED
  BY <1>6 DEF from, to

\* rtbus_image_store_begin erases the store area and opens a context.
LEMMA BeginKeeps ==
  ASSUME StoreInv, CommitVerified', NEW out, NEW f \in Files, Begin(f, out)
  PROVE  StoreInv'
<1>0. StoreArea \in {"slot", "patch"} /\ AreaLen[StoreArea] \in Nat /\ UNCHANGED StoreArea
  BY ImageStoreAssumption DEF StoreArea, AreaLen, Begin
<1>1. flash_area_flatten(StoreArea, out) /\ UNCHANGED direct
  BY DEF Begin
<1>2. /\ DOMAIN flash' = {"slot", "patch"}
      /\ \A area \in {"slot", "patch"} : DOMAIN flash'[area] = 1 .. AreaLen[area]
  BY <1>0, <1>1, FlashSizes DEF StoreInv
<1>3. CASE out = "ok"
  <2>1. /\ store_ctx' = Context(TRUE, Len(f)) /\ pc' = "receive" /\ file' = f
        /\ UNCHANGED <<chunk, size, copied, result>>
    BY <1>3 DEF Begin, call
  <2>2. flash'[StoreArea] = Filling(AreaLen[StoreArea], 0, f)
    BY <1>0, <1>1, <1>3, EraseSucceeds DEF StoreInv
  <2>3. Len(f) \in Nat /\ Len(f) <= SlotLen /\ Len(f) <= AreaLen[StoreArea]
    BY FilesAreWords DEF Begin, Fits
  <2>4. chunk = <<>> /\ copied = 0
    BY DEF Begin, StoreInv, NoLocals
  <2>5. StoreTypes'
    BY <1>1, <1>2, <2>1, <2>3 DEF StoreInv, StoreTypes, Context, InCall
  <2>6. Transfer'
    BY <1>0, <2>1, <2>3 DEF Transfer, Context
  <2>7. Receiving'
    BY <1>0, <2>1, <2>2, <2>3, <2>4, ImageStoreAssumption
       DEF Receiving, Context, Offset, Pending
  <2>8. Received' /\ Copying' /\ NoLocals' /\ SuccessIsInstalled'
    BY <2>1, <2>4 DEF Received, Copying, NoLocals, SuccessIsInstalled, Ended
  <2> QED
    BY <2>5, <2>6, <2>7, <2>8 DEF StoreInv
<1>4. CASE Return("error") \/ CutPower
  BY <1>1, <1>2, <1>4, EndedBadly DEF Return, CutPower
<1> QED
  BY <1>3, <1>4 DEF Begin

\* rtbus_image_store_write is given the next words of the file.
LEMMA WriteKeeps ==
  ASSUME StoreInv, CommitVerified', NEW n \in 1 .. ChunkMax, Write(n)
  PROVE  StoreInv'
<1>1. /\ pc = "receive" /\ pc' = "write" /\ size' = n
      /\ UNCHANGED <<direct, flash, store_ctx, file, copied, result>>
      /\ n <= store_ctx.expected_size - store_ctx.written
      /\ chunk' = SubSeq(file, store_ctx.written + 1, store_ctx.written + n)
  BY DEF Write
<1>2. /\ store_ctx.expected_size = Len(file) /\ file \in Seq(Words)
      /\ store_ctx.written \in Nat /\ n \in Nat
  BY <1>1, FilesAreWords, ImageStoreAssumption DEF StoreInv, StoreTypes, Transfer, InCall
<1>3. store_ctx.written + n <= Len(file)
  BY <1>1, <1>2
<1>4. /\ chunk' \in Seq(Words) /\ Len(chunk') = n
      /\ \A j \in 1 .. n : chunk'[j] = file[store_ctx.written + j]
  BY <1>1, <1>2, <1>3, PartOf
<1>5. StoreTypes'
  BY <1>1, <1>2, <1>4 DEF StoreInv, StoreTypes, InCall
<1>6. UNCHANGED <<StoreArea, Offset, Pending>>
  BY <1>1 DEF StoreArea, Offset, Pending
<1>7. Offset \in Nat /\ Len(Pending) \in Nat /\ Offset + Len(Pending) = store_ctx.written
  BY <1>1, <1>2 DEF StoreInv, StoreTypes, Receiving, NoLocals, Offset, Pending
<1>8. Receiving'
  <2>1. /\ flash[StoreArea] = Filling(AreaLen[StoreArea], Offset, file)
        /\ Len(Pending) < PendingMax
        /\ \A j \in 1 .. Len(Pending) : Pending[j] = file[Offset + j]
    BY <1>1 DEF StoreInv, Receiving
  <2>2. \A j \in 1 .. Len(chunk') : chunk'[j] = file[Offset + Len(Pending) + j]
    BY <1>4, <1>7
  <2>3. /\ Offset + Len(Pending) + Len(chunk') = store_ctx.written + size'
        /\ Offset + Len(Pending) + Len(chunk') <= Len(file)
    <3>1. Len(chunk') = n /\ size' = n
      BY <1>1, <1>4
    <3>2. Offset + Len(Pending) + n = store_ctx.written + n
      BY <1>2, <1>7
    <3> QED
      BY <1>3, <3>1, <3>2
  <2> QED
    BY <1>1, <1>6, <2>1, <2>2, <2>3 DEF Receiving
<1>9. Transfer' /\ Received' /\ Copying' /\ NoLocals' /\ SuccessIsInstalled'
  BY <1>1, <1>6 DEF StoreInv, Transfer, Received, Copying, NoLocals, SuccessIsInstalled,
                    InCall, Ended
<1> QED
  BY <1>5, <1>8, <1>9 DEF StoreInv

\* One turn of the loop takes the next words of the packet to the buffer.
LEMMA TurnTakes ==
  ASSUME StoreInv, pc = "write"
  PROVE  /\ Filled \in Seq(Words) /\ Len(Filled) <= PendingMax
         /\ \A j \in 1 .. Len(Filled) : Filled[j] = file[Offset + j]
         /\ Offset \in Nat /\ Offset + Len(Filled) <= Len(file)
         /\ CopyLen \in Nat
         /\ SubSeq(chunk, CopyLen + 1, Len(chunk)) \in Seq(Words)
         /\ Offset + Len(Filled) + Len(SubSeq(chunk, CopyLen + 1, Len(chunk)))
              = store_ctx.written + size
         /\ store_ctx.written + size <= Len(file)
         /\ \A j \in 1 .. Len(SubSeq(chunk, CopyLen + 1, Len(chunk))) :
              SubSeq(chunk, CopyLen + 1, Len(chunk))[j] = file[Offset + Len(Filled) + j]
<1> DEFINE rest == SubSeq(chunk, CopyLen + 1, Len(chunk))
           part == SubSeq(chunk, 1, CopyLen)
<1>1. /\ Pending \in Seq(Words) /\ chunk \in Seq(Words) /\ Offset \in Nat
      /\ Len(Pending) < PendingMax /\ PendingMax \in Nat
      /\ store_ctx.written \in Nat /\ size \in Nat
  BY ImageStoreAssumption DEF StoreInv, StoreTypes, Receiving, Pending, Offset
<1>2. /\ \A j \in 1 .. Len(Pending) : Pending[j] = file[Offset + j]
      /\ \A j \in 1 .. Len(chunk) : chunk[j] = file[Offset + Len(Pending) + j]
  BY DEF StoreInv, Receiving
<1>3. /\ Offset + Len(Pending) + Len(chunk) = store_ctx.written + size
      /\ Offset + Len(Pending) + Len(chunk) <= Len(file)
  BY DEF StoreInv, Receiving
<1>4. /\ CopyLen \in Nat /\ CopyLen <= Len(chunk)
      /\ Len(Pending) + CopyLen <= PendingMax
  <2>1. Len(Pending) \in Nat /\ Len(chunk) \in Nat
    BY <1>1
  <2>2. Room = PendingMax - Len(Pending)
    BY DEF Room, Pending
  <2>3. CopyLen = IF Len(chunk) < Room THEN Len(chunk) ELSE Room
    BY DEF CopyLen
  <2> QED
    BY <1>1, <2>1, <2>2, <2>3
<1>5. part \in Seq(Words) /\ Len(part) = CopyLen /\ \A j \in 1 .. CopyLen : part[j] = chunk[j]
  <2>1. 0 + 1 = 1 /\ 0 + CopyLen = CopyLen /\ \A j \in 1 .. CopyLen : 0 + j = j
    BY <1>4
  <2>2. SubSeq(chunk, 0 + 1, 0 + CopyLen) = part
    BY <2>1
  <2> HIDE DEF part
  <2> QED
    BY <1>1, <1>4, <2>1, <2>2, PartOf
<1>6. /\ rest \in Seq(Words) /\ Len(rest) = Len(chunk) - CopyLen
      /\ \A j \in 1 .. Len(chunk) - CopyLen : rest[j] = chunk[CopyLen + j]
  <2> DEFINE n == Len(chunk) - CopyLen
  <2>1. n \in Nat /\ CopyLen + n = Len(chunk)
    BY <1>1, <1>4
  <2> HIDE DEF n
  <2>2. SubSeq(chunk, CopyLen + 1, CopyLen + n) = rest
    BY <2>1
  <2> HIDE DEF rest
  <2>3. /\ rest \in Seq(Words) /\ Len(rest) = n
        /\ \A j \in 1 .. n : rest[j] = chunk[CopyLen + j]
    <3>1. CopyLen + n <= Len(chunk)
      BY <1>1, <2>1
    <3>2. chunk \in Seq(Words) /\ CopyLen \in Nat /\ n \in Nat
      BY <1>1, <1>4, <2>1
    <3>3. /\ SubSeq(chunk, CopyLen + 1, CopyLen + n) \in Seq(Words)
          /\ Len(SubSeq(chunk, CopyLen + 1, CopyLen + n)) = n
          /\ \A j \in 1 .. n : SubSeq(chunk, CopyLen + 1, CopyLen + n)[j] = chunk[CopyLen + j]
      BY <3>1, <3>2, PartOf
    <3> QED
      BY <2>2, <3>3
  <2> QED
    BY <2>3 DEF n
<1> HIDE DEF rest, part
<1>7. Filled = Pending \o part
  BY DEF Filled, Pending, part
<1>8. /\ Filled \in Seq(Words) /\ Len(Filled) = Len(Pending) + CopyLen
      /\ \A j \in 1 .. Len(Pending) + CopyLen :
           Filled[j] = IF j <= Len(Pending) THEN Pending[j] ELSE part[j - Len(Pending)]
  BY <1>1, <1>5, <1>7, ConcatProperties
<1>9. \A j \in 1 .. Len(Filled) : Filled[j] = file[Offset + j]
  <2> SUFFICES ASSUME NEW j \in 1 .. Len(Filled) PROVE Filled[j] = file[Offset + j]
    OBVIOUS
  <2>1. CASE j <= Len(Pending)
    <3>1. j \in 1 .. Len(Pending) /\ j \in 1 .. Len(Pending) + CopyLen
      BY <1>1, <1>8, <2>1
    <3> QED
      BY <1>2, <1>8, <2>1, <3>1
  <2>2. CASE j > Len(Pending)
    <3>1. j - Len(Pending) \in 1 .. CopyLen /\ j - Len(Pending) \in 1 .. Len(chunk)
      BY <1>1, <1>4, <1>8, <2>2
    <3>2. Filled[j] = chunk[j - Len(Pending)]
      BY <1>1, <1>4, <1>5, <1>8, <2>2, <3>1
    <3>3. chunk[j - Len(Pending)] = file[Offset + Len(Pending) + (j - Len(Pending))]
      BY <1>2, <3>1
    <3>4. Offset + Len(Pending) + (j - Len(Pending)) = Offset + j
      BY <1>1, <1>8
    <3> QED
      BY <3>2, <3>3, <3>4
  <2> QED
    BY <1>1, <1>4, <1>8, <2>1, <2>2
<1>10. \A j \in 1 .. Len(rest) : rest[j] = file[Offset + Len(Filled) + j]
  <2> SUFFICES ASSUME NEW j \in 1 .. Len(rest)
               PROVE  rest[j] = file[Offset + Len(Filled) + j]
    OBVIOUS
  <2>1. rest[j] = chunk[CopyLen + j] /\ CopyLen + j \in 1 .. Len(chunk)
    BY <1>1, <1>4, <1>6
  <2>2. chunk[CopyLen + j] = file[Offset + Len(Pending) + (CopyLen + j)]
    BY <1>2, <2>1
  <2>3. Offset + Len(Pending) + (CopyLen + j) = Offset + Len(Filled) + j
    BY <1>1, <1>4, <1>8
  <2> QED
    BY <2>1, <2>2, <2>3
<1>11. /\ Len(Filled) <= PendingMax
       /\ Offset + Len(Filled) <= Len(file)
       /\ Offset + Len(Filled) + Len(rest) = store_ctx.written + size
       /\ store_ctx.written + size <= Len(file)
  <2>1. Len(file) \in Nat
    BY FilesAreWords DEF StoreInv, Transfer, InCall
  <2> QED
    BY <1>1, <1>3, <1>4, <1>6, <1>8, <2>1
<1> QED
  BY <1>1, <1>4, <1>6, <1>8, <1>9, <1>10, <1>11 DEF rest

\* A turn of its loop that succeeds counts what it took.
LEMMA TurnKeeps ==
  ASSUME StoreInv, CommitVerified', pc = "write",
         NEW offset \in Nat, NEW pending \in Seq(Words), AfterTurn(offset, pending),
         offset + Len(pending) = Offset + Len(Filled), Len(pending) < PendingMax,
         \A j \in 1 .. Len(pending) : pending[j] = file[offset + j],
         flash'[StoreArea] = Filling(AreaLen[StoreArea], offset, file),
         DOMAIN flash' = {"slot", "patch"},
         \A area \in {"slot", "patch"} : DOMAIN flash'[area] = 1 .. AreaLen[area],
         UNCHANGED direct
  PROVE  StoreInv'
<1>1. /\ UNCHANGED <<file, size, copied, result>>
      /\ chunk' = SubSeq(chunk, CopyLen + 1, Len(chunk))
      /\ pc' = IF chunk' = <<>> THEN "receive" ELSE "write"
  BY DEF AfterTurn
<1>2. /\ chunk' \in Seq(Words)
      /\ Offset + Len(Filled) + Len(chunk') = store_ctx.written + size
      /\ store_ctx.written + size <= Len(file)
      /\ \A j \in 1 .. Len(chunk') : chunk'[j] = file[Offset + Len(Filled) + j]
  BY <1>1, TurnTakes
<1>3. /\ store_ctx \in [active : BOOLEAN, expected_size : Nat, written : Nat,
                        flash_write_offset : Nat, flash_pending : Seq(Words)]
      /\ store_ctx.active /\ store_ctx.written + size \in Nat
  BY DEF StoreInv, StoreTypes, InCall
<1>4. /\ store_ctx' \in [active : BOOLEAN, expected_size : Nat, written : Nat,
                         flash_write_offset : Nat, flash_pending : Seq(Words)]
      /\ store_ctx'.active /\ store_ctx'.expected_size = store_ctx.expected_size
      /\ Offset' = offset /\ Pending' = pending
      /\ store_ctx'.written = IF chunk' = <<>> THEN store_ctx.written + size
                              ELSE store_ctx.written
  BY <1>3 DEF AfterTurn, Offset, Pending
<1>5. UNCHANGED StoreArea
  BY DEF StoreArea
<1>6. StoreTypes'
  BY <1>1, <1>2, <1>4 DEF StoreInv, StoreTypes, InCall
<1>7. Transfer'
  BY <1>1, <1>4, <1>5 DEF StoreInv, Transfer, InCall
<1>8. Receiving'
  <2>1. Offset' + Len(Pending') + Len(chunk') = store_ctx.written + size
    BY <1>2, <1>4
  <2>2. store_ctx'.written + (IF pc' = "write" THEN size' ELSE 0) = store_ctx.written + size
    BY <1>1, <1>3, <1>4
  <2>3. \A j \in 1 .. Len(chunk') : chunk'[j] = file'[Offset' + Len(Pending') + j]
    BY <1>1, <1>2, <1>4
  <2> QED
    BY <1>1, <1>2, <1>4, <1>5, <2>1, <2>2, <2>3 DEF Receiving
<1>9. Received' /\ Copying' /\ NoLocals' /\ SuccessIsInstalled'
  BY <1>1 DEF StoreInv, Received, Copying, NoLocals, SuccessIsInstalled, Ended
<1> QED
  BY <1>6, <1>7, <1>8, <1>9 DEF StoreInv

\* A turn that does not fill the pending buffer leaves flash alone.
LEMMA FillKeeps ==
  ASSUME StoreInv, CommitVerified', FillPending
  PROVE  StoreInv'
<1>1. /\ pc = "write" /\ Len(Filled) < PendingMax /\ AfterTurn(Offset, Filled)
      /\ UNCHANGED <<direct, flash>>
  BY DEF FillPending, Offset
<1>2. /\ Filled \in Seq(Words) /\ Offset \in Nat
      /\ \A j \in 1 .. Len(Filled) : Filled[j] = file[Offset + j]
  BY <1>1, TurnTakes
<1>3. /\ flash[StoreArea] = Filling(AreaLen[StoreArea], Offset, file)
      /\ DOMAIN flash = {"slot", "patch"}
      /\ \A area \in {"slot", "patch"} : DOMAIN flash[area] = 1 .. AreaLen[area]
  BY <1>1 DEF StoreInv, StoreTypes, Receiving
<1> QED
  BY <1>1, <1>2, <1>3, TurnKeeps

\* A turn that fills it appends it to what is in flash.
LEMMA FlushKeeps ==
  ASSUME StoreInv, CommitVerified', NEW out, FlushPending(out)
  PROVE  StoreInv'
<1>0. StoreArea \in {"slot", "patch"} /\ AreaLen[StoreArea] \in Nat
  BY ImageStoreAssumption DEF StoreArea, AreaLen
<1>1. /\ pc = "write" /\ Len(Filled) = PendingMax /\ UNCHANGED direct
      /\ flash_area_write(StoreArea, Offset, Filled, out)
  BY DEF FlushPending, Offset
<1>2. /\ Filled \in Seq(Words) /\ Offset \in Nat
      /\ \A j \in 1 .. Len(Filled) : Filled[j] = file[Offset + j]
  BY <1>1, TurnTakes
<1>3. /\ DOMAIN flash' = {"slot", "patch"}
      /\ \A area \in {"slot", "patch"} : DOMAIN flash'[area] = 1 .. AreaLen[area]
  BY <1>0, <1>1, FlashSizes DEF StoreInv
<1>4. CASE out = "ok"
  <2> DEFINE m == Offset + PendingMax
             none == <<>>
  <2>1. AfterTurn(m, none)
    BY <1>4 DEF FlushPending, NextOffset, Unless, Offset
  <2>2. /\ PendingMax \in Nat /\ 0 < PendingMax
        /\ m \in Nat /\ Offset <= m /\ m <= Offset + Len(Filled)
        /\ none \in Seq(Words) /\ Len(none) < PendingMax
        /\ m + Len(none) = Offset + Len(Filled)
    BY <1>1, <1>2, ImageStoreAssumption
  <2>3. \A j \in 1 .. Len(none) : none[j] = file[m + j]
    OBVIOUS
  <2>4. \A j \in 1 .. Len(Filled) :
          Filled[j] = IF Offset + j <= m THEN file[Offset + j] ELSE Erased
    BY <1>1, <1>2, <2>2
  <2> HIDE DEF m, none
  <2>5. flash[StoreArea] = Filling(AreaLen[StoreArea], Offset, file)
    BY <1>1 DEF StoreInv, Receiving
  <2>6. flash'[StoreArea] = Program(flash[StoreArea], Offset, Filled)
    BY <1>0, <1>1, <1>2, <1>4, WriteSucceeds DEF StoreInv, StoreTypes
  <2>7. Program(Filling(AreaLen[StoreArea], Offset, file), Offset, Filled)
          = Filling(AreaLen[StoreArea], m, file)
    <3>1. /\ AreaLen[StoreArea] \in Nat /\ Offset \in Nat /\ m \in Nat
          /\ Filled \in Seq(Words) /\ Offset <= m /\ m <= Offset + Len(Filled)
      BY <1>0, <1>2, <2>2
    <3> QED
      BY ONLY <2>4, <3>1, ProgramAppends
  <2>8. flash'[StoreArea] = Filling(AreaLen[StoreArea], m, file)
    BY <2>5, <2>6, <2>7
  <2> QED
    BY <1>1, <1>3, <2>1, <2>2, <2>3, <2>8, TurnKeeps
<1>5. CASE Unless(out)
  BY <1>1, <1>3, <1>5, EndedBadly DEF Unless, Return, CutPower
<1> QED
  BY <1>4, <1>5 DEF FlushPending

\* What the last flush writes is the rest of the file, padded.
LEMMA FinishWrites ==
  ASSUME StoreInv, pc = "receive", store_ctx.written = store_ctx.expected_size
  PROVE  /\ Padded(Pending) \in Seq(Words) /\ Offset \in Nat /\ Len(file) \in Nat
         /\ Len(Pending) \in Nat /\ Offset + Len(Pending) = Len(file)
         /\ store_ctx.expected_size = Len(file)
         /\ Offset <= Len(file) /\ Len(file) <= Offset + Len(Padded(Pending))
         /\ Len(Padded(Pending)) \in Nat
         /\ flash[StoreArea] = Filling(AreaLen[StoreArea], Offset, file)
         /\ \A j \in 1 .. Len(Padded(Pending)) :
              Padded(Pending)[j] = IF Offset + j <= Len(file) THEN file[Offset + j] ELSE Erased
<1> DEFINE data == Padded(Pending)
<1>1. /\ Pending \in Seq(Words) /\ Offset \in Nat /\ Len(Pending) \in Nat
      /\ store_ctx.expected_size = Len(file) /\ Len(file) \in Nat
      /\ Offset + Len(Pending) = Len(file)
      /\ flash[StoreArea] = Filling(AreaLen[StoreArea], Offset, file)
      /\ \A j \in 1 .. Len(Pending) : Pending[j] = file[Offset + j]
  BY FilesAreWords
     DEF StoreInv, StoreTypes, Transfer, Receiving, NoLocals, InCall, Offset, Pending
<1>2. /\ data \in Seq(Words) /\ Len(data) >= Len(Pending) /\ Len(data) \in Nat
      /\ \A j \in 1 .. Len(data) : data[j] = IF j <= Len(Pending) THEN Pending[j] ELSE Erased
  BY <1>1, PaddedWords
<1> HIDE DEF data
<1>3. \A j \in 1 .. Len(data) :
        data[j] = IF Offset + j <= Len(file) THEN file[Offset + j] ELSE Erased
  <2> SUFFICES ASSUME NEW j \in 1 .. Len(data)
               PROVE  data[j] = IF Offset + j <= Len(file) THEN file[Offset + j] ELSE Erased
    OBVIOUS
  <2>1. data[j] = IF j <= Len(Pending) THEN Pending[j] ELSE Erased
    BY <1>2
  <2>2. j <= Len(Pending) <=> Offset + j <= Len(file)
    BY <1>1, <1>2
  <2>3. j <= Len(Pending) => Pending[j] = file[Offset + j]
    BY <1>1, <1>2
  <2> QED
    BY <2>1, <2>2, <2>3
<1>4. Offset <= Len(file) /\ Len(file) <= Offset + Len(data)
  BY <1>1, <1>2
<1> QED
  BY <1>1, <1>2, <1>3, <1>4 DEF data

\* The last flush pads the pending words; the file is complete then.
LEMMA FinishFlushKeeps ==
  ASSUME StoreInv, CommitVerified', NEW out, FinishFlush(out)
  PROVE  StoreInv'
<1>0. StoreArea \in {"slot", "patch"} /\ AreaLen[StoreArea] \in Nat
  BY ImageStoreAssumption DEF StoreArea, AreaLen
<1>1. /\ pc = "receive" /\ store_ctx.written = store_ctx.expected_size
      /\ UNCHANGED direct
      /\ flash_area_write(StoreArea, Offset, Padded(Pending), out)
  BY DEF FinishFlush, Offset, Pending
<1>2. /\ DOMAIN flash' = {"slot", "patch"}
      /\ \A area \in {"slot", "patch"} : DOMAIN flash'[area] = 1 .. AreaLen[area]
  BY <1>0, <1>1, FlashSizes DEF StoreInv
<1>3. CASE out = "ok"
  <2> DEFINE data == Padded(Pending)
  <2>1. /\ data \in Seq(Words) /\ Len(data) \in Nat /\ Offset \in Nat /\ Len(file) \in Nat
        /\ store_ctx.expected_size = Len(file)
        /\ Offset <= Len(file) /\ Len(file) <= Offset + Len(data)
        /\ flash[StoreArea] = Filling(AreaLen[StoreArea], Offset, file)
        /\ \A j \in 1 .. Len(data) :
             data[j] = IF Offset + j <= Len(file) THEN file[Offset + j] ELSE Erased
    BY <1>1, FinishWrites
  <2>2. /\ pc' = "verify" /\ UNCHANGED <<file, chunk, size, copied, result>>
        /\ store_ctx' = [store_ctx EXCEPT !.flash_write_offset = NextOffset(Len(data)),
                                          !.flash_pending = <<>>]
    BY <1>3 DEF FinishFlush, Unless, call, Pending
  <2> HIDE DEF data
  <2>3. flash'[StoreArea] = Filling(AreaLen[StoreArea], Len(file), file)
    <3>1. flash'[StoreArea] = Program(flash[StoreArea], Offset, data)
      BY <1>0, <1>1, <1>3, <2>1, WriteSucceeds DEF StoreInv, StoreTypes, data
    <3>2. /\ AreaLen[StoreArea] \in Nat /\ Offset \in Nat /\ Len(file) \in Nat
          /\ data \in Seq(Words) /\ Offset <= Len(file) /\ Len(file) <= Offset + Len(data)
      BY <1>0, <2>1
    <3>3. \A j \in 1 .. Len(data) :
            data[j] = IF Offset + j <= Len(file) THEN file[Offset + j] ELSE Erased
      BY <2>1
    <3>4. Program(Filling(AreaLen[StoreArea], Offset, file), Offset, data)
            = Filling(AreaLen[StoreArea], Len(file), file)
      BY ONLY <3>2, <3>3, ProgramAppends
    <3> QED
      BY <2>1, <3>1, <3>4
  <2>4. /\ store_ctx' \in [active : BOOLEAN, expected_size : Nat, written : Nat,
                           flash_write_offset : Nat, flash_pending : Seq(Words)]
        /\ store_ctx'.active /\ store_ctx'.expected_size = Len(file)
        /\ store_ctx'.written = Len(file)
        /\ Offset' = Offset + Len(data) /\ Pending' = <<>>
    <3>1. /\ store_ctx \in [active : BOOLEAN, expected_size : Nat, written : Nat,
                            flash_write_offset : Nat, flash_pending : Seq(Words)]
          /\ store_ctx.active
      BY <1>1 DEF StoreInv, StoreTypes, InCall
    <3>2. NextOffset(Len(data)) = Offset + Len(data) /\ Offset + Len(data) \in Nat
      BY <2>1 DEF NextOffset, Offset
    <3>3. <<>> \in Seq(Words) /\ NextOffset(Len(data)) \in Nat
      BY <3>2
    <3>4. /\ store_ctx' \in [active : BOOLEAN, expected_size : Nat, written : Nat,
                             flash_write_offset : Nat, flash_pending : Seq(Words)]
          /\ store_ctx'.active /\ store_ctx'.expected_size = store_ctx.expected_size
          /\ store_ctx'.written = store_ctx.written
          /\ store_ctx'.flash_write_offset = NextOffset(Len(data))
          /\ store_ctx'.flash_pending = <<>>
      BY ONLY <2>2, <3>1, <3>3
    <3> QED
      BY <1>1, <2>1, <3>2, <3>4 DEF Offset, Pending
  <2>5. UNCHANGED StoreArea
    BY <1>1 DEF StoreArea
  <2>6. chunk = <<>> /\ copied = 0
    BY <1>1 DEF StoreInv, NoLocals
  <2>7. StoreTypes'
    BY <1>1, <1>2, <2>2, <2>4 DEF StoreInv, StoreTypes, InCall
  <2>8. Transfer'
    BY <1>1, <2>2, <2>4, <2>5 DEF StoreInv, Transfer, InCall
  <2>9. Received'
    <3>1. Offset + Len(data) >= Len(file)
      BY <2>1
    <3> QED
      BY <2>2, <2>3, <2>4, <2>5, <3>1 DEF Received
  <2>10. Receiving' /\ Copying' /\ NoLocals' /\ SuccessIsInstalled'
    BY <2>2, <2>6 DEF Receiving, Copying, NoLocals, SuccessIsInstalled
  <2> QED
    BY <2>7, <2>8, <2>9, <2>10 DEF StoreInv
<1>4. CASE Unless(out)
  BY <1>1, <1>2, <1>4, EndedBadly DEF Unless, Return, CutPower
<1> QED
  BY <1>3, <1>4 DEF FinishFlush

\* What is read back is the file.
LEMMA StoredIsFile ==
  ASSUME StoreInv, pc \in Ended
  PROVE  Stored = file /\ file \in Seq(Words) /\ Len(file) <= SlotLen
<1>1. /\ file \in Seq(Words) /\ Len(file) \in Nat /\ Len(file) <= SlotLen
      /\ store_ctx.written = Len(file) /\ Len(file) <= AreaLen[StoreArea]
      /\ flash[StoreArea] = Filling(AreaLen[StoreArea], Len(file), file)
      /\ AreaLen[StoreArea] \in Nat
  BY FilesAreWords, ImageStoreAssumption
     DEF StoreInv, Transfer, Received, InCall, Ended, StoreArea, AreaLen
<1>2. \A k \in 1 .. Len(file) : flash[StoreArea][k] = file[k] /\ file[k] \in Words
  BY <1>1 DEF Filling
<1>3. /\ Stored \in Seq(Words) /\ Len(Stored) = Len(file)
      /\ \A k \in 1 .. Len(file) : Stored[k] = file[k]
  <2> DEFINE words == flash[StoreArea]
  <2>1. \A i \in 1 .. Len(file) : words[i] \in Words
    BY <1>2
  <2>2. Stored = SubSeq(words, 1, Len(file))
    BY <1>1 DEF Stored
  <2> HIDE DEF words
  <2>3. /\ Stored \in Seq(Words)
        /\ Len(Stored) = IF 1 <= Len(file) THEN Len(file) - 1 + 1 ELSE 0
        /\ \A i \in 1 .. Len(file) - 1 + 1 : Stored[i] = words[1 + i - 1]
    BY <1>1, <2>1, <2>2, SubSeqProperties
  <2>4. \A i \in 1 .. Len(file) : Stored[i] = words[i]
    BY <1>1, <2>3
  <2> QED
    BY <1>1, <1>2, <2>3, <2>4 DEF words
<1> QED
  BY <1>1, <1>3

\* Sequences that agree between a and b have the same part there.
LEMMA SamePart ==
  ASSUME NEW s, NEW t, NEW a \in Int, NEW b \in Int,
         \A i \in a .. b : s[i] = t[i] /\ s[i] \in Words
  PROVE  SubSeq(s, a, b) = SubSeq(t, a, b)
<1>1. /\ SubSeq(s, a, b) \in Seq(Words)
      /\ Len(SubSeq(s, a, b)) = IF a <= b THEN b - a + 1 ELSE 0
      /\ \A i \in 1 .. b - a + 1 : SubSeq(s, a, b)[i] = s[a + i - 1]
  BY SubSeqProperties
<1>2. /\ SubSeq(t, a, b) \in Seq(Words)
      /\ Len(SubSeq(t, a, b)) = IF a <= b THEN b - a + 1 ELSE 0
      /\ \A i \in 1 .. b - a + 1 : SubSeq(t, a, b)[i] = t[a + i - 1]
  BY SubSeqProperties
<1>3. \A i \in 1 .. b - a + 1 : a + i - 1 \in a .. b
  OBVIOUS
<1>4. \A i \in 1 .. b - a + 1 : SubSeq(s, a, b)[i] = SubSeq(t, a, b)[i]
  BY <1>1, <1>2, <1>3
<1>5. \A i \in 1 .. Len(SubSeq(s, a, b)) : i \in 1 .. b - a + 1
  BY <1>1
<1> QED
  BY <1>1, <1>2, <1>4, <1>5

\* A slot that holds an accepted file holds its image.
LEMMA Installed ==
  ASSUME StoreInv, pc \in Ended, Accepted, NEW words, words = Filling(SlotLen, Len(file), file)
  PROVE  /\ ImageIn(file) # None /\ ImageIn(words) = ImageIn(file)
         /\ file[1].required_ram_size <= RamMax
<1> DEFINE n == file[1].payload_size
<1>1. /\ Stored = file /\ file \in Seq(Words) /\ file \in Files
      /\ Len(file) \in Nat /\ Len(file) <= SlotLen /\ SlotLen \in Nat \ {0}
      /\ store_ctx.expected_size = Len(file)
  BY StoredIsFile, ImageStoreAssumption DEF StoreInv, Transfer, InCall, Ended
<1>2. /\ HeaderIn(file, Len(file) - 1) /\ CrcMatches(file)
      /\ file[1].required_ram_size <= RamMax
  BY <1>1 DEF Accepted
<1>3. n \in Int /\ 1 <= n /\ n + 1 <= Len(file)
  BY <1>1, <1>2 DEF HeaderIn
<1>4. file # <<>> /\ 1 \in 1 .. Len(file)
  BY <1>1, <1>3
<1>5. \A i \in 1 .. 1 + n : words[i] = file[i] /\ words[i] \in Words
  BY <1>1, <1>3 DEF Filling
<1>6. words # <<>> /\ Len(words) = SlotLen
  <2>1. words = [k \in 1 .. SlotLen |-> IF k <= Len(file) THEN file[k] ELSE Erased]
    BY DEF Filling
  <2>2. \A k \in 1 .. SlotLen : (IF k <= Len(file) THEN file[k] ELSE Erased) \in Words
    BY <1>1 DEF Words
  <2>3. words \in Seq(Words) /\ Len(words) = SlotLen
    BY <1>1, <2>1, <2>2
  <2> QED
    BY <1>1, <2>3
<1> HIDE DEF n
<1>7. words[1] = file[1]
  BY <1>3, <1>5
<1>8. SubSeq(words, 1, 1 + n) = SubSeq(file, 1, 1 + n)
  BY <1>3, <1>5, SamePart
<1>9. SubSeq(words, 2, 1 + n) = SubSeq(file, 2, 1 + n)
  <2>1. \A i \in 2 .. 1 + n : words[i] = file[i] /\ words[i] \in Words
    BY <1>3, <1>5
  <2> QED
    BY <1>3, <2>1, SamePart
<1>10. HeaderIn(words, Len(words) - 1) /\ CrcMatches(words)
  <2>1. HeaderIn(words, Len(words) - 1)
    BY <1>1, <1>2, <1>3, <1>6, <1>7 DEF HeaderIn, n
  <2>2. CrcMatches(words)
    BY <1>2, <1>7, <1>9 DEF CrcMatches, PayloadIn, n
  <2> QED
    BY <2>1, <2>2
<1>11. ImageIn(words) = SubSeq(file, 1, 1 + n) /\ ImageIn(file) = SubSeq(file, 1, 1 + n)
  BY <1>2, <1>4, <1>6, <1>7, <1>8, <1>10 DEF ImageIn, n
<1>12. SubSeq(file, 1, 1 + n) # None
  <2>1. file \in Seq(Range(file)) /\ None \notin Seq(Range(file))
    BY <1>1, ImageStoreAssumption
  <2>2. \A i \in 1 .. 1 + n : file[i] \in Range(file)
    BY <1>1, <1>3 DEF Range
  <2>3. SubSeq(file, 1, 1 + n) \in Seq(Range(file))
    BY <1>3, <2>2, SubSeqProperties
  <2> QED
    BY <2>1, <2>3
<1> QED
  BY <1>2, <1>11, <1>12

\* On a direct board the image that passes the checks is installed already.
LEMMA VerifyKeeps ==
  ASSUME StoreInv, CommitVerified', Verify
  PROVE  StoreInv'
<1>1. pc = "verify" /\ UNCHANGED <<direct, flash, file, launched>>
  BY DEF Verify
<1>2. /\ DOMAIN flash' = {"slot", "patch"}
      /\ \A area \in {"slot", "patch"} : DOMAIN flash'[area] = 1 .. AreaLen[area]
  BY <1>1 DEF StoreInv, StoreTypes
<1>3. CASE Return("error")
  BY <1>1, <1>2, <1>3, EndedBadly DEF Return
<1>4. CASE Accepted /\ direct /\ Return("ok")
  <2>1. /\ result' = "ok" /\ pc' = "done" /\ NoCall /\ store_ctx' = Context(FALSE, 0)
    BY <1>4 DEF Return
  <2>2. StoreTypes'
    BY <1>1, <1>2, <2>1 DEF StoreInv, StoreTypes, Context, NoCall, InCall
  <2>3. flash["slot"] = Filling(SlotLen, Len(file), file)
    BY <1>1, <1>4 DEF StoreInv, Received, Ended, StoreArea, AreaLen
  <2>4. SuccessIsInstalled'
    BY <1>1, <1>4, <2>3, Installed DEF SuccessIsInstalled, Ended
  <2>5. Transfer' /\ Receiving' /\ Received' /\ Copying' /\ NoLocals'
    BY <2>1 DEF NoCall, Transfer, Receiving, Received, Copying, NoLocals, InCall, Ended
  <2> QED
    BY <2>2, <2>4, <2>5 DEF StoreInv
<1>5. CASE pc' = "commit" /\ UNCHANGED <<store_ctx, call, result>>
  <2>1. UNCHANGED <<StoreArea, Offset, Pending>>
    BY <1>1, <1>5 DEF StoreArea, Offset, Pending
  <2>2. StoreTypes'
    BY <1>1, <1>2, <1>5 DEF StoreInv, StoreTypes, call, InCall
  <2>3. Transfer' /\ Received'
    BY <1>1, <1>5, <2>1 DEF StoreInv, Transfer, Received, InCall, Ended
  <2>4. Receiving' /\ Copying' /\ NoLocals' /\ SuccessIsInstalled'
    BY <1>1, <1>5 DEF StoreInv, Receiving, Copying, NoLocals, SuccessIsInstalled, call
  <2> QED
    BY <2>2, <2>3, <2>4 DEF StoreInv
<1> QED
  BY <1>3, <1>4, <1>5 DEF Verify

\* The slot is erased and the copy begins.
LEMMA CommitEraseKeeps ==
  ASSUME StoreInv, CommitVerified', NEW out, CommitErase(out)
  PROVE  StoreInv'
<1>1. pc = "commit" /\ UNCHANGED direct /\ flash_area_flatten("slot", out) /\ ~direct
  BY DEF CommitErase, StoreInv, CommitVerified
<1>2. /\ DOMAIN flash' = {"slot", "patch"}
      /\ \A area \in {"slot", "patch"} : DOMAIN flash'[area] = 1 .. AreaLen[area]
      /\ flash'["patch"] = flash["patch"]
  BY <1>1, FlashSizes, FlashOneArea DEF StoreInv, StoreTypes
<1>3. CASE out = "ok"
  <2>1. pc' = "copy" /\ UNCHANGED <<store_ctx, file, call, result>>
    BY <1>3 DEF CommitErase, Unless
  <2>2. flash'["slot"] = Filling(SlotLen, 0, file)
    BY <1>1, <1>3, EraseSucceeds DEF StoreInv, AreaLen
  <2>3. StoreArea = "patch" /\ UNCHANGED <<StoreArea, Offset, Pending>>
    BY <1>1, <2>1 DEF StoreArea, Offset, Pending
  <2>4. copied = 0 /\ chunk = <<>> /\ Len(file) \in Nat
    BY <1>1, FilesAreWords DEF StoreInv, NoLocals, Transfer, InCall
  <2>5. StoreTypes'
    BY <1>1, <1>2, <2>1 DEF StoreInv, StoreTypes, call, InCall
  <2>6. Transfer' /\ Received'
    BY <1>1, <1>2, <2>1, <2>3 DEF StoreInv, Transfer, Received, InCall, Ended
  <2>7. Receiving' /\ Copying' /\ NoLocals' /\ SuccessIsInstalled'
    BY <2>1, <2>2, <2>4 DEF Receiving, Copying, NoLocals, SuccessIsInstalled, call
  <2> QED
    BY <2>5, <2>6, <2>7 DEF StoreInv
<1>4. CASE Unless(out)
  BY <1>1, <1>2, <1>4, EndedBadly DEF Unless, Return, CutPower
<1> QED
  BY <1>3, <1>4 DEF CommitErase

\* What one turn of the commit loop writes is the next block of the file, padded.
LEMMA CopyWrites ==
  ASSUME StoreInv, pc = "copy", copied < store_ctx.expected_size
  PROVE  \E m \in Nat :
           /\ Padded(Block) \in Seq(Words) /\ copied \in Nat /\ Len(file) \in Nat
           /\ store_ctx.expected_size = Len(file)
           /\ m = copied + Len(Block) /\ copied <= m /\ m <= Len(file)
           /\ m <= copied + Len(Padded(Block))
           /\ flash["slot"] = Filling(SlotLen, copied, file)
           /\ \A j \in 1 .. Len(Padded(Block)) :
                Padded(Block)[j] = IF copied + j <= m THEN file[copied + j] ELSE Erased
<1> DEFINE n == IF copied + BufLen < Len(file) THEN BufLen ELSE Len(file) - copied
           m == copied + n
           data == Padded(Block)
<1>1. /\ Stored = file /\ file \in Seq(Words) /\ copied \in Nat
      /\ store_ctx.expected_size = Len(file) /\ Len(file) \in Nat
      /\ flash["slot"] = Filling(SlotLen, copied, file) /\ SlotLen \in Nat
  BY StoredIsFile, ImageStoreAssumption
     DEF StoreInv, StoreTypes, Transfer, Copying, InCall, Ended
<1>2. n \in Nat /\ m \in Nat /\ m <= Len(file) /\ copied <= m
  BY <1>1, ImageStoreAssumption
<1>3. Block = SubSeq(file, copied + 1, copied + n)
  <2>1. copied + n = IF copied + BufLen < Len(file) THEN copied + BufLen ELSE Len(file)
    BY <1>1, ImageStoreAssumption
  <2> QED
    BY <1>1, <2>1 DEF Block
<1> HIDE DEF n
<1>4. /\ Block \in Seq(Words) /\ Len(Block) = n
      /\ \A j \in 1 .. n : Block[j] = file[copied + j]
  BY <1>1, <1>2, <1>3, PartOf
<1>5. /\ data \in Seq(Words) /\ Len(data) >= n /\ Len(data) \in Nat
      /\ \A j \in 1 .. Len(data) : data[j] = IF j <= n THEN Block[j] ELSE Erased
  BY <1>4, PaddedWords
<1> HIDE DEF data
<1>6. \A j \in 1 .. Len(data) :
        data[j] = IF copied + j <= m THEN file[copied + j] ELSE Erased
  <2> SUFFICES ASSUME NEW j \in 1 .. Len(data)
               PROVE  data[j] = IF copied + j <= m THEN file[copied + j] ELSE Erased
    OBVIOUS
  <2>1. data[j] = IF j <= n THEN Block[j] ELSE Erased
    BY <1>5
  <2>2. j <= n <=> copied + j <= m
    BY <1>1, <1>2, <1>5
  <2>3. j <= n => Block[j] = file[copied + j]
    BY <1>2, <1>4, <1>5
  <2> QED
    BY <2>1, <2>2, <2>3
<1>7. m <= copied + Len(data) /\ m = copied + Len(Block)
  BY <1>1, <1>2, <1>4, <1>5
<1> HIDE DEF m
<1> QED
  BY <1>1, <1>2, <1>5, <1>6, <1>7 DEF data

\* The next block of the file is copied behind the words that are there.
LEMMA CommitCopyKeeps ==
  ASSUME StoreInv, CommitVerified', NEW out, CommitCopy(out)
  PROVE  StoreInv'
<1>1. /\ pc = "copy" /\ copied < store_ctx.expected_size /\ UNCHANGED direct
      /\ flash_area_write("slot", copied, Padded(Block), out) /\ ~direct
  BY DEF CommitCopy, MoreToCopy, StoreInv, CommitVerified
<1>2. /\ DOMAIN flash' = {"slot", "patch"}
      /\ \A area \in {"slot", "patch"} : DOMAIN flash'[area] = 1 .. AreaLen[area]
      /\ flash'["patch"] = flash["patch"]
  BY <1>1, FlashSizes, FlashOneArea DEF StoreInv, StoreTypes
<1>3. CASE out = "ok"
  <2> DEFINE data == Padded(Block)
  <2>1. /\ pc' = pc /\ copied' = copied + Len(Block)
        /\ UNCHANGED <<store_ctx, file, chunk, size, result>>
    BY <1>3 DEF CommitCopy, Unless
  <2>2. PICK m \in Nat :
          /\ data \in Seq(Words) /\ copied \in Nat /\ Len(file) \in Nat
          /\ m = copied + Len(Block) /\ copied <= m /\ m <= Len(file)
          /\ m <= copied + Len(data)
          /\ flash["slot"] = Filling(SlotLen, copied, file)
          /\ \A j \in 1 .. Len(data) :
               data[j] = IF copied + j <= m THEN file[copied + j] ELSE Erased
    BY <1>1, CopyWrites
  <2> HIDE DEF data
  <2>3. flash'["slot"] = Program(flash["slot"], copied, data)
    BY <1>1, <1>3, <2>2, WriteSucceeds DEF StoreInv, StoreTypes, data
  <2>4. Program(Filling(SlotLen, copied, file), copied, data) = Filling(SlotLen, m, file)
    <3>1. /\ SlotLen \in Nat /\ copied \in Nat /\ m \in Nat /\ data \in Seq(Words)
          /\ copied <= m /\ m <= copied + Len(data)
      BY <2>2, ImageStoreAssumption
    <3>2. \A j \in 1 .. Len(data) :
            data[j] = IF copied + j <= m THEN file[copied + j] ELSE Erased
      BY <2>2
    <3> QED
      BY ONLY <3>1, <3>2, ProgramAppends
  <2>5. copied' = m /\ flash'["slot"] = Filling(SlotLen, m, file)
    BY <2>1, <2>2, <2>3, <2>4
  <2>6. StoreArea = "patch" /\ UNCHANGED <<StoreArea, Offset, Pending>>
    BY <1>1, <2>1 DEF StoreArea, Offset, Pending
  <2>7. StoreTypes'
    BY <1>1, <1>2, <2>1, <2>2, <2>5 DEF StoreInv, StoreTypes, InCall
  <2>8. Transfer' /\ Received'
    BY <1>1, <1>2, <2>1, <2>6 DEF StoreInv, Transfer, Received, InCall, Ended
  <2>9. Copying'
    BY <2>1, <2>2, <2>5 DEF Copying
  <2>10. Receiving' /\ NoLocals' /\ SuccessIsInstalled'
    BY <1>1, <2>1 DEF StoreInv, Receiving, NoLocals, SuccessIsInstalled
  <2> QED
    BY <2>7, <2>8, <2>9, <2>10 DEF StoreInv
<1>4. CASE Unless(out)
  BY <1>1, <1>2, <1>4, EndedBadly DEF Unless, Return, CutPower
<1> QED
  BY <1>3, <1>4 DEF CommitCopy

\* The last block has been copied: the slot holds what the store area holds.
LEMMA CommitDoneKeeps ==
  ASSUME StoreInv, CommitVerified', CommitDone
  PROVE  StoreInv'
<1>1. /\ pc = "copy" /\ ~(copied < store_ctx.expected_size)
      /\ UNCHANGED <<direct, flash, file, launched>>
      /\ result' = "ok" /\ pc' = "done" /\ NoCall /\ store_ctx' = Context(FALSE, 0)
  BY DEF CommitDone, MoreToCopy, Return
<1>2. copied = Len(file) /\ flash["slot"] = Filling(SlotLen, copied, file) /\ Accepted
  BY <1>1, FilesAreWords
     DEF StoreInv, StoreTypes, Transfer, Copying, CommitVerified, InCall
<1>3. StoreTypes'
  BY <1>1 DEF StoreInv, StoreTypes, Context, NoCall, InCall
<1>4. SuccessIsInstalled'
  BY <1>1, <1>2, Installed DEF SuccessIsInstalled, Ended
<1>5. Transfer' /\ Receiving' /\ Received' /\ Copying' /\ NoLocals'
  BY <1>1 DEF NoCall, Transfer, Receiving, Received, Copying, NoLocals, InCall, Ended
<1> QED
  BY <1>3, <1>4, <1>5 DEF StoreInv

\* Refusals, early ends, a launch and a power loss leave flash alone.
LEMMA QuietKeeps ==
  ASSUME StoreInv, CommitVerified',
         (\E f \in Files : BeginRefused(f)) \/ FinishEarly \/ Launch \/ PowerLoss
  PROVE  StoreInv'
<1>1. UNCHANGED <<direct, flash>>
  BY DEF BeginRefused, FinishEarly, Launch, PowerLoss
<1>2. /\ DOMAIN flash' = {"slot", "patch"}
      /\ \A area \in {"slot", "patch"} : DOMAIN flash'[area] = 1 .. AreaLen[area]
  BY <1>1 DEF StoreInv, StoreTypes
<1>3. CASE FinishEarly \/ PowerLoss
  BY <1>1, <1>2, <1>3, EndedBadly DEF FinishEarly, PowerLoss, Return, CutPower
<1>4. CASE (\E f \in Files : BeginRefused(f)) \/ Launch
  <2>1. /\ pc \in {"idle", "done", "off"} /\ pc' \in {"idle", "done"}
        /\ pc' = "done" => result' = "error"
        /\ UNCHANGED <<store_ctx, chunk, size, copied>>
    BY <1>4 DEF BeginRefused, Launch, call
  <2>2. StoreTypes'
    BY <1>1, <2>1 DEF StoreInv, StoreTypes, InCall
  <2>3. Transfer' /\ Receiving' /\ Received' /\ Copying' /\ NoLocals' /\ SuccessIsInstalled'
    BY <2>1 DEF StoreInv, Transfer, Receiving, Received, Copying, NoLocals,
                SuccessIsInstalled, InCall, Ended
  <2> QED
    BY <2>2, <2>3 DEF StoreInv
<1> QED
  BY <1>3, <1>4

\* Every step keeps the invariant.
LEMMA StoreStep == StoreInv /\ [Next]_vars => StoreInv'
<1> SUFFICES ASSUME StoreInv, [Next]_vars PROVE StoreInv'
  OBVIOUS
<1>1. CommitVerified'
  BY FlashStepKeeps, QuietStepKeeps DEF StoreInv
<1>2. ASSUME NEW out \in Outcomes, FlashStep(out)
      PROVE  StoreInv'
  BY <1>1, <1>2, BeginKeeps, FlushKeeps, FinishFlushKeeps, CommitEraseKeeps, CommitCopyKeeps
     DEF FlashStep
<1>3. CASE \E n \in 1 .. ChunkMax : Write(n)
  BY <1>1, <1>3, WriteKeeps
<1>4. CASE FillPending \/ Verify \/ CommitDone
  BY <1>1, <1>4, FillKeeps, VerifyKeeps, CommitDoneKeeps
<1>5. CASE (\E f \in Files : BeginRefused(f)) \/ FinishEarly \/ Launch \/ PowerLoss
  BY <1>1, <1>5, QuietKeeps
<1>6. CASE UNCHANGED vars
  BY <1>1, <1>6
     DEF vars, call, StoreInv, StoreTypes, Transfer, Receiving, Received, Copying, NoLocals,
         SuccessIsInstalled, StoreArea, Offset, Pending
<1> QED
  BY <1>2, <1>3, <1>4, <1>5, <1>6 DEF Next

\* An erased area with the first n words of f written to it.
LEMMA FillingIsProgram ==
  ASSUME NEW f \in Seq(Words), NEW len \in Nat, NEW n \in Nat, n <= Len(f)
  PROVE  Program(Blank(len), 0, SubSeq(f, 1, n)) = Filling(len, n, f)
<1> DEFINE data == SubSeq(f, 1, n)
<1>1. data \in Seq(Words) /\ Len(data) = n /\ \A j \in 1 .. n : data[j] = f[j]
  <2>1. \A i \in 1 .. n : f[i] \in Words
    OBVIOUS
  <2>2. /\ data \in Seq(Words) /\ Len(data) = IF 1 <= n THEN n - 1 + 1 ELSE 0
        /\ \A i \in 1 .. n - 1 + 1 : data[i] = f[1 + i - 1]
    BY <2>1, SubSeqProperties
  <2> HIDE DEF data
  <2>3. \A i \in 1 .. n : i \in 1 .. n - 1 + 1 /\ 1 + i - 1 = i
    OBVIOUS
  <2> QED
    BY <2>2, <2>3
<1> HIDE DEF data
<1>2. Blank(len) = Filling(len, 0, f)
  <2>1. \A k \in 1 .. len : ~(k <= 0)
    OBVIOUS
  <2> QED
    BY <2>1, Zenon DEF Blank, Filling
<1>3. \A j \in 1 .. Len(data) : data[j] = IF 0 + j <= n THEN f[0 + j] ELSE Erased
  BY <1>1
<1>4. /\ data \in Seq(Words) /\ len \in Nat /\ n \in Nat
      /\ 0 \in Nat /\ 0 <= n /\ n <= 0 + Len(data)
  BY <1>1
<1>5. Program(Filling(len, 0, f), 0, data) = Filling(len, n, f)
  BY ONLY <1>3, <1>4, ProgramAppends
<1> QED
  BY <1>2, <1>5 DEF data

\* What is flushed, and what is pending, are parts of the file.
LEMMA StoreInvMeansNothingLost == StoreInv => NothingLostInTransit
<1> SUFFICES ASSUME StoreInv, store_ctx.active PROVE NothingLostInTransit
  BY DEF NothingLostInTransit
<1> DEFINE flushed == IF Offset < Len(file) THEN Offset ELSE Len(file)
           here    == flushed + Len(Pending)
<1>1. /\ pc \in InCall /\ file \in Seq(Words) /\ Len(file) \in Nat
      /\ Offset \in Nat /\ Pending \in Seq(Words) /\ Len(Pending) \in Nat
      /\ chunk \in Seq(Words) /\ Len(chunk) \in Nat
      /\ AreaLen[StoreArea] \in Nat
  BY FilesAreWords, ImageStoreAssumption
     DEF StoreInv, StoreTypes, Transfer, Offset, Pending, AreaLen, StoreArea
<1>2. /\ flushed \in Nat /\ flushed + Len(Pending) <= Len(file)
      /\ flash[StoreArea] = Filling(AreaLen[StoreArea], flushed, file)
      /\ \A j \in 1 .. Len(Pending) : Pending[j] = file[flushed + j]
      /\ flushed + Len(Pending) + Len(chunk)
           = store_ctx.written + (IF pc = "write" THEN size ELSE 0)
  <2>1. CASE pc \in {"receive", "write"}
    <3>1. /\ flash[StoreArea] = Filling(AreaLen[StoreArea], Offset, file)
          /\ \A j \in 1 .. Len(Pending) : Pending[j] = file[Offset + j]
          /\ Offset + Len(Pending) + Len(chunk)
               = store_ctx.written + (IF pc = "write" THEN size ELSE 0)
          /\ Offset + Len(Pending) + Len(chunk) <= Len(file)
      BY <2>1 DEF StoreInv, Receiving
    <3>2. Offset <= Len(file) /\ Offset + Len(Pending) <= Len(file)
      BY <1>1, <3>1
    <3>3. flushed = Offset
      BY <1>1, <3>2
    <3> HIDE DEF flushed
    <3> QED
      BY <1>1, <3>1, <3>2, <3>3
  <2>2. CASE pc \in Ended
    <3>1. /\ flash[StoreArea] = Filling(AreaLen[StoreArea], Len(file), file)
          /\ store_ctx.written = Len(file) /\ Offset >= Len(file)
          /\ Pending = <<>> /\ chunk = <<>> /\ pc # "write"
      BY <2>2 DEF StoreInv, Received, NoLocals, Ended
    <3>2. flushed = Len(file) /\ Len(Pending) = 0 /\ Len(chunk) = 0
      BY <1>1, <3>1
    <3> HIDE DEF flushed
    <3> QED
      BY <1>1, <3>1, <3>2
  <2> QED
    BY <1>1, <2>1, <2>2 DEF InCall, Ended
<1> HIDE DEF flushed
<1>3. flash[StoreArea] = Program(Blank(AreaLen[StoreArea]), 0, SubSeq(file, 1, flushed))
  <2>1. flushed <= Len(file)
    BY <1>1, <1>2
  <2> QED
    BY <1>1, <1>2, <2>1, FillingIsProgram
<1>4. Pending = SubSeq(file, flushed + 1, flushed + Len(Pending))
  <2> DEFINE part == SubSeq(file, flushed + 1, flushed + Len(Pending))
  <2>1. /\ part \in Seq(Words) /\ Len(part) = Len(Pending)
        /\ \A j \in 1 .. Len(Pending) : part[j] = file[flushed + j]
    BY <1>1, <1>2, PartOf
  <2> HIDE DEF part
  <2>2. Pending = part
    BY <1>1, <1>2, <2>1
  <2> QED
    BY <2>2 DEF part
<1> QED
  BY <1>2, <1>3, <1>4 DEF NothingLostInTransit, flushed, Offset, Pending

\* Whatever the packets, buffers and alignment: the words received so far are
\* in the store area and the pending buffer, in order and once each
\* (rtbus_image_store_write_flash, rtbus_image_store_flush_flash).
THEOREM NothingIsLostInTransit == Spec => []NothingLostInTransit
  BY StoreInit, StoreStep, StoreInvMeansNothingLost, PTL DEF Spec

\* Success means that the slot holds the image the host sent, whole and
\* within the limits (rtbus_image_store_finish, rtbus_image_commit_store_to_slot).
THEOREM SuccessMeansInstalled == Spec => []SuccessIsInstalled
<1>1. StoreInv => SuccessIsInstalled
  BY DEF StoreInv
<1> QED
  BY <1>1, StoreInit, StoreStep, PTL DEF Spec

-----------------------------------------------------------------------------
(***************************************************************************)
(* Seen through its header and CRC the slot is one whole image or empty.  The *)
(* slot holds at any time a part of some file: what is written to it is the *)
(* next words of the file under way, and an erase takes words out of it.   *)
(***************************************************************************)

\* A part of a file is an area of the slot's size.
LEMMA PartFacts ==
  ASSUME NEW f \in Seq(Words), NEW kept
  PROVE  /\ Part(f, kept) \in Seq(Words) /\ Len(Part(f, kept)) = SlotLen
         /\ Part(f, kept) # <<>>
         /\ \A k \in 1 .. SlotLen :
              Part(f, kept)[k] = IF k \in kept /\ k <= Len(f) THEN f[k] ELSE Erased
<1> DEFINE w == Part(f, kept)
<1>1. SlotLen \in Nat \ {0}
  BY ImageStoreAssumption
<1>2. w = [k \in 1 .. SlotLen |-> IF k \in kept /\ k <= Len(f) THEN f[k] ELSE Erased]
  BY DEF Part
<1>3. \A k \in 1 .. SlotLen : (IF k \in kept /\ k <= Len(f) THEN f[k] ELSE Erased) \in Words
  BY <1>1 DEF Words
<1>4. w \in [1 .. SlotLen -> Words] /\ 1 \in DOMAIN w
  BY <1>1, <1>2, <1>3
<1> HIDE DEF w
<1>5. w \in Seq(Words) /\ Len(w) = SlotLen /\ w # <<>>
  BY <1>1, <1>4
<1>6. \A k \in 1 .. SlotLen : w[k] = IF k \in kept /\ k <= Len(f) THEN f[k] ELSE Erased
  BY <1>2
<1> QED
  BY <1>5, <1>6 DEF w

\* Areas with the same image agree on the words of the image.
LEMMA SameImageSameWords ==
  ASSUME NEW w \in Seq(Words), NEW v \in Seq(Words), Len(w) = Len(v),
         ImageIn(w) # None, ImageIn(v) = ImageIn(w)
  PROVE  /\ w[1].payload_size \in Nat /\ 1 + w[1].payload_size <= Len(w)
         /\ \A k \in 1 .. 1 + w[1].payload_size : v[k] = w[k]
<1> DEFINE n == w[1].payload_size
           m == v[1].payload_size
<1>1. /\ Len(w) \in Nat
      /\ n \in 1 .. Len(w) - 1 /\ ImageIn(w) = SubSeq(w, 1, 1 + n)
      /\ m \in 1 .. Len(v) - 1 /\ ImageIn(v) = SubSeq(v, 1, 1 + m)
  <2>1. n \in 1 .. Len(w) - 1 /\ ImageIn(w) = SubSeq(w, 1, 1 + n)
    BY Zenon DEF ImageIn, HeaderIn
  <2>2. ImageIn(v) # None
    OBVIOUS
  <2>3. m \in 1 .. Len(v) - 1 /\ ImageIn(v) = SubSeq(v, 1, 1 + m)
    BY <2>2, Zenon DEF ImageIn, HeaderIn
  <2> QED
    BY <2>1, <2>3
<1> HIDE DEF n, m
<1>2. /\ Len(SubSeq(w, 1, 1 + n)) = 1 + n
      /\ \A k \in 1 .. 1 + n : SubSeq(w, 1, 1 + n)[k] = w[k]
  <2>1. n \in Nat /\ 0 + (1 + n) <= Len(w) /\ 1 + n \in Nat
    BY <1>1
  <2>2. /\ Len(SubSeq(w, 0 + 1, 0 + (1 + n))) = 1 + n
        /\ \A k \in 1 .. 1 + n : SubSeq(w, 0 + 1, 0 + (1 + n))[k] = w[0 + k]
    BY <2>1, PartOf
  <2>3. 0 + 1 = 1 /\ 0 + (1 + n) = 1 + n /\ \A k \in 1 .. 1 + n : 0 + k = k
    BY <2>1
  <2> QED
    BY <2>2, <2>3
<1>3. /\ Len(SubSeq(v, 1, 1 + m)) = 1 + m
      /\ \A k \in 1 .. 1 + m : SubSeq(v, 1, 1 + m)[k] = v[k]
  <2>1. m \in Nat /\ 0 + (1 + m) <= Len(v) /\ 1 + m \in Nat
    BY <1>1
  <2>2. /\ Len(SubSeq(v, 0 + 1, 0 + (1 + m))) = 1 + m
        /\ \A k \in 1 .. 1 + m : SubSeq(v, 0 + 1, 0 + (1 + m))[k] = v[0 + k]
    BY <2>1, PartOf
  <2>3. 0 + 1 = 1 /\ 0 + (1 + m) = 1 + m /\ \A k \in 1 .. 1 + m : 0 + k = k
    BY <2>1
  <2> QED
    BY <2>2, <2>3
<1>4. SubSeq(w, 1, 1 + n) = SubSeq(v, 1, 1 + m)
  BY <1>1
<1>5. m = n
  BY <1>1, <1>2, <1>3, <1>4
<1>6. \A k \in 1 .. 1 + n : v[k] = w[k]
  BY <1>2, <1>3, <1>4, <1>5
<1> QED
  BY <1>1, <1>6 DEF n

\* An area that agrees with another on the words of its image has that image.
LEMMA SameWordsSameImage ==
  ASSUME NEW w \in Seq(Words), NEW v \in Seq(Words), Len(w) = Len(v),
         ImageIn(w) # None, \A k \in 1 .. 1 + w[1].payload_size : v[k] = w[k]
  PROVE  ImageIn(v) = ImageIn(w)
<1> DEFINE n == w[1].payload_size
<1>1. /\ Len(w) \in Nat /\ w # <<>> /\ n \in 1 .. Len(w) - 1 /\ HeaderIn(w, Len(w) - 1)
      /\ PayloadIn(w) = w[1].payload_crc32 /\ ImageIn(w) = SubSeq(w, 1, 1 + n)
  BY DEF ImageIn, HeaderIn, CrcMatches
<1>2. PayloadIn(w) = SubSeq(w, 2, 1 + n)
  BY DEF PayloadIn
<1>3. v[1] = w[1]
  BY <1>1
<1> HIDE DEF n
<1>4. n \in Int /\ 1 + n <= Len(w) /\ Len(v) # 0
  BY <1>1
<1>5. \A i \in 1 .. 1 + n : v[i] = w[i] /\ v[i] \in Words
  <2> SUFFICES ASSUME NEW i \in 1 .. 1 + n PROVE v[i] = w[i] /\ v[i] \in Words
    OBVIOUS
  <2>1. i \in 1 .. Len(v)
    BY <1>1, <1>4
  <2> QED
    BY <2>1, ElementOfSeq DEF n
<1>6. SubSeq(v, 1, 1 + n) = SubSeq(w, 1, 1 + n)
  BY <1>4, <1>5, SamePart
<1>7. SubSeq(v, 2, 1 + n) = SubSeq(w, 2, 1 + n)
  <2>1. \A i \in 2 .. 1 + n : v[i] = w[i] /\ v[i] \in Words
    BY <1>4, <1>5
  <2> QED
    BY <1>4, <2>1, SamePart
<1>8. v[1].payload_size = n
  BY <1>3 DEF n
<1>9. v # <<>> /\ HeaderIn(v, Len(v) - 1) /\ CrcMatches(v)
  <2>1. v # <<>>
    BY <1>4
  <2>2. HeaderIn(v, Len(v) - 1)
    BY <1>1, <1>3 DEF HeaderIn
  <2>3. PayloadIn(v) = v[1].payload_crc32
    BY <1>1, <1>2, <1>3, <1>7, <1>8 DEF PayloadIn
  <2> QED
    BY <2>1, <2>2, <2>3 DEF CrcMatches
<1> QED
  BY <1>1, <1>6, <1>8, <1>9 DEF ImageIn

\* The whole of a file is what a slot that was erased before it holds after it.
LEMMA OfferIsWhole ==
  ASSUME NEW f \in Seq(Words)
  PROVE  Offer(f) = ImageIn(Part(f, 1 .. SlotLen))
<1>1. Program(Blank(SlotLen), 0, f)
        = [k \in 1 .. SlotLen |-> IF k - 0 \in 1 .. Len(f)
                                  THEN Programmed(Erased, f[k - 0]) ELSE Erased]
  BY DEF Program, Blank
<1>2. ASSUME NEW k \in 1 .. SlotLen
      PROVE  (IF k - 0 \in 1 .. Len(f) THEN Programmed(Erased, f[k - 0]) ELSE Erased)
               = IF k \in 1 .. SlotLen /\ k <= Len(f) THEN f[k] ELSE Erased
  <2>1. k - 0 = k /\ (k \in 1 .. Len(f) <=> k <= Len(f))
    BY ImageStoreAssumption
  <2> QED
    BY <2>1 DEF Programmed
<1>3. Program(Blank(SlotLen), 0, f) = Part(f, 1 .. SlotLen)
  BY <1>1, <1>2 DEF Part
<1> QED
  BY <1>3 DEF Offer

\* A part of a file whose other words are erased is an image only if it is the one
\* the file offers.
PartsTold(f) ==
  \A kept \in SUBSET (1 .. SlotLen) : ImageIn(Part(f, kept)) \in {None, Offer(f)}

\* The CRC of an image tells its parts from it, whatever its payload
\* (rtbus_image_calculate_payload_crc).
LEMMA PartsAreTold ==
  ASSUME NEW f \in Seq(Words), Offer(f) # None \/ TellsErasure(f)
  PROVE  PartsTold(f)
<1> SUFFICES ASSUME NEW kept \in SUBSET (1 .. SlotLen), ImageIn(Part(f, kept)) # None
             PROVE  ImageIn(Part(f, kept)) = Offer(f)
  BY DEF PartsTold
<1> DEFINE w == Part(f, kept)
           v == Part(f, 1 .. SlotLen)
<1>1. /\ w \in Seq(Words) /\ Len(w) = SlotLen
      /\ v \in Seq(Words) /\ Len(v) = SlotLen /\ SlotLen \in Nat \ {0}
  BY PartFacts, ImageStoreAssumption
<1>2. /\ w[1].payload_size \in 1 .. SlotLen - 1 /\ w[1] \notin PayloadWords
      /\ PayloadIn(w) = w[1].payload_crc32 /\ ImageIn(w) = SubSeq(w, 1, 1 + w[1].payload_size)
  BY <1>1 DEF ImageIn, HeaderIn, CrcMatches
<1>3. w[1] = v[1]
  <2>1. 1 \in 1 .. SlotLen
    BY <1>1
  <2>2. w[1] # Erased
    BY <1>2, ImageStoreAssumption
  <2>3. 1 \in kept /\ 1 <= Len(f) /\ w[1] = f[1]
    BY <2>1, <2>2, PartFacts
  <2> QED
    BY <2>1, <2>3, PartFacts
<1>4. PayloadIn(v) = w[1].payload_crc32
  <2>1. CASE Offer(f) # None
    BY <1>1, <1>3, <2>1, OfferIsWhole DEF ImageIn, CrcMatches
  <2>2. CASE TellsErasure(f)
    <3>1. HeaderIn(w, SlotLen - 1)
      BY <1>1, <1>2 DEF ImageIn
    <3> QED
      BY <1>2, <2>2, <3>1 DEF TellsErasure
  <2> QED
    BY <2>1, <2>2
<1>5. v[1].payload_size \in 1 .. SlotLen - 1
  BY <1>2, <1>3
<1> DEFINE n == v[1].payload_size
<1>6. SubSeq(w, 2, 1 + n) = SubSeq(v, 2, 1 + n)
  BY <1>2, <1>3, <1>4 DEF PayloadIn
<1> HIDE DEF w, v, n
<1>7. n \in Nat /\ 1 + n <= SlotLen /\ 1 <= n
  BY <1>1, <1>5 DEF n
<1>8. \A k \in 1 .. 1 + n : w[k] = v[k]
  <2> SUFFICES ASSUME NEW k \in 1 .. 1 + n PROVE w[k] = v[k]
    OBVIOUS
  <2>1. CASE k = 1
    BY <1>3, <2>1
  <2>2. CASE k # 1
    <3>1. k - 1 \in 1 .. n /\ 1 + (k - 1) = k /\ 1 + 1 = 2
      BY <1>7, <2>2
    <3>2. /\ SubSeq(w, 1 + 1, 1 + n)[k - 1] = w[1 + (k - 1)]
          /\ SubSeq(v, 1 + 1, 1 + n)[k - 1] = v[1 + (k - 1)]
      BY <1>1, <1>7, <3>1, PartOf
    <3> QED
      BY <1>6, <3>1, <3>2
  <2> QED
    BY <2>1, <2>2
<1>9. ImageIn(v) = ImageIn(w)
  BY <1>1, <1>2, <1>3, <1>8, SameWordsSameImage DEF n, w
<1> QED
  BY <1>9, OfferIsWhole DEF w, v

\* An erase that is cut short keeps the image or leaves none.
LEMMA ErasedPart ==
  ASSUME NEW f \in Seq(Words), PartsTold(f),
         NEW kept \in SUBSET (1 .. SlotLen), NEW less \in SUBSET kept
  PROVE  ImageIn(Part(f, less)) \in {None, ImageIn(Part(f, kept))}
<1> SUFFICES ASSUME ImageIn(Part(f, less)) # None
             PROVE  ImageIn(Part(f, kept)) = ImageIn(Part(f, less))
  OBVIOUS
<1> DEFINE u == Part(f, less)
           w == Part(f, kept)
           v == Part(f, 1 .. SlotLen)
<1>1. /\ u \in Seq(Words) /\ Len(u) = SlotLen /\ w \in Seq(Words) /\ Len(w) = SlotLen
      /\ v \in Seq(Words) /\ Len(v) = SlotLen /\ SlotLen \in Nat \ {0}
  BY PartFacts, ImageStoreAssumption
<1>2. ImageIn(v) = ImageIn(u)
  <2>1. less \in SUBSET (1 .. SlotLen)
    OBVIOUS
  <2> QED
    BY <2>1, OfferIsWhole DEF PartsTold
<1>3. /\ u[1].payload_size \in Nat /\ 1 + u[1].payload_size <= SlotLen
      /\ \A k \in 1 .. 1 + u[1].payload_size : v[k] = u[k]
  BY <1>1, <1>2, SameImageSameWords
<1>4. \A k \in 1 .. 1 + u[1].payload_size : w[k] = u[k]
  <2> SUFFICES ASSUME NEW k \in 1 .. 1 + u[1].payload_size PROVE w[k] = u[k]
    OBVIOUS
  <2>1. k \in 1 .. SlotLen /\ v[k] = u[k]
    BY <1>1, <1>3
  <2> HIDE DEF u, v, w
  <2>2. /\ u[k] = IF k \in less /\ k <= Len(f) THEN f[k] ELSE Erased
        /\ w[k] = IF k \in kept /\ k <= Len(f) THEN f[k] ELSE Erased
        /\ v[k] = IF k \in 1 .. SlotLen /\ k <= Len(f) THEN f[k] ELSE Erased
    BY <2>1, PartFacts DEF u, v, w
  <2> QED
    BY <2>1, <2>2
<1> QED
  BY <1>1, <1>4, SameWordsSameImage

\* A write that fails or is cut short has stored a first part of its words.
LEMMA WriteStores ==
  ASSUME NEW offset \in Nat, NEW m \in Nat, offset <= m,
         NEW data \in Seq(Words), m <= offset + Len(data),
         \A j \in 1 .. Len(data) : data[j] = IF offset + j <= m THEN file[offset + j] ELSE Erased,
         DOMAIN flash = {"slot", "patch"}, flash["slot"] = Filling(SlotLen, offset, file),
         NEW out, flash_area_write("slot", offset, data, out)
  PROVE  \E q \in Nat : /\ offset <= q /\ q <= m
                        /\ flash'["slot"] = Filling(SlotLen, q, file)
<1>1. PICK n \in 0 .. Len(data) :
        flash' = [flash EXCEPT !["slot"] = Program(@, offset, SubSeq(data, 1, n))]
  BY DEF flash_area_write
<1> DEFINE part == SubSeq(data, 1, n)
           q == IF offset + n <= m THEN offset + n ELSE m
<1>2. flash'["slot"] = Program(Filling(SlotLen, offset, file), offset, part)
  BY <1>1
<1>3. part \in Seq(Words) /\ Len(part) = n /\ \A j \in 1 .. n : part[j] = data[j]
  <2>1. n \in Nat /\ 0 \in Nat /\ 0 + n <= Len(data)
    OBVIOUS
  <2>2. /\ SubSeq(data, 0 + 1, 0 + n) \in Seq(Words) /\ Len(SubSeq(data, 0 + 1, 0 + n)) = n
        /\ \A j \in 1 .. n : SubSeq(data, 0 + 1, 0 + n)[j] = data[0 + j]
    BY <2>1, PartOf
  <2>3. 0 + 1 = 1 /\ 0 + n = n /\ \A j \in 1 .. n : 0 + j = j
    OBVIOUS
  <2> QED
    BY <2>2, <2>3
<1>4. q \in Nat /\ offset <= q /\ q <= m /\ q <= offset + n
  OBVIOUS
<1> HIDE DEF part
<1>5. \A j \in 1 .. n : part[j] = IF offset + j <= q THEN file[offset + j] ELSE Erased
  <2> SUFFICES ASSUME NEW j \in 1 .. n
               PROVE  part[j] = IF offset + j <= q THEN file[offset + j] ELSE Erased
    OBVIOUS
  <2>1. part[j] = IF offset + j <= m THEN file[offset + j] ELSE Erased
    <3>1. j \in 1 .. Len(data) /\ part[j] = data[j]
      BY <1>3
    <3> QED
      BY <3>1
  <2>2. offset + j <= q <=> offset + j <= m
    OBVIOUS
  <2> QED
    BY <2>1, <2>2
<1> HIDE DEF q
<1>6. Program(Filling(SlotLen, offset, file), offset, part) = Filling(SlotLen, q, file)
  <2>1. \A j \in 1 .. Len(part) : part[j] = IF offset + j <= q THEN file[offset + j] ELSE Erased
    BY <1>3, <1>5
  <2>2. /\ SlotLen \in Nat /\ offset \in Nat /\ q \in Nat /\ offset <= q
        /\ part \in Seq(Words) /\ q <= offset + Len(part)
    BY <1>3, <1>4, ImageStoreAssumption
  <2> QED
    BY ONLY <2>1, <2>2, ProgramAppends
<1> QED
  BY <1>2, <1>4, <1>6

\* A slot whose first word is erased holds no image; a file of no words offers none.
LEMMA ErasedIsNoImage ==
  /\ <<>> \in Seq(Words)
  /\ \A kept : ImageIn(Part(<<>>, kept)) = None
  /\ Offer(<<>>) = None /\ PartsTold(<<>>)
<1>1. <<>> \in Seq(Words)
  OBVIOUS
<1>2. ASSUME NEW kept PROVE ImageIn(Part(<<>>, kept)) = None
  <2>1. Part(<<>>, kept)[1] = Erased
    <3>1. 1 \in 1 .. SlotLen /\ ~(1 <= Len(<<>>))
      BY ImageStoreAssumption
    <3> QED
      BY <1>1, <3>1, PartFacts
  <2>2. ~HeaderIn(Part(<<>>, kept), Len(Part(<<>>, kept)) - 1)
    BY <2>1, ImageStoreAssumption DEF HeaderIn
  <2> QED
    BY <2>2 DEF ImageIn
<1> QED
  BY <1>1, <1>2, OfferIsWhole DEF PartsTold

\* The slot holds a part of some file: of one the CRC tells its parts from.
SlotHolds ==
  \E f \in Files \cup {<<>>}, kept \in SUBSET (1 .. SlotLen) :
    flash["slot"] = Part(f, kept) /\ PartsTold(f)
FileKnown == file \in Files \cup {<<>>}

\* On a board without a patch partition what the host sends is in the slot
\* before it has been verified.
FilesTold == direct => \A f \in Files : PartsTold(f)

SlotInv == StoreInv /\ SlotHolds /\ FileKnown /\ FilesTold

\* A slot with the first words of a file is a part of it.
LEMMA FillingIsPart ==
  ASSUME NEW f \in Seq(Words), NEW n \in Nat, n <= Len(f)
  PROVE  Filling(SlotLen, n, f) = Part(f, {k \in 1 .. SlotLen : k <= n})
<1>1. \A k \in 1 .. SlotLen :
        (IF k <= n THEN f[k] ELSE Erased)
          = IF k \in {j \in 1 .. SlotLen : j <= n} /\ k <= Len(f) THEN f[k] ELSE Erased
  BY ImageStoreAssumption
<1> QED
  BY <1>1 DEF Filling, Part

\* The file that is written to the slot is one the CRC tells its parts from: it
\* has been verified, or the board has no patch partition.
LEMMA FileTells ==
  ASSUME SlotInv, pc \in InCall, direct \/ pc = "copy"
  PROVE  file \in Files /\ file \in Seq(Words) /\ Len(file) \in Nat /\ PartsTold(file)
<1>1. file \in Files /\ file \in Seq(Words) /\ Len(file) \in Nat
  BY FilesAreWords DEF SlotInv, StoreInv, Transfer
<1>2. CASE direct
  BY <1>1, <1>2 DEF SlotInv, FilesTold
<1>3. CASE pc = "copy"
  <2>1. Accepted /\ pc \in Ended
    BY <1>3 DEF SlotInv, StoreInv, CommitVerified, Ended
  <2>2. Filling(SlotLen, Len(file), file) = Part(file, 1 .. SlotLen)
    BY <1>1 DEF Filling, Part
  <2>3. ImageIn(Part(file, 1 .. SlotLen)) # None
    BY <2>1, <2>2, Installed DEF SlotInv
  <2> QED
    BY <1>1, <2>3, OfferIsWhole, PartsAreTold
<1> QED
  BY <1>1, <1>2, <1>3

\* A write to the slot installs the image the transfer offers, or none.
LEMMA SlotWritten ==
  ASSUME SlotInv, pc \in InCall, direct \/ pc = "copy",
         NEW p \in Nat, NEW q \in Nat, p <= Len(file), q <= Len(file),
         flash["slot"] = Filling(SlotLen, p, file),
         flash'["slot"] = Filling(SlotLen, q, file)
  PROVE  /\ SlotHolds'
         /\ ImageIn(flash["slot"]) \in {None, Offer(file)}
         /\ ImageIn(flash'["slot"]) \in {None, Offer(file)}
<1>1. file \in Files /\ file \in Seq(Words) /\ Len(file) \in Nat /\ PartsTold(file)
  BY FileTells
<1>2. /\ flash["slot"] = Part(file, {k \in 1 .. SlotLen : k <= p})
      /\ flash'["slot"] = Part(file, {k \in 1 .. SlotLen : k <= q})
  BY <1>1, FillingIsPart
<1>3. /\ {k \in 1 .. SlotLen : k <= p} \in SUBSET (1 .. SlotLen)
      /\ {k \in 1 .. SlotLen : k <= q} \in SUBSET (1 .. SlotLen)
  OBVIOUS
<1> QED
  BY <1>1, <1>2, <1>3 DEF PartsTold, SlotHolds

\* An erase of the slot keeps its image or leaves none.
LEMMA SlotErased ==
  ASSUME SlotInv, NEW out, flash_area_flatten("slot", out)
  PROVE  /\ SlotHolds'
         /\ ImageIn(flash'["slot"]) \in {None, ImageIn(flash["slot"])}
<1>1. PICK f \in Files \cup {<<>>}, kept \in SUBSET (1 .. SlotLen) :
        flash["slot"] = Part(f, kept) /\ PartsTold(f)
  BY DEF SlotInv, SlotHolds
<1>2. f \in Seq(Words)
  BY FilesAreWords, ErasedIsNoImage
<1>3. PICK left : flash' = [flash EXCEPT !["slot"] =
                              [k \in DOMAIN @ |-> IF k \in left THEN @[k] ELSE Erased]]
  BY DEF flash_area_flatten
<1>4. DOMAIN flash["slot"] = 1 .. SlotLen /\ "slot" \in DOMAIN flash
  BY DEF SlotInv, StoreInv, StoreTypes, AreaLen
<1> DEFINE less == kept \cap left
<1>5. flash'["slot"] = [k \in 1 .. SlotLen |-> IF k \in left THEN flash["slot"][k] ELSE Erased]
  BY <1>3, <1>4
<1>6. \A k \in 1 .. SlotLen :
        (IF k \in left THEN flash["slot"][k] ELSE Erased)
          = IF k \in less /\ k <= Len(f) THEN f[k] ELSE Erased
  BY <1>1, <1>2, PartFacts
<1>7. flash'["slot"] = Part(f, less)
  BY <1>5, <1>6 DEF Part
<1>8. less \in SUBSET kept /\ less \in SUBSET (1 .. SlotLen)
  OBVIOUS
<1> HIDE DEF less
<1>9. ImageIn(Part(f, less)) \in {None, ImageIn(Part(f, kept))}
  BY <1>1, <1>2, <1>8, ErasedPart
<1> QED
  BY <1>1, <1>7, <1>8, <1>9 DEF SlotHolds

\* Every step of a transfer keeps the image of the slot, takes it out, or
\* installs the one that is offered in an empty slot.
SlotStep == \/ ImageIn(flash["slot"])' = ImageIn(flash["slot"])
            \/ ImageIn(flash["slot"])' = None
            \/ /\ ImageIn(flash["slot"]) = None /\ Offer(file) # None
               /\ ImageIn(flash["slot"])' = Offer(file)

\* A step that leaves the slot alone changes nothing of its image.
LEMMA SlotUntouched ==
  ASSUME SlotInv, flash'["slot"] = flash["slot"]
  PROVE  SlotHolds' /\ SlotStep
BY DEF SlotInv, SlotHolds, SlotStep

\* What each call of the flash driver does to the image of the slot.
LEMMA FlashStepOnSlot ==
  ASSUME SlotInv, NEW out, FlashStep(out)
  PROVE  SlotHolds' /\ SlotStep
<1>0. /\ DOMAIN flash = {"slot", "patch"} /\ direct \in BOOLEAN
      /\ StoreArea = (IF direct THEN "slot" ELSE "patch")
      /\ AreaLen["slot"] = SlotLen /\ SlotLen \in Nat
  BY ImageStoreAssumption DEF SlotInv, StoreInv, StoreTypes, StoreArea, AreaLen
<1>1. ASSUME NEW f \in Files, Begin(f, out) PROVE SlotHolds' /\ SlotStep
  <2>1. CASE direct
    BY <1>0, <1>1, <2>1, SlotErased DEF Begin, SlotStep
  <2>2. CASE ~direct
    BY <1>0, <1>1, <2>2, FlashOneArea, SlotUntouched DEF Begin
  <2> QED
    BY <2>1, <2>2
<1>2. CASE FlushPending(out)
  <2>1. CASE direct
    <3>1. /\ flash["slot"] = Filling(SlotLen, Offset, file)
          /\ flash_area_write("slot", Offset, Filled, out)
          /\ pc \in InCall /\ pc = "write"
      BY <1>0, <1>2, <2>1 DEF FlushPending, SlotInv, StoreInv, Receiving, InCall, Offset
    <3>2. /\ Filled \in Seq(Words) /\ Offset \in Nat
          /\ Offset + Len(Filled) <= Len(file)
          /\ \A j \in 1 .. Len(Filled) : Filled[j] = file[Offset + j]
      BY <3>1, TurnTakes DEF SlotInv
    <3> DEFINE m == Offset + Len(Filled)
    <3>3. m \in Nat /\ Offset <= m /\ m <= Len(file) /\ Len(file) \in Nat
      BY <2>1, <3>1, <3>2, FileTells
    <3>4. \A j \in 1 .. Len(Filled) :
            Filled[j] = IF Offset + j <= m THEN file[Offset + j] ELSE Erased
      BY <3>2
    <3> HIDE DEF m
    <3>5. m <= Offset + Len(Filled)
      BY <3>2 DEF m
    <3>6. PICK q \in Nat : q <= m /\ flash'["slot"] = Filling(SlotLen, q, file)
      BY <1>0, <3>1, <3>2, <3>3, <3>4, <3>5, WriteStores
    <3>7. q <= Len(file) /\ Offset <= Len(file)
      BY <3>2, <3>3, <3>6
    <3> QED
      BY <2>1, <3>1, <3>2, <3>6, <3>7, SlotWritten DEF SlotStep
  <2>2. CASE ~direct
    BY <1>0, <1>2, <2>2, FlashOneArea, SlotUntouched DEF FlushPending
  <2> QED
    BY <2>1, <2>2
<1>3. CASE FinishFlush(out)
  <2>1. CASE direct
    <3>1. /\ pc = "receive" /\ store_ctx.written = store_ctx.expected_size /\ pc \in InCall
          /\ flash_area_write("slot", Offset, Padded(Pending), out)
      BY <1>0, <1>3, <2>1 DEF FinishFlush, InCall, Offset, Pending
    <3>2. /\ Padded(Pending) \in Seq(Words) /\ Offset \in Nat /\ Len(file) \in Nat
          /\ Offset <= Len(file) /\ Len(file) <= Offset + Len(Padded(Pending))
          /\ flash["slot"] = Filling(SlotLen, Offset, file)
          /\ \A j \in 1 .. Len(Padded(Pending)) :
               Padded(Pending)[j] = IF Offset + j <= Len(file) THEN file[Offset + j] ELSE Erased
      BY <1>0, <2>1, <3>1, FinishWrites DEF SlotInv
    <3>3. PICK q \in Nat : q <= Len(file) /\ flash'["slot"] = Filling(SlotLen, q, file)
      BY <1>0, <3>1, <3>2, WriteStores
    <3> QED
      BY <2>1, <3>1, <3>2, <3>3, SlotWritten DEF SlotStep
  <2>2. CASE ~direct
    BY <1>0, <1>3, <2>2, FlashOneArea, SlotUntouched DEF FinishFlush
  <2> QED
    BY <2>1, <2>2
<1>4. CASE CommitErase(out)
  BY <1>4, SlotErased DEF CommitErase, SlotStep
<1>5. CASE CommitCopy(out)
  <2>1. /\ pc = "copy" /\ pc \in InCall /\ copied < store_ctx.expected_size
        /\ flash_area_write("slot", copied, Padded(Block), out)
    BY <1>5 DEF CommitCopy, MoreToCopy, InCall
  <2>2. PICK m \in Nat :
          /\ Padded(Block) \in Seq(Words) /\ copied \in Nat /\ Len(file) \in Nat
          /\ copied <= m /\ m <= Len(file) /\ m <= copied + Len(Padded(Block))
          /\ flash["slot"] = Filling(SlotLen, copied, file)
          /\ \A j \in 1 .. Len(Padded(Block)) :
               Padded(Block)[j] = IF copied + j <= m THEN file[copied + j] ELSE Erased
    BY <2>1, CopyWrites DEF SlotInv
  <2>3. PICK q \in Nat : q <= m /\ flash'["slot"] = Filling(SlotLen, q, file)
    BY <1>0, <2>1, <2>2, WriteStores
  <2>4. copied <= Len(file) /\ q <= Len(file)
    BY <2>2, <2>3
  <2> QED
    BY <2>1, <2>2, <2>3, <2>4, SlotWritten DEF SlotStep
<1> QED
  BY <1>1, <1>2, <1>3, <1>4, <1>5 DEF FlashStep

\* Whatever happens, the slot changes as ImageSlot allows.
LEMMA SlotInvStep == SlotInv /\ [Next]_vars => SlotInv' /\ SlotStep
<1> SUFFICES ASSUME SlotInv, [Next]_vars PROVE SlotInv' /\ SlotStep
  OBVIOUS
<1>1. StoreInv'
  BY StoreStep DEF SlotInv
<1>2. SlotHolds' /\ SlotStep
  <2>1. CASE \E out \in Outcomes : FlashStep(out)
    BY <2>1, FlashStepOnSlot
  <2>2. CASE UNCHANGED flash
    BY <2>2, SlotUntouched
  <2> QED
    BY <2>1, <2>2 DEF Next, BeginRefused, Write, FillPending, FinishEarly, Verify,
       CommitDone, Launch, PowerLoss, vars
<1>3. FileKnown'
  <2>1. file' \in Files \cup {<<>>, file}
    BY DEF Next, FlashStep, Begin, FlushPending, FinishFlush, CommitErase, CommitCopy,
       BeginRefused, Write, FillPending, FinishEarly, Verify, CommitDone, Launch, PowerLoss,
       vars, Unless, Return, CutPower, AfterTurn
  <2> QED
    BY <2>1 DEF SlotInv, FileKnown
<1>4. FilesTold'
  <2>1. direct' = direct
    BY DEF Next, FlashStep, Begin, FlushPending, FinishFlush, CommitErase, CommitCopy,
       BeginRefused, Write, FillPending, FinishEarly, Verify, CommitDone, Launch, PowerLoss,
       vars, CutPower
  <2> QED
    BY <2>1 DEF SlotInv, FilesTold
<1> QED
  BY <1>1, <1>2, <1>3, <1>4 DEF SlotInv

\* The component slot implements the abstract slot: through every power loss and
\* flash error it holds one whole image or none, which came in while a transfer
\* offered it and not over another one (rtbus_image.c).  A board without a patch
\* partition has to rely on the CRC for what an unfinished erase leaves of a file
\* that was not valid.
THEOREM StoreImplementsSlot ==
  Spec /\ (direct => \A f \in Files : TellsErasure(f)) => ImplementsImageSlot
<1>1. ASSUME NEW f \in Files \cup {<<>>} PROVE Offer(f) \in Offers \cup {None}
  BY ErasedIsNoImage DEF Offers
<1>2. Init /\ (direct => \A f \in Files : TellsErasure(f)) => SlotInv /\ Slot!Init
  <2> SUFFICES ASSUME Init, direct => \A f \in Files : TellsErasure(f)
               PROVE  SlotInv /\ Slot!Init
    OBVIOUS
  <2>1. flash["slot"] = Part(<<>>, {}) /\ file = <<>>
    BY DEF Init, Blank, Part
  <2>2. SlotHolds /\ FileKnown
    BY <2>1, ErasedIsNoImage DEF SlotHolds, FileKnown
  <2>3. FilesTold
    BY FilesAreWords, PartsAreTold DEF FilesTold
  <2> QED
    BY <2>1, <2>2, <2>3, StoreInit, ErasedIsNoImage DEF SlotInv, Slot!Init
<1>3. SlotInv /\ [Next]_vars =>
        SlotInv' /\ [Slot!Next]_<<ImageIn(flash["slot"]), Offer(file)>>
  <2> SUFFICES ASSUME SlotInv, [Next]_vars PROVE SlotInv' /\ Slot!Next
    OBVIOUS
  <2>1. SlotInv' /\ SlotStep
    BY SlotInvStep
  <2>2. Offer(file)' \in Offers \cup {None}
    BY <1>1, <2>1 DEF SlotInv, FileKnown
  <2> QED
    BY <2>1, <2>2 DEF SlotStep, Slot!Next, Slot!Keep, Slot!Empty, Slot!Install
<1> QED
  BY <1>2, <1>3, PTL DEF Spec, ImplementsImageSlot, Slot!Spec

-----------------------------------------------------------------------------
(***************************************************************************)
(* The counters of the image store stay within its partitions and buffers.  The *)
(* last flush pads to the alignment, so where it starts must be aligned.   *)
(***************************************************************************)

\* Multiples of the flash alignment: sums of them are multiples, and rounding up
\* to one stays below every multiple that is not below.
LEMMA Multiples ==
  ASSUME NEW a \in Nat \ {0}, NEW x \in Nat
  PROVE  x % a = 0 <=> \E k \in Nat : x = k * a
<1>0. a \in Int /\ a > 0 /\ x \in Int
  OBVIOUS
<1>1. x % a = 0 => \E k \in Nat : x = k * a
  <2>1. x \div a \in Int
    BY <1>0
  <2>2. x = a * (x \div a) + (x % a)
    BY <1>0
  <2>3. x \div a >= 0
    BY <1>0, <2>1, <2>2
  <2> QED
    BY <2>1, <2>2, <2>3
<1>2. ASSUME NEW k \in Nat, x = k * a PROVE x % a = 0
  BY <1>2
<1> QED
  BY <1>1, <1>2

\* Multiples of the alignment add up to one.
LEMMA SumOfMultiples ==
  ASSUME NEW a \in Nat \ {0}, NEW x \in Nat, NEW y \in Nat, x % a = 0, y % a = 0
  PROVE  (x + y) % a = 0
<1>1. PICK k \in Nat : x = k * a
  BY Multiples
<1>2. PICK m \in Nat : y = m * a
  BY Multiples
<1>3. x + y = (k + m) * a
  BY <1>1, <1>2
<1>4. k + m \in Nat /\ x + y \in Nat
  OBVIOUS
<1> QED
  BY <1>3, <1>4, Multiples

\* Padding what starts aligned does not leave an area of aligned size.
LEMMA RoundUpBelow ==
  ASSUME NEW x \in Nat, NEW y \in Nat, NEW z \in Nat, x % Align = 0, z % Align = 0,
         x + y <= z
  PROVE  x + RoundUp(y) <= z
<1>0. Align \in Nat \ {0}
  BY ImageStoreAssumption
<1>1. PICK k \in Nat : x = k * Align
  BY <1>0, Multiples
<1>2. PICK m \in Nat : z = m * Align
  BY <1>0, Multiples
<1> DEFINE r == (y + Align - 1) \div Align
<1>3. r \in Nat /\ r * Align <= y + Align - 1
  BY <1>0
<1> HIDE DEF r
<1>4. (k + r) * Align < (m + 1) * Align
  BY <1>0, <1>1, <1>2, <1>3
<1>5. k + r < m + 1
  BY <1>0, <1>3, <1>4
<1>6. (k + r) * Align <= m * Align
  BY <1>0, <1>3, <1>5
<1> QED
  BY <1>0, <1>1, <1>2, <1>3, <1>6 DEF RoundUp, r

Cells == Words \cup {Mixed}

\* What makes type correctness inductive: an idle store has an empty context, and
\* what has been flushed is a multiple of the alignment until the last flush.
FlashCells == \A area \in {"slot", "patch"} : flash[area] \in [1 .. AreaLen[area] -> Cells]
IdleStore  == pc \notin InCall => store_ctx = Context(FALSE, 0)
Locals     == /\ size \in 0 .. ChunkMax /\ Len(chunk) <= size
              /\ pc \in InCall \cup {"idle", "done", "off"} /\ result \in {"ok", "error"}
Aligned    == /\ pc \in {"receive", "write"} => Offset % Align = 0
              /\ pc \in Ended => Offset <= AreaLen[StoreArea]

StoreTyped == StoreInv /\ FileKnown /\ FlashCells /\ IdleStore /\ Locals /\ Aligned

\* A programmed area holds words, or what double programming leaves.
LEMMA ProgramCells ==
  ASSUME NEW len \in Nat, NEW area \in [1 .. len -> Cells], NEW data \in Seq(Words),
         NEW offset \in Nat
  PROVE  Program(area, offset, data) \in [1 .. len -> Cells]
<1> SUFFICES ASSUME NEW k \in 1 .. len
             PROVE  (IF k - offset \in 1 .. Len(data)
                     THEN Programmed(area[k], data[k - offset]) ELSE area[k]) \in Cells
  BY DEF Program
<1>1. CASE k - offset \in 1 .. Len(data)
  <2>1. data[k - offset] \in Words
    BY <1>1
  <2> QED
    BY <1>1, <2>1 DEF Programmed, Cells
<1>2. CASE k - offset \notin 1 .. Len(data)
  BY <1>2
<1> QED
  BY <1>1, <1>2

\* So does flash after each call of its driver, however the call ends.
LEMMA FlashCallCells ==
  ASSUME DOMAIN flash = {"slot", "patch"}, FlashCells,
         NEW area \in {"slot", "patch"}, NEW out,
         \/ flash_area_flatten(area, out)
         \/ \E offset \in Nat, data \in Seq(Words) : flash_area_write(area, offset, data, out)
  PROVE  FlashCells'
<1>1. \A other \in {"slot", "patch"} : other # area => flash'[other] = flash[other]
  BY DEF flash_area_flatten, flash_area_write
<1>2. \A other \in {"slot", "patch"} : AreaLen[other] \in Nat
  BY ImageStoreAssumption DEF AreaLen
<1>3. flash'[area] \in [1 .. AreaLen[area] -> Cells]
  <2>1. CASE flash_area_flatten(area, out)
    <3>1. PICK kept : flash' = [flash EXCEPT ![area] =
                                 [k \in DOMAIN @ |-> IF k \in kept THEN @[k] ELSE Erased]]
      BY <2>1 DEF flash_area_flatten
    <3>2. flash'[area] = [k \in 1 .. AreaLen[area] |->
                            IF k \in kept THEN flash[area][k] ELSE Erased]
      BY <3>1 DEF FlashCells
    <3>3. Erased \in Cells
      BY DEF Cells, Words
    <3>4. \A k \in 1 .. AreaLen[area] : flash[area][k] \in Cells
      BY DEF FlashCells
    <3> QED
      BY <3>2, <3>3, <3>4
  <2>2. ASSUME NEW offset \in Nat, NEW data \in Seq(Words),
               flash_area_write(area, offset, data, out)
        PROVE  flash'[area] \in [1 .. AreaLen[area] -> Cells]
    <3>1. PICK n \in 0 .. Len(data) :
            flash' = [flash EXCEPT ![area] = Program(@, offset, SubSeq(data, 1, n))]
      BY <2>2 DEF flash_area_write
    <3>2. SubSeq(data, 1, n) \in Seq(Words)
      <4>1. \A k \in 1 .. n : data[k] \in Words
        OBVIOUS
      <4> QED
        BY <4>1, SubSeqProperties
    <3>3. flash'[area] = Program(flash[area], offset, SubSeq(data, 1, n))
      BY <3>1
    <3> QED
      <4>1. flash[area] \in [1 .. AreaLen[area] -> Cells] /\ AreaLen[area] \in Nat
        BY <1>2 DEF FlashCells
      <4> QED
        <5> DEFINE words == SubSeq(data, 1, n)
                   cells == flash[area]
                   len   == AreaLen[area]
        <5>1. len \in Nat /\ cells \in [1 .. len -> Cells] /\ words \in Seq(Words)
          BY <3>2, <4>1
        <5> HIDE DEF words, cells, len
        <5>2. Program(cells, offset, words) \in [1 .. len -> Cells]
          BY <5>1, ProgramCells
        <5> QED
          BY <3>3, <5>2 DEF words, cells, len
  <2> QED
    BY <2>1, <2>2
<1> QED
  BY <1>1, <1>3 DEF FlashCells

\* The length of padded data.
LEMMA PaddedLength ==
  ASSUME NEW data \in Seq(Words)
  PROVE  Len(Padded(data)) = RoundUp(Len(data))
<1> DEFINE gap == RoundUp(Len(data)) - Len(data)
           pad == [k \in 1 .. gap |-> Erased]
<1>1. gap \in Nat
  <2>1. Len(data) \in Nat /\ Align \in Nat \ {0}
    BY ImageStoreAssumption
  <2>2. \A n \in Nat : RoundUp(n) \in Nat /\ n <= RoundUp(n)
    <3> SUFFICES ASSUME NEW n \in Nat PROVE RoundUp(n) \in Nat /\ n <= RoundUp(n)
      OBVIOUS
    <3> DEFINE x == n + Align - 1
    <3>1. x \in Int /\ Align \in Int /\ Align > 0 /\ x >= 0
      BY <2>1
    <3> HIDE DEF x
    <3>2. /\ x \div Align \in Int /\ x = Align * (x \div Align) + (x % Align)
          /\ x % Align \in 0 .. Align - 1
      BY <3>1
    <3>3. Align * (x \div Align) >= x - (Align - 1)
      BY <3>1, <3>2
    <3>4. RoundUp(n) = Align * (x \div Align) /\ RoundUp(n) \in Int
      BY <3>1, <3>2 DEF RoundUp, x
    <3> QED
      BY <2>1, <3>3, <3>4 DEF x
  <2> QED
    BY <2>1, <2>2
<1> HIDE DEF gap
<1>2. pad \in Seq(Words) /\ Len(pad) = gap
  <2>1. Erased \in Words
    BY DEF Words
  <2> QED
    BY <1>1, <2>1
<1> HIDE DEF pad
<1>3. Padded(data) = data \o pad
  BY DEF Padded, pad, gap
<1>4. Len(Padded(data)) = Len(data) + gap
  BY <1>2, <1>3, ConcatProperties
<1>5. RoundUp(Len(data)) \in Int
  BY ImageStoreAssumption DEF RoundUp
<1> QED
  BY <1>4, <1>5 DEF gap

\* The counters at power-on.
LEMMA StoreTypedInit == Init => StoreTyped
<1> SUFFICES ASSUME Init PROVE StoreTyped
  OBVIOUS
<1>1. FlashCells
  <2>1. Erased \in Cells
    BY DEF Cells, Words
  <2>2. AreaLen["slot"] = SlotLen /\ AreaLen["patch"] = PatchLen
    BY DEF AreaLen
  <2> QED
    BY <2>1, <2>2 DEF Init, FlashCells, Blank
<1>2. FileKnown /\ IdleStore /\ Locals /\ Aligned
  BY ImageStoreAssumption
     DEF Init, FileKnown, IdleStore, Locals, Aligned, InCall, Ended
<1> QED
  BY <1>1, <1>2, StoreInit DEF StoreTyped

\* A call that returns, and a power loss.
LEMMA EndedTypes ==
  ASSUME StoreTyped, FlashCells', Return("ok") \/ Return("error") \/ CutPower,
         file' \in Files \cup {<<>>}
  PROVE  (FileKnown /\ FlashCells /\ IdleStore /\ Locals /\ Aligned)'
<1>1. /\ pc' \in {"done", "off"} /\ store_ctx' = Context(FALSE, 0) /\ size' = 0
      /\ chunk' = <<>> /\ result' \in {"ok", "error"}
  BY DEF Return, CutPower, NoCall
<1>2. 0 \in 0 .. ChunkMax /\ Len(<<>>) = 0
  BY ImageStoreAssumption
<1> QED
  BY <1>1, <1>2 DEF FileKnown, IdleStore, Locals, Aligned, InCall, Ended

\* One turn of the loop of rtbus_image_store_write.
LEMMA TurnTypes ==
  ASSUME StoreTyped, FlashCells', pc = "write", UNCHANGED direct,
         NEW offset \in Nat, NEW pending, AfterTurn(offset, pending), offset % Align = 0
  PROVE  (FileKnown /\ FlashCells /\ IdleStore /\ Locals /\ Aligned)'
<1>1. /\ UNCHANGED <<file, size, result>> /\ pc' \in {"receive", "write"}
      /\ chunk' = SubSeq(chunk, CopyLen + 1, Len(chunk))
      /\ store_ctx' = [store_ctx EXCEPT !.flash_write_offset = offset,
                                        !.flash_pending = pending,
                                        !.written = IF chunk' = <<>> THEN @ + size ELSE @]
  BY DEF AfterTurn
<1>2. Offset' = offset
  BY <1>1 DEF StoreTyped, StoreInv, StoreTypes, Offset
<1>3. Len(chunk') <= Len(chunk)
  <2>1. /\ Offset + Len(Filled) + Len(chunk') = store_ctx.written + size
        /\ Filled = Pending \o SubSeq(chunk, 1, CopyLen) /\ CopyLen \in Nat
        /\ chunk' \in Seq(Words)
    BY <1>1, TurnTakes DEF StoreTyped, Filled, Pending
  <2>2. Offset + Len(Pending) + Len(chunk) = store_ctx.written + size
    BY DEF StoreTyped, StoreInv, Receiving
  <2>3. /\ Pending \in Seq(Words) /\ chunk \in Seq(Words) /\ Offset \in Nat /\ size \in Nat
        /\ store_ctx.written \in Nat
    BY DEF StoreTyped, StoreInv, StoreTypes, Pending, Offset
  <2>4. CopyLen <= Len(chunk)
    BY <2>3, ImageStoreAssumption DEF CopyLen, Room, Pending, StoreTyped, StoreInv, Receiving
  <2>5. SubSeq(chunk, 1, CopyLen) \in Seq(Words)
    <3>1. \A k \in 1 .. CopyLen : chunk[k] \in Words
      BY <2>1, <2>3, <2>4
    <3> QED
      BY <2>1, <3>1, SubSeqProperties
  <2>6. Len(Filled) >= Len(Pending) /\ Len(Filled) \in Nat
    BY <2>1, <2>3, <2>5, ConcatProperties
  <2> QED
    BY <2>1, <2>2, <2>3, <2>6
<1>4. Len(chunk') \in Nat /\ Len(chunk) \in Nat
  <2>1. chunk' \in Seq(Words)
    BY <1>1, TurnTakes DEF StoreTyped
  <2>2. chunk \in Seq(Words)
    BY DEF StoreTyped, StoreInv, StoreTypes
  <2> QED
    BY <2>1, <2>2
<1>5. FileKnown' /\ IdleStore'
  BY <1>1 DEF StoreTyped, FileKnown, IdleStore, InCall
<1>6. Locals'
  <2>1. Len(chunk') <= size /\ size' \in 0 .. ChunkMax /\ result' \in {"ok", "error"}
    <3>1. size \in 0 .. ChunkMax /\ Len(chunk) <= size /\ result \in {"ok", "error"}
      BY DEF StoreTyped, Locals
    <3>2. Len(chunk') <= size
      BY <1>3, <1>4, <3>1, ImageStoreAssumption
    <3> QED
      BY <1>1, <3>1, <3>2
  <2> QED
    BY <1>1, <2>1 DEF Locals, InCall
<1>7. Aligned'
  BY <1>1, <1>2 DEF Aligned, Ended
<1> QED
  BY <1>5, <1>6, <1>7

\* The calls of the flash driver.
LEMMA FlashStepTypes ==
  ASSUME StoreTyped, NEW out, FlashStep(out)
  PROVE  (FileKnown /\ FlashCells /\ IdleStore /\ Locals /\ Aligned)'
<1>0. /\ DOMAIN flash = {"slot", "patch"} /\ StoreArea \in {"slot", "patch"}
      /\ AreaLen[StoreArea] \in Nat /\ AreaLen[StoreArea] % Align = 0
  BY ImageStoreAssumption DEF StoreTyped, StoreInv, StoreTypes, StoreArea, AreaLen
<1>1. ASSUME NEW f \in Files, Begin(f, out)
      PROVE  (FileKnown /\ FlashCells /\ IdleStore /\ Locals /\ Aligned)'
  <2>1. FlashCells'
    BY <1>0, <1>1, FlashCallCells DEF Begin, StoreTyped
  <2>2. CASE /\ store_ctx' = Context(TRUE, Len(f)) /\ pc' = "receive"
             /\ file' = f /\ UNCHANGED <<call, result>>
    <3>1. Offset' = 0 /\ 0 % Align = 0
      BY <2>2, ImageStoreAssumption DEF Context, Offset
    <3> QED
      BY <2>1, <2>2, <3>1
         DEF StoreTyped, FileKnown, IdleStore, Locals, Aligned, InCall, Ended, call
  <2>3. CASE Return("error") /\ file' = f
    BY <2>1, <2>3, EndedTypes
  <2>4. CASE CutPower
    BY <2>1, <2>4, EndedTypes DEF CutPower
  <2> QED
    BY <1>1, <2>2, <2>3, <2>4 DEF Begin
<1>2. ASSUME Unless(out), FlashCells'
      PROVE  (FileKnown /\ FlashCells /\ IdleStore /\ Locals /\ Aligned)'
  <2>1. CASE Return("error") /\ file' = file
    BY <1>2, <2>1, EndedTypes DEF StoreTyped, FileKnown
  <2>2. CASE CutPower
    BY <1>2, <2>2, EndedTypes DEF CutPower
  <2> QED
    BY <1>2, <2>1, <2>2 DEF Unless
<1>3. CASE FlushPending(out)
  <2>1. /\ pc = "write" /\ flash_area_write(StoreArea, Offset, Filled, out)
        /\ UNCHANGED direct /\ (AfterTurn(NextOffset(PendingMax), <<>>) \/ Unless(out))
    BY <1>3 DEF FlushPending, Offset
  <2>2. Filled \in Seq(Words) /\ Offset \in Nat
    BY <2>1, TurnTakes DEF StoreTyped
  <2>3. FlashCells'
    BY <1>0, <2>1, <2>2, FlashCallCells DEF StoreTyped
  <2>4. Offset % Align = 0
    BY <2>1 DEF StoreTyped, Aligned
  <2>5. /\ NextOffset(PendingMax) = Offset + PendingMax /\ Offset + PendingMax \in Nat
        /\ (Offset + PendingMax) % Align = 0
    BY <2>2, <2>4, SumOfMultiples, ImageStoreAssumption DEF NextOffset, Offset
  <2> QED
    BY <1>2, <2>1, <2>3, <2>5, TurnTypes
<1>4. CASE FinishFlush(out)
  <2>1. /\ pc = "receive" /\ store_ctx.written = store_ctx.expected_size
        /\ flash_area_write(StoreArea, Offset, Padded(Pending), out)
    BY <1>4 DEF FinishFlush, Offset, Pending
  <2>2. /\ Padded(Pending) \in Seq(Words) /\ Offset \in Nat /\ Pending \in Seq(Words)
        /\ Offset + Len(Pending) = Len(file) /\ Len(file) \in Nat
    BY <2>1, FinishWrites DEF StoreTyped, StoreInv, StoreTypes, Pending
  <2>3. FlashCells'
    BY <1>0, <2>1, <2>2, FlashCallCells DEF StoreTyped
  <2>4. CASE /\ store_ctx' = [store_ctx EXCEPT
                    !.flash_write_offset = NextOffset(Len(Padded(Pending))),
                    !.flash_pending = <<>>]
             /\ pc' = "verify" /\ UNCHANGED <<file, call, result>>
    <3>1. Len(file) <= AreaLen[StoreArea] /\ UNCHANGED StoreArea
      BY <1>4, <2>1 DEF StoreTyped, StoreInv, Transfer, InCall, FinishFlush, StoreArea
    <3>2. Len(Padded(Pending)) = RoundUp(Len(Pending))
      BY <2>2, PaddedLength
    <3>3. Offset + RoundUp(Len(Pending)) <= AreaLen[StoreArea]
      <4>1. Offset % Align = 0
        BY <2>1 DEF StoreTyped, Aligned
      <4>2. Len(Pending) \in Nat /\ Offset + Len(Pending) <= AreaLen[StoreArea]
        BY <2>2, <3>1
      <4> QED
        BY <1>0, <2>2, <4>1, <4>2, RoundUpBelow
    <3>4. Offset' = Offset + Len(Padded(Pending))
      BY <2>4 DEF StoreTyped, StoreInv, StoreTypes, Offset, NextOffset
    <3>5. Aligned'
      BY <2>4, <3>1, <3>2, <3>3, <3>4 DEF Aligned
    <3> QED
      BY <2>3, <2>4, <3>5 DEF StoreTyped, FileKnown, IdleStore, Locals, InCall, call
  <2> QED
    BY <1>2, <1>4, <2>3, <2>4 DEF FinishFlush, Pending
<1>5. CASE CommitErase(out)
  <2>1. FlashCells'
    BY <1>0, <1>5, FlashCallCells DEF CommitErase, StoreTyped
  <2>2. CASE pc' = "copy" /\ UNCHANGED <<store_ctx, file, call, result>>
    BY <1>5, <2>1, <2>2 DEF CommitErase, StoreTyped, FileKnown, IdleStore, Locals, Aligned,
       InCall, Ended, call, StoreArea, Offset
  <2> QED
    BY <1>2, <1>5, <2>1, <2>2 DEF CommitErase
<1>6. CASE CommitCopy(out)
  <2>1. /\ pc = "copy" /\ copied < store_ctx.expected_size
        /\ flash_area_write("slot", copied, Padded(Block), out)
    BY <1>6 DEF CommitCopy, MoreToCopy
  <2>2. Padded(Block) \in Seq(Words) /\ copied \in Nat
    BY <2>1, CopyWrites DEF StoreTyped
  <2>3. FlashCells'
    BY <1>0, <2>1, <2>2, FlashCallCells DEF StoreTyped
  <2>4. CASE UNCHANGED <<store_ctx, file, chunk, size, pc, result>>
    BY <1>6, <2>3, <2>4 DEF CommitCopy, StoreTyped, FileKnown, IdleStore, Locals, Aligned,
       StoreArea, Offset
  <2> QED
    BY <1>2, <1>6, <2>3, <2>4 DEF CommitCopy
<1> QED
  BY <1>1, <1>3, <1>4, <1>5, <1>6 DEF FlashStep

\* The steps that do not call the flash driver.
LEMMA QuietStepTypes ==
  ASSUME StoreTyped, [Next]_vars, ~\E out \in Outcomes : FlashStep(out)
  PROVE  (FileKnown /\ FlashCells /\ IdleStore /\ Locals /\ Aligned)'
<1>1. UNCHANGED <<direct, flash>>
  BY DEF Next, BeginRefused, Write, FillPending, FinishEarly, Verify, CommitDone, Launch,
         PowerLoss, vars
<1>2. FlashCells'
  BY <1>1 DEF StoreTyped, FlashCells
<1>3. UNCHANGED StoreArea
  BY <1>1 DEF StoreArea
<1>4. CASE \E n \in 1 .. ChunkMax : Write(n)
  <2>1. PICK n \in 1 .. ChunkMax : Write(n)
    BY <1>4
  <2>2. /\ pc = "receive" /\ pc' = "write" /\ size' = n
        /\ UNCHANGED <<store_ctx, file, result>>
        /\ n <= store_ctx.expected_size - store_ctx.written
        /\ chunk' = SubSeq(file, store_ctx.written + 1, store_ctx.written + n)
    BY <2>1 DEF Write
  <2>3. /\ store_ctx.expected_size = Len(file) /\ file \in Seq(Words)
        /\ store_ctx.written \in Nat /\ n \in Nat
    BY <2>2, FilesAreWords, ImageStoreAssumption
       DEF StoreTyped, StoreInv, StoreTypes, Transfer, InCall
  <2>4. store_ctx.written + n <= Len(file)
    BY <2>2, <2>3
  <2>5. Len(chunk') = n
    BY <2>2, <2>3, <2>4, PartOf
  <2>6. n \in 0 .. ChunkMax /\ n <= n
    BY ImageStoreAssumption
  <2>7. Offset' = Offset
    BY <2>2 DEF Offset
  <2> QED
    BY <1>2, <2>2, <2>5, <2>6, <2>7
       DEF StoreTyped, FileKnown, IdleStore, Locals, Aligned, InCall, Ended
<1>5. CASE FillPending
  <2>1. /\ pc = "write" /\ AfterTurn(Offset, Filled) /\ Offset \in Nat /\ Offset % Align = 0
    BY <1>5, TurnTakes DEF FillPending, Offset, StoreTyped, Aligned
  <2> QED
    BY <1>1, <1>2, <2>1, TurnTypes
<1>6. CASE FinishEarly \/ CommitDone \/ PowerLoss
  BY <1>2, <1>6, EndedTypes
     DEF FinishEarly, CommitDone, PowerLoss, CutPower, StoreTyped, FileKnown
<1>7. CASE Verify
  <2>1. CASE Return("ok") \/ Return("error")
    BY <1>2, <1>7, <2>1, EndedTypes DEF Verify, StoreTyped, FileKnown
  <2>2. CASE pc' = "commit" /\ UNCHANGED <<store_ctx, call, result>>
    <3>1. Offset' = Offset
      BY <2>2 DEF Offset
    <3> QED
      BY <1>2, <1>3, <1>7, <2>2, <3>1
         DEF Verify, StoreTyped, FileKnown, IdleStore, Locals, Aligned, InCall, Ended, call
  <2> QED
    BY <1>7, <2>1, <2>2 DEF Verify
<1>8. CASE (\E f \in Files : BeginRefused(f)) \/ Launch
  <2>1. /\ pc \in {"idle", "done", "off"} /\ pc' \in {"idle", "done"}
        /\ UNCHANGED <<store_ctx, size, chunk>> /\ result' \in {"ok", "error"}
        /\ file' \in Files \cup {<<>>}
    BY <1>8 DEF BeginRefused, Launch, call, StoreTyped, FileKnown, Locals
  <2> QED
    BY <1>2, <2>1 DEF StoreTyped, FileKnown, IdleStore, Locals, Aligned, InCall, Ended
<1>9. CASE UNCHANGED vars
  BY <1>2, <1>3, <1>9
     DEF vars, call, StoreTyped, FileKnown, IdleStore, Locals, Aligned, Offset
<1> QED
  BY <1>4, <1>5, <1>6, <1>7, <1>8, <1>9 DEF Next

\* Every step keeps the types.
LEMMA StoreTypedStep == StoreTyped /\ [Next]_vars => StoreTyped'
<1> SUFFICES ASSUME StoreTyped, [Next]_vars PROVE StoreTyped'
  OBVIOUS
<1>1. StoreInv'
  BY StoreStep DEF StoreTyped
<1>2. (FileKnown /\ FlashCells /\ IdleStore /\ Locals /\ Aligned)'
  BY FlashStepTypes, QuietStepTypes
<1> QED
  BY <1>1, <1>2 DEF StoreTyped

\* What the flushed words, the pending buffer and the packet add up to stays
\* within the file, and the file within its area.
LEMMA StoreTypedMeansTypeOK == StoreTyped => TypeOK
<1> SUFFICES ASSUME StoreTyped PROVE TypeOK
  OBVIOUS
<1>1. /\ direct \in BOOLEAN /\ store_ctx.active \in BOOLEAN /\ FileKnown
      /\ store_ctx.expected_size \in Nat /\ store_ctx.written \in Nat /\ Offset \in Nat
      /\ Pending \in Seq(Words) /\ chunk \in Seq(Words) /\ copied \in Nat /\ size \in Nat
      /\ Len(Pending) \in Nat /\ Len(chunk) \in Nat
  BY DEF StoreTyped, StoreInv, StoreTypes, Offset, Pending
<1>2. AreaLen[StoreArea] \in Nat /\ SlotLen \in Nat /\ PendingMax \in Nat /\ 0 < PendingMax
  BY ImageStoreAssumption DEF AreaLen, StoreArea
<1>3. \A area \in {"slot", "patch"} : Len(flash[area]) = AreaLen[area]
  <2>1. \A area \in {"slot", "patch"} : AreaLen[area] \in Nat
    BY ImageStoreAssumption DEF AreaLen
  <2>2. \A n \in Nat : \A cells \in [1 .. n -> Cells] : Len(cells) = n
    OBVIOUS
  <2> QED
    BY <2>1, <2>2 DEF StoreTyped, FlashCells
<1>4. /\ size \in 0 .. ChunkMax /\ Len(chunk) <= size /\ result \in {"ok", "error"}
      /\ pc \in {"idle", "receive", "write", "verify", "commit", "copy", "done", "off"}
  BY DEF StoreTyped, Locals, InCall
<1>5. CASE pc \notin InCall
  <2>1. /\ store_ctx.expected_size = 0 /\ store_ctx.written = 0 /\ Offset = 0
        /\ Len(Pending) = 0 /\ copied = 0
    BY <1>5 DEF StoreTyped, StoreInv, IdleStore, NoLocals, Context, Offset, Pending, InCall
  <2> QED
    BY <1>1, <1>2, <1>3, <1>4, <2>1 DEF TypeOK, FileKnown, Offset, Pending
<1>6. CASE pc \in InCall
  <2>1. /\ store_ctx.expected_size = Len(file) /\ Len(file) \in Nat
        /\ Len(file) <= SlotLen /\ Len(file) <= AreaLen[StoreArea]
    BY <1>6, FilesAreWords DEF StoreTyped, StoreInv, Transfer
  <2>2. store_ctx.written <= Len(file) /\ Offset <= AreaLen[StoreArea] /\ Len(Pending) < PendingMax
    <3>1. CASE pc \in {"receive", "write"}
      <4>1. /\ Len(Pending) < PendingMax
            /\ Offset + Len(Pending) + Len(chunk)
                 = store_ctx.written + (IF pc = "write" THEN size ELSE 0)
            /\ Offset + Len(Pending) + Len(chunk) <= Len(file)
        BY <3>1 DEF StoreTyped, StoreInv, Receiving
      <4>2. store_ctx.written <= Offset + Len(Pending) + Len(chunk)
        BY <1>1, <4>1
      <4> QED
        BY <1>1, <1>2, <2>1, <4>1, <4>2
    <3>2. CASE pc \in Ended
      BY <1>1, <1>2, <2>1, <3>2 DEF StoreTyped, StoreInv, Received, Aligned
    <3> QED
      BY <1>6, <3>1, <3>2 DEF InCall, Ended
  <2>3. copied <= SlotLen
    BY <1>1, <1>2, <2>1 DEF StoreTyped, StoreInv, Copying, NoLocals
  <2> QED
    BY <1>1, <1>2, <1>3, <1>4, <2>1, <2>2, <2>3 DEF TypeOK, FileKnown, Offset, Pending
<1> QED
  BY <1>5, <1>6

\* The counters of the image store stay within their partitions: no word is
\* ever counted or written past the end of the file, the pending buffer is
\* flushed before it overflows and the padding of the last flush stays in the
\* partition (rtbus_image_store_write, rtbus_image_store_flush_flash).
THEOREM StoreCountersInBounds == Spec => []TypeOK
  BY StoreTypedInit, StoreTypedStep, StoreTypedMeansTypeOK, PTL DEF Spec
=============================================================================
