-------------------------- MODULE CliInputProofs --------------------------
(***************************************************************************)
(* Proofs about CliInput, for every set of bytes and every buffer size:    *)
(*   - exactly one wake-up of the CLI task is under way while the pending  *)
(*     flag is up;                                                         *)
(*   - a command runs only for a control line that ended with it, once for *)
(*     each, whatever the full buffers dropped.                            *)
(***************************************************************************)
EXTENDS CliInput, SequenceTheorems, FiniteSetTheorems, TLAPS

WakeupInv ==
  /\ input_pending \in {0, 1} /\ events \in Nat
  /\ OneWakeup

\* At start-up nothing has been received.
LEMMA WakeupInit == Init => WakeupInv
  BY DEF Init, WakeupInv, OneWakeup

\* A submitted line raises the flag and queues the work item together, and
\* only if there was no wake-up before.
LEMMA WakeupSubmit ==
  ASSUME NEW line, WakeupInv, Submit(line), UNCHANGED <<events, cli>>
  PROVE  WakeupInv'
  BY DEF Submit, WakeupInv, OneWakeup

\* A received byte submits a line or leaves the wake-up alone.
LEMMA WakeupReceive == WakeupInv /\ (\E byte \in Bytes : Receive(byte)) => WakeupInv'
<1> SUFFICES ASSUME WakeupInv, NEW byte \in Bytes, Receive(byte) PROVE WakeupInv'
  OBVIOUS
<1>1. UNCHANGED <<events, cli>>
  BY DEF Receive, task
<1>2. SUFFICES ASSUME UNCHANGED <<input_pending, work>> \/ \E line : Submit(line)
               PROVE  WakeupInv'
  BY DEF Receive, ControlByte, StartControlLine, PlainByte, EndControlLine
<1>3. CASE \E line : Submit(line)
  BY <1>1, <1>3, WakeupSubmit
<1>4. CASE UNCHANGED <<input_pending, work>>
  BY <1>1, <1>4 DEF WakeupInv, OneWakeup
<1> QED
  BY <1>2, <1>3, <1>4

\* The work queue hands the wake-up to the bus, or takes the flag down.
LEMMA WakeupWork == WakeupInv /\ WorkQueue => WakeupInv'
<1> SUFFICES ASSUME WakeupInv, WorkQueue PROVE WakeupInv'
  OBVIOUS
<1>1. CASE PostInput
  BY <1>1 DEF PostInput, task, WakeupInv, OneWakeup
<1>2. CASE GiveUpPost
  BY <1>2 DEF GiveUpPost, ClearPending, task, WakeupInv, OneWakeup
<1> QED
  BY <1>1, <1>2 DEF WorkQueue

\* The CLI task takes the event, keeps the flag while it drains, clears it,
\* and queues the work item anew if the second look finds bytes.
LEMMA WakeupTask == WakeupInv /\ CliTask => WakeupInv'
<1> SUFFICES ASSUME WakeupInv, CliTask PROVE WakeupInv'
  OBVIOUS
<1> USE DEF WakeupInv, OneWakeup
<1>1. CASE StartDrain
  BY <1>1 DEF StartDrain
<1>2. CASE CollectByte
  BY <1>2 DEF CollectByte, wakeup
<1>3. CASE Dispatch
  BY <1>3 DEF Dispatch, wakeup
<1>4. CASE Reboot
  BY <1>4 DEF Reboot
<1>5. CASE StartRecv
  BY <1>5 DEF StartRecv, wakeup
<1>6. CASE EndRecv
  BY <1>6 DEF EndRecv, wakeup
<1>7. CASE FoundEmpty
  BY <1>7 DEF FoundEmpty, wakeup
<1>8. CASE ClearFlag
  BY <1>8 DEF ClearFlag
<1>9. CASE Recheck
  BY <1>9 DEF Recheck, SecondWakeup
<1> QED
  BY <1>1, <1>2, <1>3, <1>4, <1>5, <1>6, <1>7, <1>8, <1>9 DEF CliTask

\* Every step keeps the flag and the wake-up together.
LEMMA WakeupStep == WakeupInv /\ [Next]_vars => WakeupInv'
<1> SUFFICES ASSUME WakeupInv, [Next]_vars PROVE WakeupInv'
  OBVIOUS
<1>1. CASE \E byte \in Bytes : Receive(byte)
  BY <1>1, WakeupReceive
<1>2. CASE PreparePort \/ ReadRing
  BY <1>2 DEF PreparePort, ReadRing, wakeup, task, WakeupInv, OneWakeup
<1>3. CASE WorkQueue
  BY <1>3, WakeupWork
<1>4. CASE CliTask
  BY <1>4, WakeupTask
<1>5. CASE UNCHANGED vars
  BY <1>5 DEF vars, wakeup, task, WakeupInv, OneWakeup
<1> QED
  BY <1>1, <1>2, <1>3, <1>4, <1>5 DEF Next

\* The pending flag is up exactly while one wake-up of the CLI task is under
\* way (rtbus_cli_submit_byte, the work handler, rtbus_cli_process_input).
THEOREM WakeupIsSingle == Spec => []OneWakeup
<1>1. WakeupInv => OneWakeup
  BY DEF WakeupInv
<1> QED
  BY <1>1, WakeupInit, WakeupStep, PTL DEF Spec

-----------------------------------------------------------------------------
(***************************************************************************)
(* The commands that ran and the lines that were sent.  The bytes under    *)
(* way are those the task has of a line and those in the queue; each end   *)
(* of a line among them that a command stands before is a run to come.     *)
(***************************************************************************)

Text  == Bytes \ {"eol"}
Marks == Text \cup {"eol"}

\* The control line under way starts with the prefix and has no end yet.
PortTypes ==
  /\ prepared \in BOOLEAN /\ control_active \in BOOLEAN /\ control_overflow \in BOOLEAN
  /\ port0_line_start \in BOOLEAN
  /\ control_line \in Seq(Text) /\ Len(control_line) < LineMax
  /\ control_active => control_line # <<>> /\ control_line[1] = "@"
  /\ ring \in 0 .. RingMax - 1

QueueTypes ==
  /\ input_msgq \in Seq(Marks) /\ Len(input_msgq) <= QueueMax
  /\ work \in {"idle", "queued", "failed"} /\ unserved \in BOOLEAN
  /\ fails \in 0 .. MaxFails
  /\ stream \in {"none", "open", "whole", "cut"}

TaskTypes ==
  /\ cli \in {"idle", "drain", "dfu", "recv", "clear", "recheck"}
  /\ input_enabled \in BOOLEAN /\ (input_enabled <=> cli \notin {"dfu", "recv"})
  /\ cli_line \in Seq(Text) /\ Len(cli_line) < LineMax

CountTypes ==
  /\ asked \in [Lines -> Nat] /\ Total(asked) <= MaxLines
  /\ ran \in [Commands -> Nat]

\* The lines that are complete, end in the command and have not run yet: in
\* the bytes the CLI task has of a line, and then those that are queued.
Ends(s, c) == {i \in 3 .. Len(s) : s[i] = "eol" /\ s[i - 1] = c /\ s[i - 2] = "@"}
Coming     == cli_line \o input_msgq
Accounted  == \A c \in Commands : ran[c] + Cardinality(Ends(Coming, c)) <= asked[c]

\* A part from the start.
LEMMA FirstOfFacts ==
  ASSUME NEW S, NEW s \in Seq(S), NEW n \in Nat
  PROVE  /\ FirstOf(s, n) \in Seq(S)
         /\ Len(FirstOf(s, n)) = IF n < Len(s) THEN n ELSE Len(s)
         /\ \A j \in 1 .. Len(FirstOf(s, n)) : FirstOf(s, n)[j] = s[j]
<1> DEFINE m == IF n < Len(s) THEN n ELSE Len(s)
<1>1. m \in Nat /\ m <= Len(s)
  OBVIOUS
<1>2. FirstOf(s, n) = SubSeq(s, 1, m)
  BY DEF FirstOf
<1> HIDE DEF m
<1>3. \A i \in 1 .. m : s[i] \in S
  BY <1>1
<1>4. /\ SubSeq(s, 1, m) \in Seq(S)
      /\ Len(SubSeq(s, 1, m)) = IF 1 <= m THEN m - 1 + 1 ELSE 0
      /\ \A i \in 1 .. m - 1 + 1 : SubSeq(s, 1, m)[i] = s[1 + i - 1]
  BY <1>1, <1>3, SubSeqProperties
<1>5. \A i \in 1 .. m : i \in 1 .. m - 1 + 1 /\ 1 + i - 1 = i
  BY <1>1
<1>6. Len(SubSeq(s, 1, m)) = m /\ \A i \in 1 .. m : SubSeq(s, 1, m)[i] = s[i]
  BY <1>1, <1>4, <1>5
<1> QED
  BY <1>2, <1>4, <1>6 DEF m

\* There are finitely many ends.
LEMMA EndsFinite ==
  ASSUME NEW S, NEW s \in Seq(S), NEW c
  PROVE  IsFiniteSet(Ends(s, c)) /\ Cardinality(Ends(s, c)) \in Nat
<1>1. IsFiniteSet(3 .. Len(s)) /\ Ends(s, c) \in SUBSET (3 .. Len(s))
  BY FS_Interval DEF Ends
<1> QED
  BY <1>1, FS_Subset, FS_CardinalityType

\* Bytes taken from the front take their ends with them.
LEMMA EndsOfRest ==
  ASSUME NEW S, NEW s \in Seq(S), NEW t \in Seq(S), NEW k \in Nat,
         Len(t) + k = Len(s), \A i \in 1 .. Len(t) : t[i] = s[i + k], NEW c
  PROVE  /\ Cardinality(Ends(t, c)) <= Cardinality(Ends(s, c))
         /\ (\E x \in Ends(s, c) : x <= k) =>
              Cardinality(Ends(t, c)) + 1 <= Cardinality(Ends(s, c))
<1> DEFINE U == {i \in Ends(s, c) : i > k}
           f == [i \in Ends(t, c) |-> i + k]
<1>1. IsFiniteSet(Ends(s, c)) /\ Cardinality(Ends(s, c)) \in Nat
      /\ Cardinality(Ends(t, c)) \in Nat
  BY EndsFinite
<1>2. IsFiniteSet(U) /\ Cardinality(U) <= Cardinality(Ends(s, c)) /\ Cardinality(U) \in Nat
  <2>1. U \in SUBSET Ends(s, c)
    OBVIOUS
  <2> QED
    BY <1>1, <2>1, FS_Subset, FS_CardinalityType
<1>3. f \in Injection(Ends(t, c), U)
  <2>1. ASSUME NEW i \in Ends(t, c) PROVE i + k \in U
    <3>1. i \in 3 .. Len(t) /\ t[i] = "eol" /\ t[i - 1] = c /\ t[i - 2] = "@"
      BY DEF Ends
    <3>2. i \in 1 .. Len(t) /\ i - 1 \in 1 .. Len(t) /\ i - 2 \in 1 .. Len(t)
      BY <3>1
    <3>3. t[i] = s[i + k] /\ t[i - 1] = s[i - 1 + k] /\ t[i - 2] = s[i - 2 + k]
      BY <3>2
    <3>4. /\ i - 1 + k = i + k - 1 /\ i - 2 + k = i + k - 2
          /\ i + k \in 3 .. Len(s) /\ i + k > k
      BY <3>1
    <3> QED
      BY <3>1, <3>3, <3>4 DEF Ends
  <2>2. f \in [Ends(t, c) -> U]
    BY <2>1
  <2>3. \A i, j \in Ends(t, c) : f[i] = f[j] => i = j
    BY DEF Ends
  <2> QED
    BY <2>2, <2>3 DEF Injection, IsInjective
<1>4. Cardinality(Ends(t, c)) <= Cardinality(U)
  BY <1>2, <1>3, FS_Injection
<1>5. ASSUME NEW x \in Ends(s, c), x <= k
      PROVE  Cardinality(U) + 1 <= Cardinality(Ends(s, c))
  <2>1. U \in SUBSET (Ends(s, c) \ {x})
    BY <1>5 DEF Ends
  <2>2. /\ IsFiniteSet(Ends(s, c) \ {x})
        /\ Cardinality(Ends(s, c) \ {x}) = Cardinality(Ends(s, c)) - 1
    BY <1>1, FS_RemoveElement
  <2>3. Cardinality(U) <= Cardinality(Ends(s, c) \ {x})
    BY <2>1, <2>2, FS_Subset
  <2> QED
    BY <1>1, <1>2, <2>2, <2>3
<1> QED
  BY <1>1, <1>2, <1>4, <1>5

\* Bytes added at the back add at most one end, their last one.
LEMMA EndsOfMore ==
  ASSUME NEW S, NEW s \in Seq(S), NEW b \in Seq(S), NEW c,
         \A i \in 1 .. Len(b) : b[i] = "eol" => i = Len(b)
  PROVE  /\ Cardinality(Ends(s \o b, c)) <= Cardinality(Ends(s, c)) + 1
         /\ ~(b # <<>> /\ Len(s) + Len(b) \in Ends(s \o b, c)) =>
              Cardinality(Ends(s \o b, c)) <= Cardinality(Ends(s, c))
<1> DEFINE t == s \o b
           e == Len(s) + Len(b)
<1>1. /\ t \in Seq(S) /\ Len(t) = e /\ Len(s) \in Nat /\ Len(b) \in Nat
      /\ \A i \in 1 .. e : t[i] = IF i <= Len(s) THEN s[i] ELSE b[i - Len(s)]
  BY ConcatProperties
<1> HIDE DEF t
<1>2. ASSUME NEW i \in Ends(t, c) PROVE i \in Ends(s, c) \/ (b # <<>> /\ i = e)
  <2>1. i \in 3 .. e /\ t[i] = "eol" /\ t[i - 1] = c /\ t[i - 2] = "@"
    BY <1>1 DEF Ends
  <2>2. CASE i <= Len(s)
    <3>1. i \in 1 .. e /\ i - 1 \in 1 .. e /\ i - 2 \in 1 .. e
      BY <2>1, <1>1
    <3>2. t[i] = s[i] /\ t[i - 1] = s[i - 1] /\ t[i - 2] = s[i - 2]
      BY <1>1, <2>1, <2>2, <3>1
    <3> QED
      BY <1>1, <2>1, <2>2, <3>2 DEF Ends
  <2>3. CASE i > Len(s)
    <3>1. i - Len(s) \in 1 .. Len(b) /\ b[i - Len(s)] = "eol"
      BY <1>1, <2>1, <2>3
    <3>2. i - Len(s) = Len(b)
      BY <3>1
    <3> QED
      BY <1>1, <2>1, <3>1, <3>2
  <2> QED
    BY <1>1, <2>1, <2>2, <2>3
<1>3. /\ IsFiniteSet(Ends(s, c)) /\ Cardinality(Ends(s, c)) \in Nat
      /\ Cardinality(Ends(t, c)) \in Nat
  BY <1>1, EndsFinite
<1>4. Cardinality(Ends(t, c)) <= Cardinality(Ends(s, c)) + 1
  <2>1. /\ IsFiniteSet(Ends(s, c) \cup {e})
        /\ Cardinality(Ends(s, c) \cup {e})
             = IF e \in Ends(s, c) THEN Cardinality(Ends(s, c)) ELSE Cardinality(Ends(s, c)) + 1
    BY <1>3, FS_AddElement
  <2>2. Ends(t, c) \in SUBSET (Ends(s, c) \cup {e})
    BY <1>2
  <2>3. Cardinality(Ends(t, c)) <= Cardinality(Ends(s, c) \cup {e})
    BY <2>1, <2>2, FS_Subset
  <2> QED
    BY <1>3, <2>1, <2>3
<1>5. ASSUME ~(b # <<>> /\ e \in Ends(t, c))
      PROVE  Cardinality(Ends(t, c)) <= Cardinality(Ends(s, c))
  <2>1. Ends(t, c) \in SUBSET Ends(s, c)
    BY <1>2, <1>5
  <2> QED
    BY <1>3, <2>1, FS_Subset
<1> QED
  BY <1>4, <1>5 DEF t

\* The wake-up, the types of every part and the accounts.
InputInv == WakeupInv /\ PortTypes /\ QueueTypes /\ TaskTypes /\ CountTypes /\ Accounted

\* At start-up nothing has been received, sent or run.
LEMMA InputInit == Init => InputInv
<1> SUFFICES ASSUME Init PROVE InputInv
  OBVIOUS
<1>1. PortTypes /\ QueueTypes /\ TaskTypes
  <2>1. /\ 0 \in 0 .. RingMax - 1 /\ 0 \in 0 .. MaxFails
        /\ Len(<<>>) < LineMax /\ Len(<<>>) <= QueueMax
        /\ <<>> \in Seq(Text) /\ <<>> \in Seq(Marks)
    BY CliAssumption
  <2>2. PortTypes
    <3>1. control_line \in Seq(Text) /\ Len(control_line) < LineMax /\ ring \in 0 .. RingMax - 1
      BY <2>1, Zenon DEF Init
    <3> QED
      BY <3>1 DEF Init, PortTypes
  <2>3. QueueTypes
    <3>1. input_msgq \in Seq(Marks) /\ Len(input_msgq) <= QueueMax /\ fails \in 0 .. MaxFails
      BY <2>1, Zenon DEF Init
    <3> QED
      BY <3>1 DEF Init, QueueTypes
  <2>4. TaskTypes
    BY <2>1 DEF Init, TaskTypes
  <2> QED
    BY <2>2, <2>3, <2>4
<1>2. CountTypes
  BY CliAssumption DEF Init, CountTypes, Total, Lines, Commands
<1>3. Accounted
  <2>1. ASSUME NEW c \in Commands PROVE ran[c] + Cardinality(Ends(Coming, c)) <= asked[c]
    <3>1. <<>> \o <<>> = <<>> /\ <<>> \in Seq(Marks)
      BY ConcatEmptySeq
    <3>2. Ends(Coming, c) = {}
      BY <3>1 DEF Init, Coming, Ends
    <3> QED
      BY <3>2, FS_EmptySet DEF Init, Lines
  <2> QED
    BY <2>1 DEF Accounted
<1> QED
  BY <1>1, <1>2, <1>3, WakeupInit DEF InputInv

\* What is under way, as sequences of bytes.
LEMMA ComingBytes ==
  ASSUME InputInv
  PROVE  /\ cli_line \in Seq(Marks) /\ input_msgq \in Seq(Marks) /\ Coming \in Seq(Marks)
         /\ Len(Coming) = Len(cli_line) + Len(input_msgq)
         /\ \A i \in 1 .. Len(cli_line) + Len(input_msgq) :
              Coming[i] = IF i <= Len(cli_line) THEN cli_line[i]
                          ELSE input_msgq[i - Len(cli_line)]
         /\ Len(cli_line) \in Nat /\ Len(input_msgq) \in Nat
<1>1. cli_line \in Seq(Marks) /\ input_msgq \in Seq(Marks)
  BY DEF InputInv, TaskTypes, QueueTypes, Marks
<1> QED
  BY <1>1, ConcatProperties DEF Coming

\* What rtbus_cli_submit_byte queues of a line.
LEMMA SubmitTypes ==
  ASSUME InputInv, NEW line \in Seq(Marks), Submit(line)
  PROVE  \E bytes \in Seq(Marks) :
           /\ input_msgq' = input_msgq \o bytes
           /\ Len(bytes) <= Len(line) /\ \A j \in 1 .. Len(bytes) : bytes[j] = line[j]
           /\ input_msgq' \in Seq(Marks) /\ Len(input_msgq') <= QueueMax
           /\ work' \in {"idle", "queued", "failed"} /\ unserved' \in BOOLEAN
<1> DEFINE bytes == IF input_enabled THEN FirstOf(line, QueueMax - Len(input_msgq)) ELSE <<>>
<1>1. /\ input_msgq \in Seq(Marks) /\ Len(input_msgq) \in Nat /\ Len(input_msgq) <= QueueMax
      /\ QueueMax \in Nat /\ QueueMax - Len(input_msgq) \in Nat
  BY CliAssumption DEF InputInv, QueueTypes
<1>2. /\ bytes \in Seq(Marks) /\ Len(bytes) <= Len(line)
      /\ Len(bytes) <= QueueMax - Len(input_msgq)
      /\ \A j \in 1 .. Len(bytes) : bytes[j] = line[j]
  <2>1. CASE input_enabled
    BY <1>1, <2>1, FirstOfFacts
  <2>2. CASE ~input_enabled
    BY <1>1, <2>2
  <2> QED
    BY <2>1, <2>2
<1>3. /\ input_msgq' = input_msgq \o bytes
      /\ \/ input_pending' = 1 /\ work' = "queued" /\ unserved' = FALSE
         \/ UNCHANGED <<input_pending, work, unserved>>
  BY DEF Submit
<1> HIDE DEF bytes
<1>4. input_msgq' \in Seq(Marks) /\ Len(input_msgq') = Len(input_msgq) + Len(bytes)
  BY <1>1, <1>2, <1>3, ConcatProperties
<1>5. Len(input_msgq') <= QueueMax
  BY <1>1, <1>2, <1>4
<1>6. work' \in {"idle", "queued", "failed"} /\ unserved' \in BOOLEAN
  BY <1>3 DEF InputInv, QueueTypes
<1> QED
  BY <1>2, <1>3, <1>4, <1>5, <1>6

\* A control line that ends is accounted for, whatever of it was queued: a
\* command at its end comes with the end, or not at all.
LEMMA SubmitAccounts ==
  ASSUME InputInv, control_active, ~control_overflow,
         Submit(Append(control_line, "eol")), UNCHANGED <<cli_line, ran>>,
         asked' = [asked EXCEPT ![CommandOf(LastOf(control_line, 2))] = @ + 1]
  PROVE  Accounted'
<1> DEFINE line == Append(control_line, "eol")
           n == Len(control_line)
<1>1. /\ control_line \in Seq(Text) /\ control_line # <<>> /\ control_line[1] = "@"
      /\ n \in Nat /\ n >= 1
  BY DEF InputInv, PortTypes
<1>2. /\ line \in Seq(Marks) /\ Len(line) = n + 1 /\ line[n + 1] = "eol"
      /\ \A i \in 1 .. n : line[i] = control_line[i]
  <2>1. control_line \in Seq(Marks) /\ "eol" \in Marks
    BY <1>1 DEF Marks
  <2> QED
    BY <2>1, AppendProperties
<1>3. \A i \in 1 .. n : control_line[i] # "eol"
  BY <1>1 DEF Text
<1> HIDE DEF line, n
<1>4. PICK bytes \in Seq(Marks) :
        /\ input_msgq' = input_msgq \o bytes
        /\ Len(bytes) <= Len(line) /\ \A j \in 1 .. Len(bytes) : bytes[j] = line[j]
  BY <1>2, SubmitTypes DEF line
<1>5. \A i \in 1 .. Len(bytes) : bytes[i] = "eol" => i = n + 1 /\ i = Len(bytes)
  <2> SUFFICES ASSUME NEW i \in 1 .. Len(bytes), bytes[i] = "eol"
               PROVE  i = n + 1 /\ i = Len(bytes)
    OBVIOUS
  <2>1. i \in 1 .. n + 1 /\ bytes[i] = line[i]
    BY <1>2, <1>4
  <2>2. i \notin 1 .. n
    BY <1>2, <1>3, <2>1
  <2> QED
    BY <1>1, <1>2, <1>4, <2>1, <2>2
<1>6. Coming' = Coming \o bytes
  <2>1. cli_line \in Seq(Marks) /\ input_msgq \in Seq(Marks)
    BY ComingBytes
  <2>2. cli_line \o (input_msgq \o bytes) = (cli_line \o input_msgq) \o bytes
    BY <2>1, ConcatAssociative
  <2> QED
    BY <1>4, <2>2 DEF Coming
<1>7. Coming \in Seq(Marks) /\ Len(Coming) \in Nat
  BY ComingBytes
<1>8. ASSUME NEW c \in Commands
      PROVE  ran'[c] + Cardinality(Ends(Coming', c)) <= asked'[c]
  <2> DEFINE e == Len(Coming) + Len(bytes)
  <2>1. /\ ran[c] \in Nat /\ asked[c] \in Nat /\ ran[c] + Cardinality(Ends(Coming, c)) <= asked[c]
        /\ Cardinality(Ends(Coming, c)) \in Nat
    BY <1>7, EndsFinite DEF InputInv, CountTypes, Accounted, Lines
  <2>2. Cardinality(Ends(Coming', c)) \in Nat
    <3>1. Coming \o bytes \in Seq(Marks)
      BY <1>7, ConcatProperties
    <3> QED
      BY <1>6, <3>1, EndsFinite
  <2>3. asked'[c] \in Nat /\ asked'[c] >= asked[c]
    BY <2>1 DEF InputInv, CountTypes, Lines
  <2>4. /\ Cardinality(Ends(Coming', c)) <= Cardinality(Ends(Coming, c)) + 1
        /\ ~(bytes # <<>> /\ e \in Ends(Coming', c)) =>
             Cardinality(Ends(Coming', c)) <= Cardinality(Ends(Coming, c))
    BY <1>5, <1>6, <1>7, EndsOfMore
  <2>5. CASE ~(bytes # <<>> /\ e \in Ends(Coming', c))
    BY <2>1, <2>2, <2>3, <2>4, <2>5
  <2>6. CASE bytes # <<>> /\ e \in Ends(Coming', c)
    <3>1. /\ Coming'[e] = "eol" /\ Coming'[e - 1] = c /\ Coming'[e - 2] = "@"
          /\ \A i \in 1 .. e : Coming'[i] = IF i <= Len(Coming) THEN Coming[i]
                                            ELSE bytes[i - Len(Coming)]
      BY <1>6, <1>7, <2>6, ConcatProperties DEF Ends
    <3>2. Len(bytes) \in Nat /\ Len(bytes) >= 1
      BY <2>6
    <3>3. Len(bytes) = n + 1
      <4>1. e \in 1 .. e /\ e > Len(Coming) /\ e - Len(Coming) = Len(bytes)
        BY <1>7, <3>2
      <4>2. bytes[Len(bytes)] = "eol"
        BY <3>1, <4>1
      <4> QED
        BY <1>5, <3>2, <4>2
    <3>4. \A i \in 1 .. n : Coming'[Len(Coming) + i] = control_line[i]
      <4> SUFFICES ASSUME NEW i \in 1 .. n PROVE Coming'[Len(Coming) + i] = control_line[i]
        OBVIOUS
      <4>1. /\ Len(Coming) + i \in 1 .. e /\ ~(Len(Coming) + i <= Len(Coming))
            /\ Len(Coming) + i - Len(Coming) = i /\ i \in 1 .. Len(bytes)
        BY <1>1, <1>7, <3>3
      <4>2. Coming'[Len(Coming) + i] = bytes[i]
        BY <3>1, <4>1
      <4> QED
        BY <1>2, <1>4, <4>1, <4>2
    <3>5. control_line[n] = c
      <4>1. n \in 1 .. n /\ Len(Coming) + n = e - 1
        BY <1>1, <1>7, <3>3
      <4> QED
        BY <3>1, <3>4, <4>1
    <3>6. n # 1
      BY <1>1, <3>5 DEF Commands
    <3>7. n - 1 \in 1 .. n /\ control_line[n - 1] = "@"
      <4>1. n - 1 \in 1 .. n /\ Len(Coming) + (n - 1) = e - 2
        BY <1>1, <1>7, <3>3, <3>6
      <4> QED
        BY <3>1, <3>4, <4>1
    <3>8. CommandOf(LastOf(control_line, 2)) = c
      <4> DEFINE s == LastOf(control_line, 2)
      <4>1. s = SubSeq(control_line, n - 1, n)
        <5>1. (IF 2 < n THEN n - 2 + 1 ELSE 1) = n - 1
          BY <1>1, <3>6
        <5> QED
          BY <5>1 DEF LastOf, n
      <4>2. \A i \in n - 1 .. n : control_line[i] \in Text
        <5>1. \A i \in n - 1 .. n : i \in 1 .. Len(control_line)
          <6>1. n = Len(control_line)
            BY DEF n
          <6> QED
            BY <1>1, <3>6, <6>1
        <5> QED
          BY <1>1, <5>1, ElementOfSeq
      <4> HIDE DEF s
      <4>3. /\ s \in Seq(Text) /\ Len(s) = IF n - 1 <= n THEN n - (n - 1) + 1 ELSE 0
            /\ \A i \in 1 .. n - (n - 1) + 1 : s[i] = control_line[n - 1 + i - 1]
        <5>1. n - 1 \in Int /\ n \in Int
          BY <1>1
        <5> QED
          BY <4>1, <4>2, <5>1, SubSeqProperties
      <4>4. /\ n - 1 <= n /\ n - (n - 1) + 1 = 2 /\ 1 \in 1 .. 2 /\ 2 \in 1 .. 2
            /\ n - 1 + 1 - 1 = n - 1 /\ n - 1 + 2 - 1 = n
        BY <1>1
      <4>5. Len(s) = 2 /\ s[1] = "@" /\ s[2] = c
        BY <3>5, <3>7, <4>3, <4>4
      <4> QED
        BY <4>5 DEF CommandOf, s
    <3>9. asked'[c] = asked[c] + 1
      BY <3>8 DEF InputInv, CountTypes, Lines
    <3> QED
      BY <2>1, <2>2, <2>4, <3>9
  <2> QED
    BY <2>5, <2>6
<1> QED
  BY <1>8 DEF Accounted

\* Nothing is added to what is under way, and no command runs.
LEMMA SameComing ==
  ASSUME InputInv, UNCHANGED <<cli_line, input_msgq, ran>>,
         asked' \in [Lines -> Nat], \A c \in Commands : asked'[c] >= asked[c]
  PROVE  Accounted'
<1>1. Coming' = Coming
  BY DEF Coming
<1>2. ASSUME NEW c \in Commands
      PROVE  ran'[c] + Cardinality(Ends(Coming', c)) <= asked'[c]
  <2>1. /\ ran[c] \in Nat /\ asked[c] \in Nat /\ asked'[c] \in Nat
        /\ ran[c] + Cardinality(Ends(Coming, c)) <= asked[c]
    BY DEF InputInv, CountTypes, Accounted, Lines
  <2>2. Cardinality(Ends(Coming, c)) \in Nat
    BY ComingBytes, EndsFinite
  <2> QED
    BY <1>1, <2>1, <2>2
<1> QED
  BY <1>2 DEF Accounted

\* The receive callback, for one byte.
LEMMA ReceiveTypes ==
  ASSUME InputInv, NEW byte \in Bytes, Receive(byte)
  PROVE  PortTypes' /\ QueueTypes' /\ TaskTypes' /\ CountTypes' /\ Accounted'
<1>0. UNCHANGED <<prepared, events, task, ran, fails>>
  BY DEF Receive
<1>1. stream' \in {"none", "open", "whole", "cut"}
  BY DEF Receive, InputInv, QueueTypes
<1>2. TaskTypes'
  BY <1>0 DEF InputInv, TaskTypes, task
<1>3. /\ control_line \in Seq(Text) /\ Len(control_line) \in Nat /\ Len(control_line) < LineMax
      /\ LineMax \in Nat /\ LineMax > 1
  BY CliAssumption DEF InputInv, PortTypes
<1>4. CASE ControlByte(byte) /\ byte = "eol"
  <2>1. /\ control_active /\ EndControlLine(control_line)
        /\ control_line' = <<>> /\ control_active' = FALSE /\ control_overflow' = FALSE
        /\ port0_line_start' = TRUE /\ UNCHANGED ring
        /\ Total(asked) < MaxLines
        /\ asked' = [asked EXCEPT ![IF control_overflow THEN "other"
                                    ELSE CommandOf(LastOf(control_line, 2))] = @ + 1]
    BY <1>4 DEF ControlByte
  <2>2. PortTypes'
    <3>1. <<>> \in Seq(Text) /\ Len(<<>>) < LineMax
      BY <1>3
    <3>2. control_line' \in Seq(Text) /\ Len(control_line') < LineMax
      BY <2>1, <3>1, Zenon
    <3> QED
      BY <1>0, <2>1, <3>2 DEF InputInv, PortTypes
  <2> DEFINE l == IF control_overflow THEN "other" ELSE CommandOf(LastOf(control_line, 2))
  <2>3. CountTypes'
    <3>1. l \in Lines
      BY DEF CommandOf, Lines
    <3> HIDE DEF l
    <3>2. /\ asked \in [Lines -> Nat] /\ asked' = [asked EXCEPT ![l] = @ + 1]
          /\ Lines = {"TEST", "DFU", "REBOOT", "other"}
      BY <2>1 DEF InputInv, CountTypes, Lines, Commands, l
    <3>3. asked' \in [Lines -> Nat] /\ Total(asked') = Total(asked) + 1
      BY <3>1, <3>2 DEF Total
    <3>4. Total(asked) \in Nat /\ MaxLines \in Nat
      BY <3>2, CliAssumption DEF Total
    <3> QED
      BY <1>0, <2>1, <3>3, <3>4 DEF InputInv, CountTypes
  <2>4. CASE control_overflow
    <3>1. UNCHANGED <<input_msgq, input_pending, work, unserved>>
      BY <2>1, <2>4 DEF EndControlLine
    <3>2. asked' = [asked EXCEPT !["other"] = @ + 1]
      BY <2>1, <2>4
    <3>3. Accounted'
      <4>1. \A c \in Commands : c # "other" /\ c \in Lines
        BY DEF Commands, Lines
      <4>2. \A c \in Commands : asked'[c] = asked[c] /\ asked[c] \in Nat
        BY <3>2, <4>1 DEF InputInv, CountTypes
      <4>3. asked' \in [Lines -> Nat]
        BY <2>3 DEF CountTypes
      <4>4. UNCHANGED <<cli_line, input_msgq, ran>> /\ \A c \in Commands : asked'[c] >= asked[c]
        BY <1>0, <3>1, <4>2 DEF task
      <4> QED
        BY <4>3, <4>4, SameComing
    <3> QED
      BY <1>0, <1>1, <1>2, <2>2, <2>3, <3>1, <3>3 DEF InputInv, QueueTypes
  <2>5. CASE ~control_overflow
    <3>1. Submit(Append(control_line, "eol"))
      BY <2>1, <2>5 DEF EndControlLine
    <3>2. Append(control_line, "eol") \in Seq(Marks)
      <4>1. control_line \in Seq(Marks) /\ "eol" \in Marks
        BY <1>3 DEF Marks
      <4> QED
        BY <4>1, AppendProperties
    <3>3. QueueTypes'
      BY <1>0, <1>1, <3>1, <3>2, SubmitTypes DEF InputInv, QueueTypes
    <3>4. Accounted'
      BY <1>0, <2>1, <2>5, <3>1, SubmitAccounts DEF task
    <3> QED
      BY <1>2, <2>2, <2>3, <3>3, <3>4
  <2> QED
    BY <2>4, <2>5
<1>5. CASE \/ ControlByte(byte) /\ byte # "eol"
           \/ StartControlLine(byte) \/ PlainByte(byte)
  <2>1. UNCHANGED <<input_msgq, input_pending, work, unserved, asked>>
    BY <1>5 DEF ControlByte, StartControlLine, PlainByte
  <2>2. QueueTypes' /\ CountTypes'
    BY <1>0, <1>1, <2>1 DEF InputInv, QueueTypes, CountTypes
  <2>3. Accounted'
    <3>1. /\ UNCHANGED <<cli_line, input_msgq, ran>>
          /\ asked' \in [Lines -> Nat] /\ \A c \in Commands : asked'[c] >= asked[c]
      BY <1>0, <2>1 DEF task, InputInv, CountTypes, Lines
    <3> QED
      BY <3>1, SameComing
  <2>4. PortTypes'
    <3>1. CASE ControlByte(byte) /\ byte # "eol"
      <4>1. /\ control_active /\ byte \in Text /\ UNCHANGED <<control_active, port0_line_start, ring>>
            /\ \/ /\ Len(control_line) < LineMax - 1 /\ control_line' = Append(control_line, byte)
                  /\ UNCHANGED control_overflow
               \/ control_overflow' = TRUE /\ UNCHANGED control_line
        BY <3>1 DEF ControlByte, Text
      <4>2. CASE UNCHANGED control_line
        BY <1>0, <4>1, <4>2 DEF InputInv, PortTypes
      <4>3. CASE Len(control_line) < LineMax - 1 /\ control_line' = Append(control_line, byte)
        <5>1. control_line # <<>> /\ control_line[1] = "@"
          BY <4>1 DEF InputInv, PortTypes
        <5>2. /\ control_line' \in Seq(Text) /\ control_line' # <<>>
              /\ Len(control_line') = Len(control_line) + 1
              /\ control_line'[1] = control_line[1]
          <6>1. 1 \in 1 .. Len(control_line)
            BY <1>3, <5>1
          <6> QED
            BY <1>3, <4>1, <4>3, <6>1, AppendProperties
        <5>3. Len(control_line') < LineMax
          BY <1>3, <4>3, <5>2
        <5>4. control_overflow' \in BOOLEAN
          BY <4>1 DEF InputInv, PortTypes
        <5> QED
          BY <1>0, <4>1, <5>1, <5>2, <5>3, <5>4 DEF InputInv, PortTypes
      <4> QED
        BY <4>1, <4>2, <4>3
    <3>2. CASE StartControlLine(byte)
      <4>1. /\ control_active' = TRUE /\ port0_line_start' = FALSE /\ control_line' = <<"@">>
            /\ control_overflow' = FALSE /\ UNCHANGED ring /\ "@" \in Text
        BY <3>2 DEF StartControlLine, Text
      <4>2. /\ <<"@">> \in Seq(Text) /\ Len(<<"@">>) < LineMax
            /\ <<"@">> # <<>> /\ <<"@">>[1] = "@"
        BY <1>3, <4>1
      <4>3. /\ control_line' \in Seq(Text) /\ Len(control_line') < LineMax
            /\ control_line' # <<>> /\ control_line'[1] = "@"
        BY <4>1, <4>2, Zenon
      <4> QED
        BY <1>0, <4>1, <4>3 DEF InputInv, PortTypes
    <3>3. CASE PlainByte(byte)
      <4>1. /\ UNCHANGED <<control_line, control_active, control_overflow>> /\ PutRing
            /\ port0_line_start' \in BOOLEAN
        BY <3>3 DEF PlainByte
      <4>2. ring' \in 0 .. RingMax - 1
        BY <4>1, CliAssumption DEF PutRing, RingFull, InputInv, PortTypes
      <4> QED
        BY <1>0, <4>1, <4>2 DEF InputInv, PortTypes
    <3> QED
      BY <1>5, <3>1, <3>2, <3>3
  <2> QED
    BY <1>2, <2>2, <2>3, <2>4
<1> QED
  BY <1>4, <1>5 DEF Receive

\* The port, but for bytes that leave the ring.
LEMMA PortUntouched ==
  ASSUME InputInv, UNCHANGED <<prepared, router>>, ring' \in 0 .. RingMax - 1
  PROVE  PortTypes'
  BY DEF router, InputInv, PortTypes

\* The queue as it was.
LEMMA QueueUntouched ==
  ASSUME InputInv, UNCHANGED input_msgq, work' \in {"idle", "queued", "failed"},
         unserved' \in BOOLEAN, fails' \in 0 .. MaxFails,
         stream' \in {"none", "open", "whole", "cut"}
  PROVE  QueueTypes'
  BY DEF InputInv, QueueTypes

\* No byte moves and no command runs.
LEMMA CountsUntouched ==
  ASSUME InputInv, UNCHANGED <<asked, ran, cli_line, input_msgq>>
  PROVE  CountTypes' /\ Accounted'
<1>1. CountTypes'
  BY DEF InputInv, CountTypes
<1>2. /\ UNCHANGED <<cli_line, input_msgq, ran>>
      /\ asked' \in [Lines -> Nat] /\ \A c \in Commands : asked'[c] >= asked[c]
  BY DEF InputInv, CountTypes, Lines
<1> QED
  BY <1>1, <1>2, SameComing

\* Bytes that leave the queue from its front, with a line the task drops or
\* runs, take their end with them.
LEMMA TakenFromFront ==
  ASSUME InputInv, NEW k \in Nat, Coming' \in Seq(Marks), Len(Coming') + k = Len(Coming),
         \A i \in 1 .. Len(Coming') : Coming'[i] = Coming[i + k],
         UNCHANGED asked, ran' \in [Commands -> Nat],
         \A c \in Commands :
           \/ ran'[c] = ran[c]
           \/ ran'[c] = ran[c] + 1 /\ \E x \in Ends(Coming, c) : x <= k
  PROVE  CountTypes' /\ Accounted'
<1>1. CountTypes'
  BY DEF InputInv, CountTypes
<1>2. ASSUME NEW c \in Commands
      PROVE  ran'[c] + Cardinality(Ends(Coming', c)) <= asked'[c]
  <2>1. /\ ran[c] \in Nat /\ asked[c] \in Nat /\ asked'[c] = asked[c]
        /\ ran[c] + Cardinality(Ends(Coming, c)) <= asked[c]
    BY DEF InputInv, CountTypes, Accounted, Lines
  <2> DEFINE s == Coming
             t == Coming'
  <2>2. s \in Seq(Marks) /\ t \in Seq(Marks) /\ Len(t) + k = Len(s)
        /\ \A i \in 1 .. Len(t) : t[i] = s[i + k]
    BY ComingBytes
  <2>3. \/ ran'[c] = ran[c]
        \/ ran'[c] = ran[c] + 1 /\ \E x \in Ends(s, c) : x <= k
    OBVIOUS
  <2> HIDE DEF s, t
  <2>4. /\ Cardinality(Ends(s, c)) \in Nat /\ Cardinality(Ends(t, c)) \in Nat
        /\ Cardinality(Ends(t, c)) <= Cardinality(Ends(s, c))
        /\ (\E x \in Ends(s, c) : x <= k) =>
              Cardinality(Ends(t, c)) + 1 <= Cardinality(Ends(s, c))
    BY <2>2, EndsFinite, EndsOfRest
  <2>5. ran[c] + Cardinality(Ends(s, c)) <= asked[c]
    BY <2>1 DEF s
  <2>6. ran'[c] + Cardinality(Ends(t, c)) <= asked[c]
    BY <2>1, <2>3, <2>4, <2>5
  <2> QED
    BY <2>1, <2>6 DEF t
<1> QED
  BY <1>1, <1>2 DEF Accounted

\* The head of the queue, and what the task has in front of it.
LEMMA HeadOfQueue ==
  ASSUME InputInv, input_msgq # <<>>
  PROVE  /\ Head(input_msgq) \in Marks /\ Tail(input_msgq) \in Seq(Marks)
         /\ Len(Tail(input_msgq)) + 1 = Len(input_msgq)
         /\ \A i \in 1 .. Len(Tail(input_msgq)) :
              Tail(input_msgq)[i] = Coming[i + (Len(cli_line) + 1)]
         /\ Coming[Len(cli_line) + 1] = Head(input_msgq)
         /\ Len(cli_line) + 1 \in 1 .. Len(Coming)
<1>1. /\ cli_line \in Seq(Marks) /\ input_msgq \in Seq(Marks) /\ Coming \in Seq(Marks)
      /\ Len(Coming) = Len(cli_line) + Len(input_msgq)
      /\ \A i \in 1 .. Len(cli_line) + Len(input_msgq) :
           Coming[i] = IF i <= Len(cli_line) THEN cli_line[i]
                       ELSE input_msgq[i - Len(cli_line)]
      /\ Len(cli_line) \in Nat /\ Len(input_msgq) \in Nat
  BY ComingBytes
<1>2. /\ Head(input_msgq) \in Marks /\ Tail(input_msgq) \in Seq(Marks)
      /\ Len(Tail(input_msgq)) = Len(input_msgq) - 1
      /\ \A i \in 1 .. Len(Tail(input_msgq)) : Tail(input_msgq)[i] = input_msgq[i + 1]
  BY <1>1, HeadTailProperties
<1>3. Head(input_msgq) = input_msgq[1] /\ Len(input_msgq) >= 1
  BY <1>1
<1>4. ASSUME NEW i \in 1 .. Len(Tail(input_msgq))
      PROVE  Tail(input_msgq)[i] = Coming[i + (Len(cli_line) + 1)]
  <2>1. /\ i + (Len(cli_line) + 1) \in 1 .. Len(cli_line) + Len(input_msgq)
        /\ ~(i + (Len(cli_line) + 1) <= Len(cli_line))
        /\ i + (Len(cli_line) + 1) - Len(cli_line) = i + 1
    BY <1>1, <1>2
  <2> QED
    BY <1>1, <1>2, <2>1
<1>5. Coming[Len(cli_line) + 1] = Head(input_msgq)
  <2>1. /\ Len(cli_line) + 1 \in 1 .. Len(cli_line) + Len(input_msgq)
        /\ ~(Len(cli_line) + 1 <= Len(cli_line)) /\ Len(cli_line) + 1 - Len(cli_line) = 1
    BY <1>1, <1>3
  <2> QED
    BY <1>1, <1>3, <2>1
<1> QED
  BY <1>1, <1>2, <1>3, <1>4, <1>5

\* rtbus_cli_process_byte takes one byte of a line, or drops the line.
LEMMA CollectTypes ==
  ASSUME InputInv, CollectByte
  PROVE  PortTypes' /\ QueueTypes' /\ TaskTypes' /\ CountTypes' /\ Accounted'
<1>1. /\ input_msgq # <<>> /\ Head(input_msgq) # "eol" /\ input_msgq' = Tail(input_msgq)
      /\ UNCHANGED <<prepared, router, ring, wakeup, cli, input_enabled, ghosts>>
      /\ cli_line' = IF Len(cli_line) < LineMax - 1 THEN Append(cli_line, Head(input_msgq))
                     ELSE <<>>
  BY DEF CollectByte
<1>2. /\ cli_line \in Seq(Text) /\ Len(cli_line) \in Nat /\ Len(cli_line) < LineMax
      /\ LineMax \in Nat /\ LineMax > 1
  BY CliAssumption DEF InputInv, TaskTypes
<1>3. /\ Head(input_msgq) \in Text /\ Tail(input_msgq) \in Seq(Marks)
      /\ Len(Tail(input_msgq)) + 1 = Len(input_msgq)
      /\ Coming[Len(cli_line) + 1] = Head(input_msgq)
  BY <1>1, HeadOfQueue DEF Marks
<1>4. /\ \A i \in 1 .. Len(Tail(input_msgq)) :
           Tail(input_msgq)[i] = Coming[i + (Len(cli_line) + 1)]
      /\ Len(Coming) = Len(cli_line) + Len(input_msgq) /\ Len(input_msgq) \in Nat
      /\ \A i \in 1 .. Len(cli_line) : Coming[i] = cli_line[i]
  <2>1. \A i \in 1 .. Len(cli_line) : i \in 1 .. Len(cli_line) + Len(input_msgq) /\ i <= Len(cli_line)
    BY ComingBytes
  <2> QED
    BY <1>1, <2>1, HeadOfQueue, ComingBytes
<1>5. PortTypes'
  BY <1>1 DEF InputInv, PortTypes, router
<1>6. QueueTypes'
  <2>1. Len(Tail(input_msgq)) <= QueueMax
    BY <1>3, <1>4, CliAssumption DEF InputInv, QueueTypes
  <2> QED
    BY <1>1, <1>3, <2>1 DEF InputInv, QueueTypes, wakeup, ghosts
<1>7. UNCHANGED <<asked, ran>> /\ ran' \in [Commands -> Nat]
  BY <1>1 DEF ghosts, InputInv, CountTypes
<1>8. CASE Len(cli_line) < LineMax - 1
  <2> DEFINE byte == Head(input_msgq)
             rest == Tail(input_msgq)
             line == Append(cli_line, byte)
  <2>1. /\ line \in Seq(Text) /\ Len(line) = Len(cli_line) + 1
        /\ \A i \in 1 .. Len(cli_line) : line[i] = cli_line[i]
        /\ line[Len(cli_line) + 1] = byte
    BY <1>2, <1>3, AppendProperties
  <2>2. cli_line' = line /\ input_msgq' = rest
    BY <1>1, <1>8
  <2>3. line \in Seq(Marks) /\ rest \in Seq(Marks) /\ Len(rest) \in Nat
    BY <1>3, <2>1 DEF Marks
  <2> HIDE DEF byte, rest, line
  <2>4. TaskTypes'
    <3>1. Len(line) < LineMax
      BY <1>2, <1>8, <2>1
    <3> QED
      BY <1>1, <2>1, <2>2, <3>1 DEF InputInv, TaskTypes
  <2>5. /\ line \o rest \in Seq(Marks) /\ Len(line \o rest) = Len(line) + Len(rest)
        /\ \A i \in 1 .. Len(line) + Len(rest) :
             (line \o rest)[i] = IF i <= Len(line) THEN line[i] ELSE rest[i - Len(line)]
    BY <2>3, ConcatProperties
  <2>6. Coming' = line \o rest
    BY <2>2 DEF Coming
  <2>7. Len(Coming') + 0 = Len(Coming)
    BY <1>2, <1>3, <1>4, <2>1, <2>3, <2>5, <2>6 DEF rest
  <2>8. ASSUME NEW i \in 1 .. Len(Coming') PROVE Coming'[i] = Coming[i + 0]
    <3>1. i \in 1 .. Len(line) + Len(rest) /\ i + 0 = i
      BY <2>5, <2>6
    <3>2. CASE i <= Len(cli_line)
      BY <1>2, <1>4, <2>1, <2>5, <2>6, <3>1, <3>2
    <3>3. CASE i = Len(cli_line) + 1
      BY <1>2, <1>3, <2>1, <2>5, <2>6, <3>1, <3>3 DEF byte
    <3>4. CASE i > Len(cli_line) + 1
      <4>1. /\ ~(i <= Len(line)) /\ i - Len(line) \in 1 .. Len(rest)
            /\ i - Len(line) + (Len(cli_line) + 1) = i
        BY <1>2, <2>1, <2>3, <3>1, <3>4
      <4>2. Coming'[i] = rest[i - Len(line)]
        BY <2>5, <2>6, <3>1, <4>1
      <4> QED
        BY <1>4, <3>1, <4>1, <4>2 DEF rest
    <3> QED
      BY <1>2, <3>1, <3>2, <3>3, <3>4
  <2>9. CountTypes' /\ Accounted'
    <3>1. Coming' \in Seq(Marks) /\ 0 \in Nat
      BY <2>5, <2>6
    <3> QED
      BY <1>7, <2>7, <2>8, <3>1, TakenFromFront
  <2> QED
    BY <1>5, <1>6, <2>4, <2>9
<1>9. CASE ~(Len(cli_line) < LineMax - 1)
  <2>1. cli_line' = <<>> /\ Coming' = Tail(input_msgq)
    <3>1. cli_line' = <<>>
      BY <1>1, <1>9
    <3>2. <<>> \o Tail(input_msgq) = Tail(input_msgq)
      BY <1>3, ConcatEmptySeq
    <3> QED
      BY <1>1, <3>1, <3>2 DEF Coming
  <2>2. TaskTypes'
    <3>1. <<>> \in Seq(Text) /\ Len(<<>>) < LineMax
      BY <1>2
    <3>2. cli_line' \in Seq(Text) /\ Len(cli_line') < LineMax
      BY <2>1, <3>1, Zenon
    <3> QED
      BY <1>1, <3>2 DEF InputInv, TaskTypes
  <2>3. CountTypes' /\ Accounted'
    <3> DEFINE k == Len(cli_line) + 1
    <3>1. /\ k \in Nat /\ Coming' \in Seq(Marks) /\ Len(Coming') + k = Len(Coming)
          /\ \A i \in 1 .. Len(Coming') : Coming'[i] = Coming[i + k]
      BY <1>2, <1>3, <1>4, <2>1
    <3> HIDE DEF k
    <3> QED
      BY <1>7, <3>1, TakenFromFront
  <2> QED
    BY <1>5, <1>6, <2>2, <2>3
<1> QED
  BY <1>8, <1>9

\* A line of one command is the prefix and the command.
LEMMA CommandEnds ==
  ASSUME InputInv, input_msgq # <<>>, Head(input_msgq) = "eol",
         NEW c \in Commands, CommandOf(cli_line) = c
  PROVE  \E x \in Ends(Coming, c) : x <= Len(cli_line) + 1
<1>1. Len(cli_line) = 2 /\ cli_line[1] = "@" /\ cli_line[2] = c
  BY DEF CommandOf, Commands
<1>2. /\ Coming[1] = cli_line[1] /\ Coming[2] = cli_line[2]
      /\ Coming[3] = "eol" /\ 3 \in 3 .. Len(Coming)
  <2>1. 2 + 1 = 3 /\ 3 \in 1 .. Len(Coming) /\ Coming[3] = "eol"
    BY <1>1, HeadOfQueue
  <2>2. 3 \in 3 .. Len(Coming)
    BY <2>1, ComingBytes
  <2>3. /\ 1 \in 1 .. Len(cli_line) + Len(input_msgq) /\ 1 <= Len(cli_line)
        /\ 2 \in 1 .. Len(cli_line) + Len(input_msgq) /\ 2 <= Len(cli_line)
    BY <1>1, ComingBytes
  <2> QED
    BY <2>1, <2>2, <2>3, ComingBytes
<1>3. 3 \in Ends(Coming, c)
  <2>1. 3 - 1 = 2 /\ 3 - 2 = 1
    OBVIOUS
  <2> QED
    BY <1>1, <1>2, <2>1 DEF Ends
<1> QED
  BY <1>1, <1>3

\* rtbus_cli_dispatch_line runs what the line says.
LEMMA DispatchTypes ==
  ASSUME InputInv, Dispatch
  PROVE  PortTypes' /\ QueueTypes' /\ TaskTypes' /\ CountTypes' /\ Accounted'
<1>1. /\ cli = "drain" /\ input_msgq # <<>> /\ Head(input_msgq) = "eol"
      /\ input_msgq' = Tail(input_msgq) /\ cli_line' = <<>>
      /\ ran' = [c \in Commands |-> ran[c] + (IF c = CommandOf(cli_line) THEN 1 ELSE 0)]
      /\ UNCHANGED <<prepared, router, ring, wakeup, stream, unserved, asked, fails>>
      /\ \/ cli' = "dfu" /\ input_enabled' = FALSE
         \/ UNCHANGED <<cli, input_enabled>>
  BY DEF Dispatch
<1>2. PortTypes'
  BY <1>1 DEF InputInv, PortTypes, router
<1>3. /\ Tail(input_msgq) \in Seq(Marks) /\ Len(Tail(input_msgq)) + 1 = Len(input_msgq)
      /\ Len(input_msgq) \in Nat /\ Len(cli_line) \in Nat
      /\ Len(Coming) = Len(cli_line) + Len(input_msgq)
      /\ \A i \in 1 .. Len(Tail(input_msgq)) :
           Tail(input_msgq)[i] = Coming[i + (Len(cli_line) + 1)]
  BY <1>1, HeadOfQueue, ComingBytes
<1>4. QueueTypes'
  <2>1. Len(Tail(input_msgq)) <= QueueMax
    BY <1>3, CliAssumption DEF InputInv, QueueTypes
  <2> QED
    BY <1>1, <1>3, <2>1 DEF InputInv, QueueTypes, wakeup
<1>5. TaskTypes'
  <2>1. <<>> \in Seq(Text) /\ Len(<<>>) < LineMax
    BY CliAssumption
  <2>2. cli_line' \in Seq(Text) /\ Len(cli_line') < LineMax
    BY <1>1, <2>1, Zenon
  <2>3. CASE cli' = "dfu" /\ input_enabled' = FALSE
    BY <2>2, <2>3 DEF TaskTypes
  <2>4. CASE UNCHANGED <<cli, input_enabled>>
    BY <2>2, <2>4 DEF InputInv, TaskTypes
  <2> QED
    BY <1>1, <2>3, <2>4
<1>6. Coming' = Tail(input_msgq)
  <2>1. <<>> \o Tail(input_msgq) = Tail(input_msgq)
    BY <1>3, ConcatEmptySeq
  <2> QED
    BY <1>1, <2>1 DEF Coming
<1>7. ran' \in [Commands -> Nat]
  BY <1>1 DEF InputInv, CountTypes
<1>8. ASSUME NEW c \in Commands
      PROVE  \/ ran'[c] = ran[c]
             \/ ran'[c] = ran[c] + 1 /\ \E x \in Ends(Coming, c) : x <= Len(cli_line) + 1
  <2>1. CASE c = CommandOf(cli_line)
    BY <1>1, <2>1, CommandEnds
  <2>2. CASE c # CommandOf(cli_line)
    BY <1>1, <2>2 DEF InputInv, CountTypes
  <2> QED
    BY <2>1, <2>2
<1>9. CountTypes' /\ Accounted'
  <2> DEFINE k == Len(cli_line) + 1
  <2>1. /\ k \in Nat /\ Coming' \in Seq(Marks) /\ Len(Coming') + k = Len(Coming)
        /\ \A i \in 1 .. Len(Coming') : Coming'[i] = Coming[i + k]
        /\ UNCHANGED asked
    BY <1>1, <1>3, <1>6
  <2>2. \A c \in Commands :
          \/ ran'[c] = ran[c]
          \/ ran'[c] = ran[c] + 1 /\ \E x \in Ends(Coming, c) : x <= k
    BY <1>8
  <2> HIDE DEF k
  <2> QED
    BY <1>7, <2>1, <2>2, TakenFromFront
<1> QED
  BY <1>2, <1>4, <1>5, <1>9

\* A restart loses what is on its way; only the counts go on.
LEMMA RebootTypes ==
  ASSUME InputInv, Reboot
  PROVE  PortTypes' /\ QueueTypes' /\ TaskTypes' /\ CountTypes' /\ Accounted'
<1>1. /\ input_msgq # <<>> /\ Head(input_msgq) = "eol" /\ CommandOf(cli_line) = "REBOOT"
      /\ ran' = [ran EXCEPT !["REBOOT"] = @ + 1] /\ prepared' = FALSE
      /\ control_line' = <<>> /\ control_active' = FALSE /\ control_overflow' = FALSE
      /\ port0_line_start' = TRUE /\ ring' = 0 /\ input_msgq' = <<>> /\ input_enabled' = TRUE
      /\ work' = "idle" /\ cli' = "idle" /\ cli_line' = <<>> /\ stream' = "none"
      /\ unserved' = FALSE /\ UNCHANGED <<asked, fails>>
  BY DEF Reboot
<1>2. /\ <<>> \in Seq(Text) /\ <<>> \in Seq(Marks) /\ Len(<<>>) = 0
      /\ Len(<<>>) < LineMax /\ Len(<<>>) <= QueueMax /\ 0 \in 0 .. RingMax - 1
  BY CliAssumption
<1>3. PortTypes'
  <2>1. control_line' \in Seq(Text) /\ Len(control_line') < LineMax /\ ring' \in 0 .. RingMax - 1
    BY <1>1, <1>2, Zenon
  <2> QED
    BY <1>1, <2>1 DEF PortTypes
<1>4. QueueTypes'
  <2>1. input_msgq' \in Seq(Marks) /\ Len(input_msgq') <= QueueMax
    BY <1>1, <1>2, Zenon
  <2> QED
    BY <1>1, <2>1 DEF InputInv, QueueTypes
<1>5. TaskTypes'
  <2>1. cli_line' \in Seq(Text) /\ Len(cli_line') < LineMax
    BY <1>1, <1>2, Zenon
  <2> QED
    BY <1>1, <2>1 DEF TaskTypes
<1>6. Coming' = <<>>
  <2>1. <<>> \o <<>> = <<>>
    BY <1>2, ConcatEmptySeq
  <2> QED
    BY <1>1, <2>1 DEF Coming
<1>7. ran' \in [Commands -> Nat]
  BY <1>1 DEF InputInv, CountTypes, Commands
<1>8. ASSUME NEW c \in Commands
      PROVE  \/ ran'[c] = ran[c]
             \/ ran'[c] = ran[c] + 1 /\ \E x \in Ends(Coming, c) : x <= Len(Coming)
  <2>1. CASE c = "REBOOT"
    <3>1. ran'[c] = ran[c] + 1
      BY <1>1, <2>1 DEF InputInv, CountTypes
    <3>2. PICK x \in Ends(Coming, c) : x <= Len(cli_line) + 1
      BY <1>1, <2>1, CommandEnds
    <3>3. x <= Len(Coming)
      BY ComingBytes DEF Ends
    <3> QED
      BY <3>1, <3>3
  <2>2. CASE c # "REBOOT"
    BY <1>1, <2>2 DEF InputInv, CountTypes
  <2> QED
    BY <2>1, <2>2
<1>9. CountTypes' /\ Accounted'
  <2> DEFINE k == Len(Coming)
  <2>1. Coming' \in Seq(Marks) /\ Len(Coming') = 0
    BY <1>2, <1>6
  <2>2. /\ k \in Nat /\ Len(Coming') + k = Len(Coming)
        /\ \A i \in 1 .. Len(Coming') : Coming'[i] = Coming[i + k]
        /\ UNCHANGED asked
    BY <1>1, <2>1, ComingBytes
  <2>3. \A c \in Commands :
          \/ ran'[c] = ran[c]
          \/ ran'[c] = ran[c] + 1 /\ \E x \in Ends(Coming, c) : x <= k
    BY <1>8
  <2> HIDE DEF k
  <2> QED
    BY <1>7, <2>1, <2>2, <2>3, TakenFromFront
<1> QED
  BY <1>3, <1>4, <1>5, <1>9

\* The steps that leave the queue and the line alone.
LEMMA OtherTypes ==
  ASSUME InputInv,
         \/ PreparePort \/ ReadRing \/ WorkQueue \/ StartDrain \/ StartRecv \/ EndRecv
         \/ FoundEmpty \/ ClearFlag \/ Recheck \/ UNCHANGED vars
  PROVE  PortTypes' /\ QueueTypes' /\ TaskTypes' /\ CountTypes' /\ Accounted'
<1>1. UNCHANGED <<asked, ran, cli_line, input_msgq>>
  BY DEF PreparePort, ReadRing, WorkQueue, PostInput, GiveUpPost, StartDrain, StartRecv, EndRecv,
         FoundEmpty, ClearFlag, Recheck, vars, task, ghosts
<1>2. CountTypes' /\ Accounted'
  BY <1>1, CountsUntouched
<1>3. PortTypes'
  <2>1. CASE PreparePort
    BY <2>1 DEF PreparePort, router, InputInv, PortTypes
  <2>2. ASSUME ~PreparePort PROVE PortTypes'
    <3>1. UNCHANGED <<prepared, router>>
      BY <2>2 DEF ReadRing, WorkQueue, PostInput, GiveUpPost, StartDrain, StartRecv, EndRecv,
             FoundEmpty, ClearFlag, Recheck, vars
    <3>2. ring' \in {ring, 0} \/ (ring > 0 /\ ring' = ring - 1)
      BY <2>2 DEF ReadRing, WorkQueue, PostInput, GiveUpPost, StartDrain, StartRecv, EndRecv,
             FoundEmpty, ClearFlag, Recheck, vars
    <3>3. ring' \in 0 .. RingMax - 1
      BY <3>2, CliAssumption DEF InputInv, PortTypes
    <3> QED
      BY <3>1, <3>3, PortUntouched
  <2> QED
    BY <2>1, <2>2
<1>4. QueueTypes'
  <2>1. work' \in {work, "idle", "queued", "failed"} /\ unserved' \in {unserved, TRUE, FALSE}
    BY DEF PreparePort, ReadRing, WorkQueue, PostInput, GiveUpPost, StartDrain, StartRecv, EndRecv,
           FoundEmpty, ClearFlag, Recheck, vars, wakeup, ghosts
  <2>2. fails' = fails \/ (fails < MaxFails /\ fails' = fails + 1)
    BY DEF PreparePort, ReadRing, WorkQueue, PostInput, GiveUpPost, StartDrain, StartRecv, EndRecv,
           FoundEmpty, ClearFlag, Recheck, vars, ghosts
  <2>3. stream' \in {stream, "none", "open"}
    BY DEF PreparePort, ReadRing, WorkQueue, PostInput, GiveUpPost, StartDrain, StartRecv, EndRecv,
           FoundEmpty, ClearFlag, Recheck, vars, ghosts
  <2>4. fails' \in 0 .. MaxFails
    BY <2>2, CliAssumption DEF InputInv, QueueTypes
  <2> QED
    BY <1>1, <2>1, <2>3, <2>4, QueueUntouched DEF InputInv, QueueTypes
<1>5. TaskTypes'
  <2>1. CASE StartDrain \/ EndRecv \/ FoundEmpty \/ ClearFlag \/ Recheck
    BY <1>1, <2>1 DEF StartDrain, EndRecv, FoundEmpty, ClearFlag, Recheck, InputInv, TaskTypes
  <2>2. CASE StartRecv
    <3>1. cli = "dfu" /\ cli_line' = cli_line
      BY <1>1, <2>2 DEF StartRecv
    <3>2. cli_line' \in Seq(Text) /\ Len(cli_line') < LineMax
      BY <3>1 DEF InputInv, TaskTypes
    <3>3. CASE cli' = "recv" /\ UNCHANGED input_enabled
      BY <3>1, <3>2, <3>3 DEF InputInv, TaskTypes
    <3>4. CASE cli' = "drain" /\ input_enabled' = TRUE
      BY <3>2, <3>4 DEF TaskTypes
    <3> QED
      BY <2>2, <3>3, <3>4 DEF StartRecv
  <2>3. CASE PreparePort \/ ReadRing \/ WorkQueue \/ UNCHANGED vars
    <3>1. UNCHANGED task
      BY <2>3 DEF PreparePort, ReadRing, WorkQueue, PostInput, GiveUpPost, vars
    <3> QED
      BY <3>1 DEF task, InputInv, TaskTypes
  <2> QED
    BY <2>1, <2>2, <2>3
<1> QED
  BY <1>2, <1>3, <1>4, <1>5

\* Every step keeps the accounts.
LEMMA InputStep == InputInv /\ [Next]_vars => InputInv'
<1> SUFFICES ASSUME InputInv, [Next]_vars PROVE InputInv'
  OBVIOUS
<1>1. WakeupInv'
  BY WakeupStep DEF InputInv
<1>2. PortTypes' /\ QueueTypes' /\ TaskTypes' /\ CountTypes' /\ Accounted'
  BY ReceiveTypes, CollectTypes, DispatchTypes, RebootTypes, OtherTypes DEF Next, CliTask
<1> QED
  BY <1>1, <1>2 DEF InputInv

\* What has run was asked for.
LEMMA InputMeansAsked == InputInv => RunsAsAsked
<1> SUFFICES ASSUME InputInv, NEW c \in Commands PROVE ran[c] <= asked[c]
  BY DEF RunsAsAsked
<1>1. /\ ran[c] \in Nat /\ asked[c] \in Nat
      /\ ran[c] + Cardinality(Ends(Coming, c)) <= asked[c]
  BY DEF InputInv, CountTypes, Accounted, Lines
<1>2. Cardinality(Ends(Coming, c)) \in Nat
  BY ComingBytes, EndsFinite
<1> QED
  BY <1>1, <1>2

\* The sizes, and the one wake-up.
LEMMA InputMeansTypeOK == InputInv => TypeOK
<1> SUFFICES ASSUME InputInv PROVE TypeOK
  OBVIOUS
<1>1. /\ {prepared, control_active, control_overflow, port0_line_start,
          input_enabled, unserved} \subseteq BOOLEAN
      /\ Len(control_line) < LineMax /\ ring \in 0 .. RingMax - 1
  BY DEF InputInv, PortTypes, QueueTypes, TaskTypes
<1>2. /\ Len(cli_line) < LineMax /\ Len(input_msgq) <= QueueMax
      /\ work \in {"idle", "queued", "failed"}
      /\ cli \in {"idle", "drain", "dfu", "recv", "clear", "recheck"}
      /\ stream \in {"none", "open", "whole", "cut"} /\ fails \in 0 .. MaxFails
  BY DEF InputInv, QueueTypes, TaskTypes
<1>3. input_enabled = (cli \notin {"dfu", "recv"})
  BY DEF InputInv, TaskTypes
<1>4. input_pending \in {0, 1} /\ events \in {0, 1}
  <2>1. input_pending \in {0, 1} /\ events \in Nat /\ OneWakeup
    BY DEF InputInv, WakeupInv
  <2>2. events <= 1
    BY <2>1 DEF OneWakeup
  <2> QED
    BY <2>1, <2>2
<1>5. asked \in [Lines -> 0 .. MaxLines]
  <2>1. /\ asked \in [Lines -> Nat] /\ Total(asked) <= MaxLines /\ MaxLines \in Nat
        /\ Lines = {"TEST", "DFU", "REBOOT", "other"}
    BY CliAssumption DEF InputInv, CountTypes, Lines, Commands
  <2>2. \A l \in Lines : asked[l] <= MaxLines
    BY <2>1 DEF Total
  <2> QED
    BY <2>1, <2>2
<1>6. ran \in [Commands -> 0 .. MaxLines]
  <2>1. \A c \in Commands : ran[c] \in Nat /\ ran[c] <= asked[c] /\ asked[c] \in 0 .. MaxLines
    BY <1>5, InputMeansAsked DEF RunsAsAsked, InputInv, CountTypes, Lines
  <2>2. \A c \in Commands : ran[c] \in 0 .. MaxLines
    BY <2>1, CliAssumption
  <2> QED
    BY <2>2 DEF InputInv, CountTypes
<1> QED
  BY <1>1, <1>2, <1>3, <1>4, <1>5, <1>6 DEF TypeOK

\* A command runs once for each control line the host ended with it, and never
\* by itself: bytes dropped where the queue or a line buffer is full do not
\* make a command of what is left (rtbus_runtime_serial_submit_control_line,
\* rtbus_cli_submit_byte, rtbus_cli_process_byte).
THEOREM CommandsRunAsAsked == Spec => []RunsAsAsked
  BY InputInit, InputStep, InputMeansAsked, PTL DEF Spec

\* The line buffers, the ring and the byte queue stay within their sizes, input
\* is off exactly while a transfer is being set up or runs, and there is one
\* wake-up of the CLI task at most.
THEOREM InputInBounds == Spec => []TypeOK
  BY InputInit, InputStep, InputMeansTypeOK, PTL DEF Spec
=============================================================================
