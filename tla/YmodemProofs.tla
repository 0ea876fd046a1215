---------------------------- MODULE YmodemProofs ----------------------------
(***************************************************************************)
(* Proofs about Ymodem, for every file, every modulus of the block numbers *)
(* and every number of faults:                                             *)
(*   - the variables keep to their types and bounds;                       *)
(*   - the store is given the blocks of the file in order, until damaged   *)
(*     frames have left more bytes that look like EOT than there are block *)
(*     numbers;                                                            *)
(*   - without faults no side waits with nothing on the line.              *)
(***************************************************************************)
EXTENDS Ymodem, Integers, FiniteSetTheorems, SequenceTheorems, TLAPS

-----------------------------------------------------------------------------
(***************************************************************************)
(* The state of a transfer.                                                *)
(***************************************************************************)

Count(s, x) == Cardinality({k \in 1 .. Len(s) : s[k] = x})

\* How many blocks false answers may bring the sender ahead: every stray EOT but the
\* first, which is answered with NAK, becomes an ACK.
Ahead == BlockMod - 1

\* Before the file's last block is acknowledged, and then.
Sending == {"ready", "meta_ack", "meta_crc", "data_ack"}
Ending  == {"eot_nak", "eot_ack", "eot_crc", "end_ack"}

\* Whether the receiver has the metadata and an EOT, and whether the final packet may
\* be on the line.
HasMetadata == IF got_metadata THEN 1 ELSE 0
HasEot      == IF eot_seen THEN 1 ELSE 0
MayEnd      == IF eot_seen /\ spc \notin Sending THEN 1 ELSE 0
Received    == Len(stored) + HasMetadata

\* The last block that may be on the line.
LastSent == IF spc \in {"ready", "meta_ack", "meta_crc"} THEN 0
            ELSE IF spc = "data_ack" THEN sent + 1 ELSE size

\* The ACKs the sender has taken for an answer to what it sent.
Acked == IF spc \in {"meta_crc", "data_ack", "eot_nak", "eot_ack"} THEN sent + 1
         ELSE IF spc \in {"eot_crc", "end_ack"} THEN sent + 2 ELSE 0

TransferTypes ==
  /\ toRecv \in Seq(Frames) /\ toSend \in Seq(Bytes)
  /\ rpc \in {"start", "header", "begin", "returned"} /\ rc \in {"none", "ok", "error"}
  /\ got_metadata \in BOOLEAN /\ eot_seen \in BOOLEAN /\ store_active \in BOOLEAN
  /\ stored \in Seq(Nat)
  /\ spc \in DOMAIN Awaited \cup Ended /\ size \in Sizes /\ sent \in 0 .. size
  /\ faults \in 0 .. MaxFaults /\ false_eots \in Nat /\ trouble \in BOOLEAN

\* What the receiver has, in relation to the file.
RecvState ==
  /\ \A k \in 1 .. Len(stored) : stored[k] = k
  /\ Len(stored) <= expected_size /\ Len(stored) <= LastSent
  /\ expected_size \in {0, size} /\ (~got_metadata => expected_size = 0)
  /\ got_metadata /\ rpc # "returned" => expected_size = size
  /\ expected_block = (Len(stored) + 1) % BlockMod
  /\ rc = "ok" => Len(stored) = size

\* How far the sender is.
SendState ==
  /\ block_no = (sent + 1) % BlockMod
  /\ spc \in {"ready", "meta_ack", "meta_crc"} => sent = 0
  /\ spc = "data_ack" => sent < size
  /\ spc \in Ending => sent = size
  /\ spc = "ready" => toRecv = <<>> /\ ~got_metadata

\* A block on the line is one the receiver, with n blocks and m of metadata,
\* does not have, at most as far ahead of it as the false answers brought the
\* sender; a packet without a block is the final one or the metadata.
IsBlock(f, m, n, last) ==
  /\ f.what \in n + 1 .. last /\ f.what <= n + m + Ahead
  /\ f.no = f.what % BlockMod
IsFinal(f, seen)    == f.no = 0 /\ f.what = 0 /\ f.sizes = {0} /\ seen = 1
IsMetadata(f, i, m, all) == i = 1 /\ m = 0 /\ f.no = 0 /\ f.what = 0 /\ f.sizes = {all}

OnLine(q, m, n, last, seen, all) ==
  /\ \A i \in 1 .. Len(q) : q[i].kind = "packet" =>
       IsBlock(q[i], m, n, last) \/ IsFinal(q[i], seen) \/ IsMetadata(q[i], i, m, all)
  /\ \A i, j \in 1 .. Len(q) :
       /\ i < j /\ q[i].kind = "packet" /\ q[j].kind = "packet"
       /\ q[i].what # 0 /\ q[j].what # 0 /\ (i # 1 \/ m = 1)
       => q[i].what < q[j].what
PacketsOnLine == OnLine(toRecv, HasMetadata, Len(stored), LastSent, MayEnd, size)

\* The ACKs and the EOTs on the line, and the EOTs that damaged frames have put there.
Answers    == Count(toSend, "ACK")
Eots       == Count(toRecv, Eot)
StrayBytes == false_eots

\* Until EOT is seen every ACK answers what was received.
Honest == ~eot_seen => Acked + Answers <= Received

\* After it every stray byte makes one more, at most.
Budget ==
  spc \in Sending =>
    Acked + Answers + Eots
      <= Received + StrayBytes - HasEot

TransferInv ==
  TransferTypes /\ RecvState /\ SendState /\ PacketsOnLine /\ Honest /\ Budget

-----------------------------------------------------------------------------
(***************************************************************************)
(* Block numbers, and bytes counted on the line.                           *)
(***************************************************************************)

\* next_block_no: the number of a block follows from the number before it.
LEMMA NextNumber ==
  ASSUME NEW n \in Nat
  PROVE  NextNo(n % BlockMod) = (n + 1) % BlockMod /\ n % BlockMod \in 0 .. BlockMod - 1
<1> DEFINE q == n \div BlockMod
           r == n % BlockMod
<1>0. BlockMod \in Nat \ {0} /\ BlockMod > 1
  BY YmodemAssumption
<1>1. q \in Nat /\ r \in 0 .. BlockMod - 1 /\ n = BlockMod * q + r
  BY <1>0
<1>2. ASSUME NEW m \in Nat, NEW p \in Nat, NEW k \in 0 .. BlockMod - 1, m = BlockMod * p + k
      PROVE  m % BlockMod = k
  BY <1>0, <1>2
<1> HIDE DEF q, r
<1>3. CASE r + 1 < BlockMod
  <2>1. (r + 1) % BlockMod = r + 1
    <3>1. r + 1 = BlockMod * 0 + (r + 1) /\ r + 1 \in 0 .. BlockMod - 1 /\ r + 1 \in Nat
      BY <1>0, <1>1, <1>3
    <3> QED
      BY <1>2, <3>1
  <2>2. (n + 1) % BlockMod = r + 1
    <3>1. n + 1 = BlockMod * q + (r + 1) /\ r + 1 \in 0 .. BlockMod - 1
      BY <1>0, <1>1, <1>3
    <3> QED
      BY <1>1, <1>2, <3>1
  <2> QED
    BY <1>1, <2>1, <2>2 DEF NextNo, r
<1>4. CASE r + 1 = BlockMod
  <2>1. (r + 1) % BlockMod = 0
    <3>1. r + 1 = BlockMod * 1 + 0 /\ 0 \in 0 .. BlockMod - 1 /\ r + 1 \in Nat
      BY <1>0, <1>1, <1>4
    <3> QED
      BY <1>2, <3>1
  <2>2. (n + 1) % BlockMod = 0
    <3>1. n + 1 = BlockMod * (q + 1) + 0 /\ 0 \in 0 .. BlockMod - 1 /\ q + 1 \in Nat
      <4>1. BlockMod * (q + 1) = BlockMod * q + BlockMod
        BY <1>0, <1>1
      <4> QED
        BY <1>0, <1>1, <1>4, <4>1
    <3> QED
      BY <1>2, <3>1
  <2> QED
    BY <1>1, <2>1, <2>2 DEF NextNo, r
<1> QED
  BY <1>0, <1>1, <1>3, <1>4 DEF r

\* A number kept in a byte stays in it.
LEMMA NextInRange ==
  ASSUME NEW no \in 0 .. BlockMod - 1
  PROVE  NextNo(no) \in 0 .. BlockMod - 1
<1>1. no \in Nat /\ no + 1 \in Nat
  BY YmodemAssumption
<1>2. (no + 1) % BlockMod \in 0 .. BlockMod - 1
  BY <1>1, NextNumber
<1> QED
  BY <1>2 DEF NextNo

\* Of two blocks less than a whole round apart the numbers differ.
LEMMA SameNumber ==
  ASSUME NEW a \in Nat, NEW b \in Nat, b <= a, a < b + BlockMod, a % BlockMod = b % BlockMod
  PROVE  a = b
<1> DEFINE p == a \div BlockMod
           q == b \div BlockMod
           r == b % BlockMod
<1>0. BlockMod \in Nat \ {0}
  BY YmodemAssumption
<1>1. p \in Nat /\ q \in Nat /\ r \in 0 .. BlockMod - 1
      /\ a = BlockMod * p + r /\ b = BlockMod * q + r
  <2>1. p \in Nat /\ a % BlockMod \in 0 .. BlockMod - 1 /\ a = BlockMod * p + (a % BlockMod)
    BY <1>0
  <2>2. q \in Nat /\ r \in 0 .. BlockMod - 1 /\ b = BlockMod * q + r
    BY <1>0
  <2> QED
    BY <2>1, <2>2
<1> HIDE DEF p, q, r
<1>2. BlockMod * q <= BlockMod * p /\ BlockMod * p < BlockMod * q + BlockMod
  <2>1. BlockMod * p \in Nat /\ BlockMod * q \in Nat
    BY <1>0, <1>1
  <2> QED
    BY <1>0, <1>1, <2>1
<1>3. CASE p >= q + 1
  <2>1. BlockMod * (q + 1) <= BlockMod * p
    BY <1>0, <1>1, <1>3
  <2>2. BlockMod * (q + 1) = BlockMod * q + BlockMod
    BY <1>0, <1>1
  <2>3. BlockMod * p \in Nat /\ BlockMod * q \in Nat
    BY <1>0, <1>1
  <2> QED
    BY <1>0, <1>2, <2>1, <2>2, <2>3
<1>4. CASE q >= p + 1
  <2>1. BlockMod * (p + 1) <= BlockMod * q
    BY <1>0, <1>1, <1>4
  <2>2. BlockMod * (p + 1) = BlockMod * p + BlockMod
    BY <1>0, <1>1
  <2>3. BlockMod * p \in Nat /\ BlockMod * q \in Nat
    BY <1>0, <1>1
  <2> QED
    BY <1>0, <1>2, <2>1, <2>2, <2>3
<1>5. CASE p = q
  BY <1>1, <1>5
<1> QED
  BY <1>1, <1>3, <1>4, <1>5

\* How often a byte is on the line.
LEMMA CountType ==
  ASSUME NEW S, NEW s \in Seq(S), NEW x
  PROVE  /\ IsFiniteSet({k \in 1 .. Len(s) : s[k] = x})
         /\ Count(s, x) \in Nat /\ Count(s, x) <= Len(s)
<1>1. IsFiniteSet(1 .. Len(s)) /\ Cardinality(1 .. Len(s)) = Len(s)
  <2>1. Len(s) \in Nat /\ 1 \in Int /\ Len(s) \in Int
    OBVIOUS
  <2>2. IsFiniteSet(1 .. Len(s))
        /\ Cardinality(1 .. Len(s)) = IF 1 > Len(s) THEN 0 ELSE Len(s) - 1 + 1
    BY <2>1, FS_Interval
  <2> QED
    BY <2>1, <2>2
<1>2. {k \in 1 .. Len(s) : s[k] = x} \in SUBSET (1 .. Len(s))
  OBVIOUS
<1> QED
  BY <1>1, <1>2, FS_Subset, FS_CardinalityType DEF Count

\* Bytes put on the line are counted with those that are there.
LEMMA CountConcat ==
  ASSUME NEW S, NEW s \in Seq(S), NEW t \in Seq(S), NEW x
  PROVE  Count(s \o t, x) = Count(s, x) + Count(t, x)
<1> DEFINE A == {k \in 1 .. Len(s) : s[k] = x}
           B == {k \in 1 .. Len(t) : t[k] = x}
           C == {k \in Len(s) + 1 .. Len(s) + Len(t) : t[k - Len(s)] = x}
           f == [k \in B |-> k + Len(s)]
<1>1. /\ IsFiniteSet(A) /\ IsFiniteSet(B) /\ Len(s) \in Nat /\ Len(t) \in Nat
      /\ Cardinality(A) \in Nat /\ Cardinality(B) \in Nat
  <2>1. IsFiniteSet(A) /\ Cardinality(A) \in Nat
    BY CountType DEF Count
  <2>2. IsFiniteSet(B) /\ Cardinality(B) \in Nat
    BY CountType DEF Count
  <2> QED
    BY <2>1, <2>2
<1>2. IsFiniteSet(C) /\ Cardinality(C) = Cardinality(B)
  <2>1. f \in Bijection(B, C)
    <3>1. \A k \in B : f[k] \in C
      BY <1>1
    <3>2. \A j, k \in B : f[j] = f[k] => j = k
      BY <1>1
    <3>3. \A c \in C : \E k \in B : f[k] = c
      <4> SUFFICES ASSUME NEW c \in C PROVE \E k \in B : f[k] = c
        OBVIOUS
      <4>1. c - Len(s) \in B /\ c - Len(s) + Len(s) = c
        BY <1>1
      <4> QED
        BY <4>1
    <3>4. f \in [B -> C]
      BY <3>1
    <3> QED
      BY <3>2, <3>3, <3>4 DEF Bijection, Injection, Surjection, IsInjective
  <2> QED
    BY <1>1, <2>1, FS_Bijection DEF ExistsBijection
<1>3. {k \in 1 .. Len(s \o t) : (s \o t)[k] = x} = A \cup C
  <2>1. /\ Len(s \o t) = Len(s) + Len(t)
        /\ \A k \in 1 .. Len(s) + Len(t) :
             (s \o t)[k] = IF k <= Len(s) THEN s[k] ELSE t[k - Len(s)]
    BY ConcatProperties
  <2>2. ASSUME NEW k
        PROVE  (k \in 1 .. Len(s \o t) /\ (s \o t)[k] = x) <=> k \in A \cup C
    BY <1>1, <2>1
  <2> QED
    BY <2>2
<1>4. A \cap C = {}
  BY <1>1
<1> HIDE DEF A, B, C
<1>5. Cardinality(A \cup C) = Cardinality(A) + Cardinality(C) - Cardinality(A \cap C)
  BY <1>1, <1>2, FS_Union
<1>6. Cardinality(A \cup C) = Cardinality(A) + Cardinality(B)
  <2>1. Cardinality(A \cap C) = 0
    BY <1>4, FS_EmptySet
  <2> QED
    BY <1>1, <1>2, <1>5, <2>1
<1> QED
  BY <1>3, <1>6 DEF Count, A, B

\* One byte.
LEMMA CountOne ==
  ASSUME NEW e, NEW x
  PROVE  Count(<<e>>, x) = IF e = x THEN 1 ELSE 0
<1>1. Len(<<e>>) = 1 /\ <<e>>[1] = e
  OBVIOUS
<1>2. CASE e = x
  <2>1. {k \in 1 .. Len(<<e>>) : <<e>>[k] = x} = {1}
    BY <1>1, <1>2
  <2> QED
    BY <1>2, <2>1, FS_Singleton DEF Count
<1>3. CASE e # x
  <2>1. {k \in 1 .. Len(<<e>>) : <<e>>[k] = x} = {}
    BY <1>1, <1>3
  <2> QED
    BY <1>3, <2>1, FS_EmptySet DEF Count
<1> QED
  BY <1>2, <1>3

\* A byte is sent.
LEMMA CountAppend ==
  ASSUME NEW S, NEW s \in Seq(S), NEW e \in S, NEW x
  PROVE  Count(Append(s, e), x) = Count(s, x) + IF e = x THEN 1 ELSE 0
<1>1. Append(s, e) = s \o <<e>> /\ <<e>> \in Seq(S)
  BY AppendIsConcat
<1>2. Count(s \o <<e>>, x) = Count(s, x) + Count(<<e>>, x)
  BY <1>1, CountConcat
<1>3. Count(<<e>>, x) = IF e = x THEN 1 ELSE 0
  BY CountOne
<1> QED
  BY <1>1, <1>2, <1>3

\* A frame or byte of another kind leaves the count.
LEMMA AppendOther ==
  ASSUME NEW S, NEW s \in Seq(S), NEW e \in S, NEW x, e # x
  PROVE  Append(s, e) \in Seq(S) /\ Count(Append(s, e), x) = Count(s, x)
<1>1. Count(Append(s, e), x) = Count(s, x) + 0
  BY CountAppend
<1>2. Count(s, x) \in Nat
  BY CountType
<1> QED
  BY <1>1, <1>2

\* A byte is read.
LEMMA CountTail ==
  ASSUME NEW S, NEW s \in Seq(S), s # <<>>, NEW x
  PROVE  Count(s, x) = Count(Tail(s), x) + IF Head(s) = x THEN 1 ELSE 0
<1>1. /\ Head(s) \in S /\ Tail(s) \in Seq(S) /\ Len(Tail(s)) = Len(s) - 1
      /\ \A i \in 1 .. Len(Tail(s)) : Tail(s)[i] = s[i + 1]
      /\ Head(s) = s[1] /\ Len(s) \in Nat /\ Len(s) # 0
  BY HeadTailProperties
<1>2. <<Head(s)>> \in Seq(S) /\ Len(<<Head(s)>>) = 1 /\ <<Head(s)>>[1] = Head(s)
  BY <1>1
<1> DEFINE u == <<Head(s)>> \o Tail(s)
<1>3. /\ u \in Seq(S) /\ Len(u) = Len(s)
      /\ \A i \in 1 .. Len(s) : u[i] = IF i <= 1 THEN Head(s) ELSE Tail(s)[i - 1]
  <2>1. /\ u \in Seq(S) /\ Len(u) = Len(<<Head(s)>>) + Len(Tail(s))
        /\ \A i \in 1 .. Len(<<Head(s)>>) + Len(Tail(s)) :
             u[i] = IF i <= Len(<<Head(s)>>) THEN <<Head(s)>>[i]
                    ELSE Tail(s)[i - Len(<<Head(s)>>)]
    BY <1>1, <1>2, ConcatProperties
  <2>2. 1 + Len(Tail(s)) = Len(s)
    BY <1>1
  <2> HIDE DEF u
  <2>3. ASSUME NEW i \in 1 .. Len(s)
        PROVE  u[i] = IF i <= 1 THEN Head(s) ELSE Tail(s)[i - 1]
    <3>1. u[i] = IF i <= 1 THEN <<Head(s)>>[i] ELSE Tail(s)[i - 1]
      BY <1>2, <2>1, <2>2
    <3>2. i <= 1 => i = 1
      BY <1>1
    <3> QED
      BY <1>2, <3>1, <3>2
  <2> QED
    BY <1>2, <2>1, <2>2, <2>3
<1> HIDE DEF u
<1>4. \A i \in 1 .. Len(u) : u[i] = s[i]
  <2> SUFFICES ASSUME NEW i \in 1 .. Len(u) PROVE u[i] = s[i]
    OBVIOUS
  <2>1. CASE i <= 1
    BY <1>1, <1>3, <2>1
  <2>2. CASE i > 1
    <3>1. i - 1 \in 1 .. Len(Tail(s)) /\ i - 1 + 1 = i
      BY <1>1, <1>3, <2>2
    <3> QED
      BY <1>1, <1>3, <2>2, <3>1
  <2> QED
    BY <1>1, <1>3, <2>1, <2>2
<1>5. u = s
  BY <1>3, <1>4, SeqEqual
<1>6. Count(u, x) = Count(<<Head(s)>>, x) + Count(Tail(s), x)
  BY <1>1, <1>2, CountConcat DEF u
<1>7. Count(Tail(s), x) \in Nat
  BY <1>1, CountType
<1> QED
  BY <1>5, <1>6, <1>7, CountOne

-----------------------------------------------------------------------------
(***************************************************************************)
(* What the line does to the packets on it.                                *)
(***************************************************************************)

\* How far false answers may bring the sender is a number.
LEMMA AheadType == Ahead \in Nat
<1> QED
  BY YmodemAssumption DEF Ahead

\* The receiver reads a frame; if it is the block it waits for it has one more.
LEMMA LineTail ==
  ASSUME NEW q \in Seq(Frames), q # <<>>, NEW m \in {0, 1}, NEW n \in Nat, NEW last \in Nat,
         NEW seen \in {0, 1}, NEW all, OnLine(q, m, n, last, seen, all),
         NEW m2 \in {0, 1}, m <= m2, NEW seen2 \in {0, 1}, seen <= seen2, NEW n2 \in {n, n + 1},
         n2 = n + 1 => m = 1 /\ q[1].kind = "packet" /\ q[1].what = n + 1
  PROVE  OnLine(Tail(q), m2, n2, last, seen2, all)
<1>1. /\ Tail(q) \in Seq(Frames) /\ Len(Tail(q)) = Len(q) - 1 /\ Len(q) \in Nat /\ Len(q) # 0
      /\ \A i \in 1 .. Len(Tail(q)) : Tail(q)[i] = q[i + 1] /\ i + 1 \in 1 .. Len(q)
  <2>1. /\ Tail(q) \in Seq(Frames) /\ Len(Tail(q)) = Len(q) - 1
        /\ \A i \in 1 .. Len(Tail(q)) : Tail(q)[i] = q[i + 1]
    BY HeadTailProperties
  <2>2. Len(q) \in Nat /\ Len(q) # 0
    OBVIOUS
  <2> QED
    BY <2>1, <2>2
<1> DEFINE t == Tail(q)
<1> HIDE DEF t
<1>2. ASSUME NEW i \in 1 .. Len(t), t[i].kind = "packet"
      PROVE  IsBlock(t[i], m2, n2, last) \/ IsFinal(t[i], seen2)
  <2>1. t[i] = q[i + 1] /\ i + 1 \in 1 .. Len(q) /\ i + 1 # 1 /\ 1 \in 1 .. Len(q) /\ 1 < i + 1
    BY <1>1, <1>2 DEF t
  <2>2. IsBlock(q[i + 1], m, n, last) \/ IsFinal(q[i + 1], seen)
    BY <1>2, <2>1 DEF OnLine, IsMetadata
  <2>3. CASE IsFinal(q[i + 1], seen)
    BY <2>1, <2>3 DEF IsFinal
  <2>4. CASE IsBlock(q[i + 1], m, n, last)
    <3>1. q[i + 1].what \in n + 1 .. last /\ q[i + 1].what <= n + m + Ahead
          /\ q[i + 1].no = q[i + 1].what % BlockMod
      BY <2>4 DEF IsBlock
    <3>2. n2 = n + 1 => n + 1 < q[i + 1].what
      <4> SUFFICES ASSUME n2 = n + 1 PROVE n + 1 < q[i + 1].what
        OBVIOUS
      <4>1. q[i + 1].kind = "packet" /\ q[i + 1].what # 0
        BY <1>2, <2>1, <3>1
      <4>2. m = 1 /\ q[1].kind = "packet" /\ q[1].what = n + 1 /\ n + 1 # 0
        OBVIOUS
      <4>3. q[1].what < q[i + 1].what
        BY <2>1, <4>1, <4>2 DEF OnLine
      <4> QED
        BY <4>2, <4>3
    <3>3. q[i + 1].what \in n2 + 1 .. last /\ q[i + 1].what <= n2 + m2 + Ahead
      BY <3>1, <3>2, AheadType
    <3> QED
      BY <2>1, <3>1, <3>3 DEF IsBlock
  <2> QED
    BY <2>2, <2>3, <2>4
<1>3. ASSUME NEW i \in 1 .. Len(t), NEW j \in 1 .. Len(t),
             i < j, t[i].kind = "packet", t[j].kind = "packet", t[i].what # 0, t[j].what # 0
      PROVE  t[i].what < t[j].what
  <2>1. /\ t[i] = q[i + 1] /\ t[j] = q[j + 1] /\ i + 1 \in 1 .. Len(q) /\ j + 1 \in 1 .. Len(q)
        /\ i + 1 < j + 1 /\ i + 1 # 1
    BY <1>1, <1>3 DEF t
  <2> QED
    BY <1>3, <2>1 DEF OnLine
<1> QED
  BY <1>2, <1>3 DEF OnLine, t

\* Time passes for the packets on the line.
LEMMA LineLater ==
  ASSUME NEW q \in Seq(Frames), NEW m \in {0, 1}, NEW n \in Nat, NEW last \in Nat,
         NEW seen \in {0, 1}, NEW all, OnLine(q, m, n, last, seen, all),
         NEW last2 \in Nat, last <= last2, NEW seen2 \in {0, 1}, seen <= seen2
  PROVE  OnLine(q, m, n, last2, seen2, all)
<1>1. ASSUME NEW i \in 1 .. Len(q), q[i].kind = "packet"
      PROVE  IsBlock(q[i], m, n, last2) \/ IsFinal(q[i], seen2) \/ IsMetadata(q[i], i, m, all)
  <2>1. CASE IsBlock(q[i], m, n, last)
    BY <2>1, AheadType DEF IsBlock
  <2>2. CASE IsFinal(q[i], seen)
    BY <2>2 DEF IsFinal
  <2> QED
    BY <1>1, <2>1, <2>2 DEF OnLine
<1> QED
  BY <1>1 DEF OnLine

\* The sender puts a frame on the line: EOT, the next block, the final packet, or
\* on an empty line the metadata.
LEMMA LineAppend ==
  ASSUME NEW q \in Seq(Frames), NEW m \in {0, 1}, NEW n \in Nat, NEW last \in Nat,
         NEW seen \in {0, 1}, NEW all, OnLine(q, m, n, last, seen, all),
         NEW f \in Frames, NEW last2 \in Nat, last <= last2,
         \/ f.kind # "packet"
         \/ IsBlock(f, m, n, last2) /\ last < f.what
         \/ IsFinal(f, seen)
         \/ q = <<>> /\ IsMetadata(f, 1, m, all)
  PROVE  OnLine(Append(q, f), m, n, last2, seen, all)
<1> DEFINE t == Append(q, f)
<1>1. /\ Len(t) = Len(q) + 1 /\ Len(q) \in Nat /\ t[Len(q) + 1] = f
      /\ \A i \in 1 .. Len(q) : t[i] = q[i]
  BY AppendProperties
<1>2. q = <<>> => Len(q) = 0
  OBVIOUS
<1> HIDE DEF t
<1>3. OnLine(q, m, n, last2, seen, all)
  BY LineLater
<1>4. ASSUME NEW i \in 1 .. Len(t), t[i].kind = "packet"
      PROVE  IsBlock(t[i], m, n, last2) \/ IsFinal(t[i], seen) \/ IsMetadata(t[i], i, m, all)
  <2>1. CASE i = Len(q) + 1
    <3>1. t[i] = f
      BY <1>1, <2>1
    <3>2. q = <<>> => i = 1
      BY <1>2, <2>1
    <3> QED
      BY <1>4, <3>1, <3>2
  <2>2. CASE i \in 1 .. Len(q)
    BY <1>1, <1>3, <1>4, <2>2 DEF OnLine
  <2> QED
    BY <1>1, <2>1, <2>2
<1>5. ASSUME NEW i \in 1 .. Len(t), NEW j \in 1 .. Len(t),
             i < j, t[i].kind = "packet", t[j].kind = "packet",
             t[i].what # 0, t[j].what # 0, i # 1 \/ m = 1
      PROVE  t[i].what < t[j].what
  <2>1. i \in 1 .. Len(q) /\ t[i] = q[i]
    BY <1>1, <1>5
  <2>2. CASE j = Len(q) + 1
    <3>1. t[j] = f
      BY <1>1, <2>2
    <3>2. IsBlock(f, m, n, last2) /\ last < f.what
      <4>1. q # <<>>
        BY <1>2, <2>1
      <4>2. ~IsFinal(f, seen)
        BY <1>5, <3>1 DEF IsFinal
      <4> QED
        BY <1>5, <3>1, <4>1, <4>2
    <3>3. IsBlock(q[i], m, n, last)
      <4>1. ~IsFinal(q[i], seen) /\ ~IsMetadata(q[i], i, m, all)
        BY <1>5, <2>1 DEF IsFinal, IsMetadata
      <4> QED
        BY <1>5, <2>1, <4>1 DEF OnLine
    <3> QED
      BY <2>1, <3>1, <3>2, <3>3 DEF IsBlock
  <2>3. CASE j \in 1 .. Len(q)
    BY <1>1, <1>5, <2>1, <2>3 DEF OnLine
  <2> QED
    BY <1>1, <2>2, <2>3
<1> QED
  BY <1>4, <1>5 DEF OnLine, t

\* A fault makes stray bytes of a packet.
LEMMA LineDamage ==
  ASSUME NEW q \in Seq(Frames), q # <<>>, NEW m \in {0, 1}, NEW n \in Nat, NEW last \in Nat,
         NEW seen \in {0, 1}, NEW all, OnLine(q, m, n, last, seen, all),
         NEW run \in Seq(Strays)
  PROVE  run \o Tail(q) \in Seq(Frames) /\ OnLine(run \o Tail(q), m, n, last, seen, all)
<1> DEFINE t == run \o Tail(q)
<1>1. /\ Tail(q) \in Seq(Frames) /\ Len(Tail(q)) = Len(q) - 1
      /\ \A i \in 1 .. Len(Tail(q)) : Tail(q)[i] = q[i + 1]
      /\ Len(q) \in Nat /\ Len(q) # 0 /\ Len(run) \in Nat
  BY HeadTailProperties
<1>2. run \in Seq(Frames)
  BY DEF Frames
<1>3. /\ t \in Seq(Frames) /\ Len(t) = Len(run) + (Len(q) - 1)
      /\ \A i \in 1 .. Len(t) : t[i] = IF i <= Len(run) THEN run[i] ELSE Tail(q)[i - Len(run)]
  BY <1>1, <1>2, ConcatProperties
<1> HIDE DEF t
<1>4. ASSUME NEW i \in 1 .. Len(t), t[i].kind = "packet"
      PROVE  /\ i > Len(run) /\ i - Len(run) + 1 \in 1 .. Len(q) /\ i - Len(run) + 1 # 1
             /\ t[i] = q[i - Len(run) + 1]
  <2>1. i > Len(run)
    <3> SUFFICES ASSUME i <= Len(run) PROVE FALSE
      BY <1>1, <1>3
    <3>1. t[i] = run[i] /\ run[i] \in Strays
      BY <1>1, <1>3
    <3> QED
      BY <1>4, <3>1 DEF Strays, Stray
  <2>2. i - Len(run) \in 1 .. Len(Tail(q)) /\ t[i] = Tail(q)[i - Len(run)]
    BY <1>1, <1>3, <2>1
  <2> QED
    BY <1>1, <2>1, <2>2
<1>5. ASSUME NEW i \in 1 .. Len(t), t[i].kind = "packet"
      PROVE  IsBlock(t[i], m, n, last) \/ IsFinal(t[i], seen) \/ IsMetadata(t[i], i, m, all)
  BY <1>4, <1>5 DEF OnLine, IsMetadata
<1>6. ASSUME NEW i \in 1 .. Len(t), NEW j \in 1 .. Len(t),
             i < j, t[i].kind = "packet", t[j].kind = "packet",
             t[i].what # 0, t[j].what # 0, i # 1 \/ m = 1
      PROVE  t[i].what < t[j].what
  <2>1. /\ i - Len(run) + 1 \in 1 .. Len(q) /\ i - Len(run) + 1 # 1 /\ t[i] = q[i - Len(run) + 1]
        /\ j - Len(run) + 1 \in 1 .. Len(q) /\ t[j] = q[j - Len(run) + 1]
    BY <1>4, <1>6
  <2>2. i - Len(run) + 1 < j - Len(run) + 1
    BY <1>1, <1>6
  <2> QED
    BY <1>6, <2>1, <2>2 DEF OnLine
<1> QED
  BY <1>3, <1>5, <1>6 DEF OnLine, t

-----------------------------------------------------------------------------
(***************************************************************************)
(* Steps of the three parties.                                             *)
(***************************************************************************)

\* The quantities the invariant compares.
LEMMA Measures ==
  ASSUME TransferTypes
  PROVE  /\ HasMetadata \in {0, 1} /\ HasEot \in {0, 1} /\ MayEnd \in {0, 1} /\ Len(stored) \in Nat
         /\ size \in Nat /\ LastSent \in Nat /\ Acked \in Nat
         /\ Answers \in Nat /\ Eots \in Nat /\ StrayBytes \in Nat /\ Received \in Nat
<1>1. size \in Nat /\ sent \in Nat /\ Len(stored) \in Nat
  BY YmodemAssumption DEF TransferTypes
<1>2. Answers \in Nat /\ Eots \in Nat
  BY CountType DEF TransferTypes, Answers, Eots
<1>3. StrayBytes \in Nat
  BY DEF TransferTypes, StrayBytes
<1>4. LastSent \in Nat /\ Acked \in Nat
  BY <1>1 DEF LastSent, Acked
<1>5. HasMetadata \in {0, 1} /\ HasEot \in {0, 1} /\ MayEnd \in {0, 1}
  BY DEF HasMetadata, HasEot, MayEnd
<1> QED
  BY <1>1, <1>2, <1>3, <1>4, <1>5 DEF Received

\* The same after a step.
LEMMA MeasuresAfter ==
  ASSUME TransferTypes'
  PROVE  /\ HasMetadata' \in {0, 1} /\ HasEot' \in {0, 1} /\ MayEnd' \in {0, 1}
         /\ Len(stored') \in Nat /\ size' \in Nat /\ LastSent' \in Nat /\ Acked' \in Nat
         /\ Answers' \in Nat /\ Eots' \in Nat /\ StrayBytes' \in Nat /\ Received' \in Nat
<1>1. size' \in Nat /\ sent' \in Nat /\ Len(stored') \in Nat
  BY YmodemAssumption DEF TransferTypes
<1>2. Answers' \in Nat /\ Eots' \in Nat
  BY CountType DEF TransferTypes, Answers, Eots
<1>3. StrayBytes' \in Nat
  BY DEF TransferTypes, StrayBytes
<1>4. LastSent' \in Nat /\ Acked' \in Nat
  <2>1. 0 \in Nat /\ \A n \in Nat : n + 1 \in Nat /\ n + 2 \in Nat
    OBVIOUS
  <2> QED
    BY <1>1, <2>1, Zenon DEF LastSent, Acked
<1>5. HasMetadata' \in {0, 1} /\ HasEot' \in {0, 1} /\ MayEnd' \in {0, 1}
  BY DEF HasMetadata, HasEot, MayEnd
<1> QED
  BY <1>1, <1>2, <1>3, <1>4, <1>5 DEF Received

\* The receiver reads a frame (ymodem_wait_header): its ACK answers something it
\* received, or an EOT that is not the first.
ReadsFrame ==
  /\ UNCHANGED <<sender, line>> /\ toRecv # <<>> /\ toRecv' = Tail(toRecv)
  /\ got_metadata => got_metadata'
  /\ IF Head(toRecv) = Eot THEN eot_seen' = TRUE ELSE eot_seen' = eot_seen
  /\ Len(stored') \in {Len(stored), Len(stored) + 1}
  /\ Len(stored') = Len(stored) + 1 =>
       got_metadata /\ Head(toRecv).kind = "packet" /\ Head(toRecv).what = Len(stored) + 1
  /\ (~eot_seen \/ spc \in Sending) => Answers' + Received
       <= Answers + Received' + IF Head(toRecv) = Eot /\ eot_seen THEN 1 ELSE 0

\* A step of rtbus_ymodem_recv that reads a frame (ReadsFrame) keeps the invariant.
LEMMA ReadStep ==
  ASSUME TransferInv, TransferTypes', RecvState', ReadsFrame
  PROVE  TransferInv'
<1>1. /\ TransferTypes /\ SendState /\ PacketsOnLine /\ Honest /\ Budget
      /\ toRecv \in Seq(Frames) /\ toRecv # <<>> /\ toRecv' = Tail(toRecv)
  BY DEF TransferInv, TransferTypes, ReadsFrame
<1>2. /\ HasMetadata \in {0, 1} /\ HasEot \in {0, 1} /\ MayEnd \in {0, 1} /\ Len(stored) \in Nat
      /\ LastSent \in Nat /\ Acked \in Nat /\ Received \in Nat
      /\ Answers \in Nat /\ Eots \in Nat /\ StrayBytes \in Nat
  BY <1>1, Measures
<1>3. /\ HasMetadata' \in {0, 1} /\ HasEot' \in {0, 1} /\ MayEnd' \in {0, 1}
      /\ Len(stored') \in Nat /\ Answers' \in Nat /\ Eots' \in Nat /\ Received' \in Nat
  BY MeasuresAfter
<1>4. UNCHANGED <<spc, size, sent, block_no, false_eots>>
  BY DEF ReadsFrame, sender, line
<1>5. LastSent' = LastSent /\ Acked' = Acked /\ StrayBytes' = StrayBytes
  BY <1>4 DEF LastSent, Acked, StrayBytes
<1>6. got_metadata => got_metadata'
  BY DEF ReadsFrame
<1>7. SendState'
  <2>1. spc = "ready" => FALSE
    BY <1>1 DEF SendState
  <2> QED
    BY <1>1, <1>4, <2>1 DEF SendState
<1>8. HasMetadata <= HasMetadata' /\ MayEnd <= MayEnd'
  <2>1. eot_seen => eot_seen'
    BY DEF ReadsFrame
  <2> QED
    BY <1>4, <1>6, <2>1 DEF HasMetadata, MayEnd
<1>9. PacketsOnLine'
  <2>1. OnLine(toRecv, HasMetadata, Len(stored), LastSent, MayEnd, size)
    BY <1>1 DEF PacketsOnLine
  <2>2. /\ Len(stored') \in {Len(stored), Len(stored) + 1}
        /\ Len(stored') = Len(stored) + 1 =>
             HasMetadata = 1 /\ toRecv[1].kind = "packet" /\ toRecv[1].what = Len(stored) + 1
    <3>1. Head(toRecv) = toRecv[1]
      BY <1>1
    <3> QED
      BY <3>1 DEF ReadsFrame, HasMetadata
  <2>3. OnLine(Tail(toRecv), HasMetadata', Len(stored'), LastSent, MayEnd', size)
    BY <1>1, <1>2, <1>3, <1>8, <2>1, <2>2, LineTail
  <2> QED
    BY <1>1, <1>4, <1>5, <2>3 DEF PacketsOnLine
<1> DEFINE x2 == Answers'
           y2 == Eots'
           z2 == HasEot'
           r2 == Received'
           k  == IF Head(toRecv) = Eot /\ eot_seen THEN 1 ELSE 0
           h  == IF Head(toRecv) = Eot THEN 1 ELSE 0
<1>10. /\ x2 \in Nat /\ y2 \in Nat /\ z2 \in Nat /\ r2 \in Nat
       /\ k \in {0, 1} /\ h \in {0, 1} /\ HasEot \in Nat
  BY <1>2, <1>3
<1>11. (~eot_seen \/ spc \in Sending) => x2 + Received <= Answers + r2 + k
  BY DEF ReadsFrame
<1>12. Eots = y2 + h
  BY <1>1, CountTail DEF Eots
<1>13. z2 + k = HasEot + h
  BY DEF ReadsFrame, HasEot
<1>14. ~eot_seen' => ~eot_seen /\ k = 0
  BY DEF ReadsFrame
<1> HIDE DEF x2, y2, z2, r2, k, h
<1>15. Honest'
  <2> SUFFICES ASSUME ~eot_seen' PROVE Acked + x2 <= r2
    BY <1>5 DEF Honest, x2, r2
  <2>1. Acked + Answers <= Received
    BY <1>1, <1>14 DEF Honest
  <2>2. k = 0 /\ x2 + Received <= Answers + r2 + k
    BY <1>11, <1>14
  <2> QED
    BY <1>2, <1>10, <2>1, <2>2
<1>16. Budget'
  <2> SUFFICES ASSUME spc \in Sending PROVE Acked + x2 + y2 <= r2 + StrayBytes - z2
    BY <1>4, <1>5 DEF Budget, x2, y2, z2, r2
  <2>1. Acked + Answers + Eots <= Received + StrayBytes - HasEot
    BY <1>1 DEF Budget
  <2>2. x2 + Received <= Answers + r2 + k
    BY <1>11
  <2> QED
    BY <1>2, <1>10, <1>12, <1>13, <2>1, <2>2
<1> QED
  BY <1>1, <1>7, <1>9, <1>15, <1>16 DEF TransferInv

\* A step of the receiver that reads nothing, or of the line: it answers nothing
\* and a fault leaves at most MaxStrays stray bytes.
ReadsNothing ==
  /\ UNCHANGED <<got_metadata, eot_seen, stored, sender>>
  /\ toRecv = <<>> => toRecv' = <<>>
  /\ OnLine(toRecv', HasMetadata, Len(stored), LastSent, MayEnd, size)
  /\ Answers' <= Answers /\ Eots' + StrayBytes <= Eots + StrayBytes'

\* So does one that reads nothing from the line (ReadsNothing).
LEMMA IdleStep ==
  ASSUME TransferInv, TransferTypes', RecvState', ReadsNothing
  PROVE  TransferInv'
<1>1. /\ TransferTypes /\ SendState /\ Honest /\ Budget
  BY DEF TransferInv
<1>2. /\ HasMetadata \in {0, 1} /\ HasEot \in {0, 1} /\ MayEnd \in {0, 1}
      /\ Acked \in Nat /\ Received \in Nat /\ Answers \in Nat /\ Eots \in Nat /\ StrayBytes \in Nat
  BY <1>1, Measures
<1>3. Answers' \in Nat /\ Eots' \in Nat /\ StrayBytes' \in Nat
  BY MeasuresAfter
<1>4. UNCHANGED <<got_metadata, eot_seen, stored, spc, size, sent, block_no>>
  BY DEF ReadsNothing, sender
<1>5. /\ LastSent' = LastSent /\ Acked' = Acked
      /\ HasMetadata' = HasMetadata /\ HasEot' = HasEot /\ Received' = Received
      /\ MayEnd' = MayEnd
  BY <1>4 DEF LastSent, Acked, HasMetadata, HasEot, Received, MayEnd
<1>6. SendState'
  <2>1. toRecv = <<>> => toRecv' = <<>>
    BY DEF ReadsNothing
  <2> QED
    BY <1>1, <1>4, <2>1 DEF SendState
<1>7. PacketsOnLine'
  BY <1>4, <1>5 DEF PacketsOnLine, ReadsNothing
<1> DEFINE x2 == Answers'
           y2 == Eots'
           s2 == StrayBytes'
<1>8. /\ x2 <= Answers /\ y2 + StrayBytes <= Eots + s2
      /\ x2 \in Nat /\ y2 \in Nat /\ s2 \in Nat
  BY <1>3 DEF ReadsNothing
<1> HIDE DEF x2, y2, s2
<1>9. Honest'
  <2> SUFFICES ASSUME ~eot_seen PROVE Acked + x2 <= Received
    BY <1>4, <1>5 DEF Honest, x2
  <2>1. Acked + Answers <= Received
    BY <1>1 DEF Honest
  <2> QED
    BY <1>2, <1>8, <2>1
<1>10. Budget'
  <2> SUFFICES ASSUME spc \in Sending
               PROVE  Acked + x2 + y2 <= Received + s2 - HasEot
    BY <1>4, <1>5 DEF Budget, x2, y2, s2
  <2>1. Acked + Answers + Eots <= Received + StrayBytes - HasEot
    BY <1>1 DEF Budget
  <2> QED
    BY <1>2, <1>8, <2>1
<1> QED
  BY <1>6, <1>7, <1>9, <1>10 DEF TransferInv

\* The sender reads a byte: it takes one ACK at most, and reads no EOT back.
SenderReads ==
  /\ UNCHANGED <<receiver, size, line, trouble>>
  /\ toSend # <<>> /\ toSend' = Tail(toSend)
  /\ spc' \in DOMAIN Awaited \cup Ended /\ sent' \in 0 .. size /\ SendState'
  /\ LastSent <= LastSent' /\ toRecv' \in Seq(Frames)
  /\ OnLine(toRecv', HasMetadata, Len(stored), LastSent', MayEnd', size)
  /\ Acked' <= Acked + IF Head(toSend) = "ACK" THEN 1 ELSE 0
  /\ spc' \in Sending => spc \in Sending /\ Eots' = Eots

\* So does an answer that moves the sender on (wait_byte in send_ymodem).
LEMMA SenderStep ==
  ASSUME TransferInv, SenderReads
  PROVE  TransferInv'
<1>1. /\ TransferTypes /\ RecvState /\ Honest /\ Budget /\ toSend \in Seq(Bytes)
      /\ toSend # <<>> /\ toSend' = Tail(toSend) /\ SendState'
  BY DEF TransferInv, TransferTypes, SenderReads
<1>2. /\ HasMetadata \in {0, 1} /\ HasEot \in {0, 1} /\ MayEnd \in {0, 1}
      /\ Len(stored) \in Nat /\ Acked \in Nat /\ Answers \in Nat /\ Eots \in Nat
      /\ StrayBytes \in Nat /\ LastSent \in Nat
      /\ Received \in Nat
  BY <1>1, Measures
<1>3. UNCHANGED <<rpc, got_metadata, eot_seen, store_active, expected_size, expected_block,
                  stored, rc, size, faults, false_eots, trouble>>
  BY DEF SenderReads, receiver, line
<1>4. TransferTypes'
  <2>1. toSend' \in Seq(Bytes)
    BY <1>1, HeadTailProperties
  <2>2. toRecv' \in Seq(Frames) /\ spc' \in DOMAIN Awaited \cup Ended /\ sent' \in 0 .. size
    BY DEF SenderReads
  <2> QED
    BY <1>1, <1>3, <2>1, <2>2 DEF TransferTypes
<1>5. LastSent' \in Nat /\ Acked' \in Nat /\ Answers' \in Nat /\ Eots' \in Nat
  BY <1>4, MeasuresAfter
<1>6. /\ HasMetadata' = HasMetadata /\ HasEot' = HasEot /\ Received' = Received
      /\ StrayBytes' = StrayBytes
  BY <1>3 DEF HasMetadata, HasEot, Received, StrayBytes
<1>7. RecvState'
  <2>1. Len(stored) <= LastSent /\ LastSent <= LastSent'
    BY <1>1 DEF RecvState, SenderReads
  <2>2. Len(stored) <= LastSent'
    BY <1>2, <1>5, <2>1
  <2> QED
    BY <1>1, <1>3, <2>2 DEF RecvState
<1>8. PacketsOnLine'
  BY <1>3, <1>6 DEF PacketsOnLine, SenderReads
<1> DEFINE a2 == Acked'
           x2 == Answers'
           k  == IF Head(toSend) = "ACK" THEN 1 ELSE 0
<1>9. /\ a2 \in Nat /\ x2 \in Nat /\ k \in {0, 1} /\ a2 <= Acked + k /\ Answers = x2 + k
  BY <1>1, <1>5, CountTail DEF Answers, SenderReads
<1> HIDE DEF a2, x2, k
<1>10. Honest'
  <2> SUFFICES ASSUME ~eot_seen PROVE a2 + x2 <= Received
    BY <1>3, <1>6 DEF Honest, a2, x2
  <2>1. Acked + Answers <= Received
    BY <1>1 DEF Honest
  <2> QED
    BY <1>2, <1>9, <2>1
<1>11. Budget'
  <2> SUFFICES ASSUME spc' \in Sending
               PROVE  a2 + x2 + Eots' <= Received + StrayBytes - HasEot
    BY <1>6 DEF Budget, a2, x2
  <2>1. spc \in Sending /\ Eots' = Eots
    BY DEF SenderReads
  <2>2. Acked + Answers + Eots <= Received + StrayBytes - HasEot
    BY <1>1, <2>1 DEF Budget
  <2>3. a2 + x2 + Eots <= Received + StrayBytes - HasEot
    BY <1>2, <1>9, <2>2
  <2> QED
    BY <2>1, <2>3
<1> QED
  BY <1>1, <1>4, <1>7, <1>8, <1>10, <1>11 DEF TransferInv

-----------------------------------------------------------------------------
(***************************************************************************)
(* The receiver.                                                           *)
(***************************************************************************)

\* False answers never bring the sender a whole round ahead.
LEMMA AheadBound == Ahead < BlockMod
<1> QED
  BY YmodemAssumption DEF Ahead

\* The ACKs in what rtbus_ymodem_recv puts.
LEMMA AckCounts ==
  /\ Count(<<>>, "ACK") = 0 /\ Count(<<"NAK">>, "ACK") = 0 /\ Count(<<"CAN">>, "ACK") = 0
  /\ Count(<<"C">>, "ACK") = 0 /\ Count(<<"ACK">>, "ACK") = 1
  /\ Count(<<"ACK", "C">>, "ACK") = 1
<1>1. Count(<<>>, "ACK") = 0
  <2>1. {k \in 1 .. Len(<<>>) : <<>>[k] = "ACK"} = {}
    OBVIOUS
  <2> QED
    BY <2>1, FS_EmptySet DEF Count
<1>2. /\ Count(<<"NAK">>, "ACK") = 0 /\ Count(<<"CAN">>, "ACK") = 0
      /\ Count(<<"C">>, "ACK") = 0 /\ Count(<<"ACK">>, "ACK") = 1
  BY CountOne
<1>3. Count(<<"ACK", "C">>, "ACK") = 1
  <2>1. <<"ACK", "C">> = Append(<<"ACK">>, "C") /\ <<"ACK">> \in Seq(Bytes) /\ "C" \in Bytes
    BY DEF Bytes
  <2>2. "C" # "ACK"
    OBVIOUS
  <2>3. Count(Append(<<"ACK">>, "C"), "ACK") = Count(<<"ACK">>, "ACK")
    BY <2>1, <2>2, AppendOther
  <2> QED
    BY <1>2, <2>1, <2>3
<1> QED
  BY <1>1, <1>2, <1>3

\* Put.
LEMMA PutAnswers ==
  ASSUME toSend \in Seq(Bytes), NEW bytes \in Seq(Bytes), Put(bytes)
  PROVE  toSend' \in Seq(Bytes) /\ Answers' = Answers + Count(bytes, "ACK")
<1>1. toSend' = toSend \o bytes
  BY DEF Put
<1>2. toSend \o bytes \in Seq(Bytes)
      /\ Count(toSend \o bytes, "ACK") = Count(toSend, "ACK") + Count(bytes, "ACK")
  BY CountConcat, ConcatProperties
<1> QED
  BY <1>1, <1>2 DEF Answers

\* Return: the status line holds no answer.
LEMMA ReturnAnswers ==
  ASSUME toSend \in Seq(Bytes), NEW bytes \in Seq(Bytes), NEW code, Return(code, bytes)
  PROVE  /\ toSend' \in Seq(Bytes) /\ Answers' = Answers + Count(bytes, "ACK")
         /\ rpc' = "returned" /\ rc' = code /\ store_active' = FALSE
<1> DEFINE status == IF code = "ok" THEN "STAGED" ELSE "ERROR"
           front  == toSend \o bytes
<1>1. /\ toSend' = front \o <<status>> /\ rpc' = "returned" /\ rc' = code
      /\ store_active' = FALSE
  BY DEF Return
<1>2. status \in Bytes /\ status # "ACK"
  BY DEF Bytes
<1>3. /\ front \in Seq(Bytes)
      /\ Count(front, "ACK") = Count(toSend, "ACK") + Count(bytes, "ACK")
  BY CountConcat, ConcatProperties
<1> HIDE DEF status, front
<1>4. front \o <<status>> \in Seq(Bytes) /\ front \o <<status>> = Append(front, status)
  BY <1>2, <1>3, AppendIsConcat, ConcatProperties
<1>5. Count(Append(front, status), "ACK") = Count(front, "ACK")
  BY <1>2, <1>3, AppendOther
<1> QED
  BY <1>1, <1>3, <1>4, <1>5 DEF Answers

\* What the receiver writes are bytes of the protocol.
LEMMA BytesPut ==
  /\ <<>> \in Seq(Bytes) /\ <<"NAK">> \in Seq(Bytes) /\ <<"CAN">> \in Seq(Bytes)
  /\ <<"C">> \in Seq(Bytes) /\ <<"ACK">> \in Seq(Bytes) /\ <<"ACK", "C">> \in Seq(Bytes)
<1> QED
  BY DEF Bytes

\* A frame is EOT exactly when its first byte is.
LEMMA HeadKind ==
  ASSUME NEW f \in Frames
  PROVE  /\ f.kind = "EOT" <=> f = Eot
         /\ f.kind = "packet" => /\ f.no \in Nat /\ f.what \in Nat
                                /\ f.sizes \in SUBSET (Sizes \cup {0})
<1>1. CASE f \in Strays
  BY <1>1 DEF Strays, Stray, Eot
<1>2. CASE f \in [kind : {"packet"}, no : 0 .. BlockMod - 1, what : Nat,
                  sizes : SUBSET (Sizes \cup {0})]
  BY <1>2, YmodemAssumption DEF Eot, Stray
<1> QED
  BY <1>1, <1>2 DEF Frames

\* A step that fails, or answers nothing, after a frame that is not EOT.
LEMMA RecvNothing ==
  ASSUME TransferInv, TransferTypes', RecvState',
         UNCHANGED <<eot_seen, stored, sender, line>>, got_metadata => got_metadata',
         toRecv # <<>>, toRecv' = Tail(toRecv), Head(toRecv).kind # "EOT", Answers' = Answers
  PROVE  TransferInv'
<1>1. TransferTypes /\ toRecv \in Seq(Frames)
  BY DEF TransferInv, TransferTypes
<1>2. Head(toRecv) # Eot
  BY DEF Eot, Stray
<1>3. Len(stored') = Len(stored) /\ Len(stored) \in Nat /\ Len(stored) # Len(stored) + 1
  BY <1>1, Measures
<1>4. HasMetadata \in {0, 1} /\ HasMetadata' \in {0, 1} /\ HasMetadata <= HasMetadata'
  BY DEF HasMetadata
<1>5. Answers \in Nat
  BY <1>1, Measures
<1> DEFINE m2 == HasMetadata'
           x2 == Answers'
<1>6. Answers' + Received <= Answers + Received' + 0
  <2>1. x2 = Answers /\ m2 \in {0, 1} /\ HasMetadata <= m2
    BY <1>4
  <2> HIDE DEF m2, x2
  <2>2. x2 + (Len(stored) + HasMetadata) <= Answers + (Len(stored) + m2) + 0
    BY <1>3, <1>4, <1>5, <2>1
  <2> QED
    BY <1>3, <2>2 DEF Received, m2, x2
<1>7. ReadsFrame
  BY <1>2, <1>3, <1>6 DEF ReadsFrame
<1> QED
  BY <1>7, ReadStep

\* A frame is taken from the line.
LEMMA GotFrame ==
  ASSUME TransferTypes, NEW kind, Got(kind)
  PROVE  /\ toRecv # <<>> /\ toRecv' = Tail(toRecv) /\ toRecv' \in Seq(Frames)
         /\ Head(toRecv) = toRecv[1] /\ Head(toRecv) \in Frames /\ Head(toRecv).kind = kind
         /\ rpc = "header"
<1>1. toRecv # <<>> /\ toRecv' = Tail(toRecv) /\ Head(toRecv).kind = kind /\ rpc = "header"
  BY DEF Got
<1>2. toRecv \in Seq(Frames)
  BY DEF TransferTypes
<1> QED
  BY <1>1, <1>2, HeadTailProperties

\* CAN ends rtbus_ymodem_recv.
LEMMA CancelStep ==
  ASSUME TransferInv, RecvCancel
  PROVE  TransferInv'
<1>1. TransferTypes /\ RecvState /\ toSend \in Seq(Bytes)
  BY DEF TransferInv, TransferTypes
<1>2. /\ Got("CAN") /\ Return("error", <<>>) /\ trouble' = TRUE
      /\ UNCHANGED <<got_metadata, eot_seen, expected_size, expected_block, stored, sender,
                     line>>
  BY DEF RecvCancel, Fail
<1>3. /\ toSend' \in Seq(Bytes) /\ Answers' = Answers + 0
      /\ rpc' = "returned" /\ rc' = "error" /\ store_active' = FALSE
  BY <1>1, <1>2, ReturnAnswers, AckCounts, BytesPut
<1>4. /\ toRecv # <<>> /\ toRecv' = Tail(toRecv) /\ toRecv' \in Seq(Frames)
      /\ Head(toRecv).kind = "CAN"
  BY <1>1, <1>2, GotFrame
<1>5. Answers' = Answers
  BY <1>1, <1>3, Measures
<1>6. TransferTypes'
  BY <1>1, <1>2, <1>3, <1>4 DEF TransferTypes, sender, line
<1>7. RecvState'
  BY <1>1, <1>2, <1>3 DEF RecvState, LastSent, sender
<1> QED
  BY <1>2, <1>4, <1>5, <1>6, <1>7, RecvNothing

\* A frame that fails its checks is answered with NAK.
LEMMA JunkStep ==
  ASSUME TransferInv, RecvJunk
  PROVE  TransferInv'
<1>1. TransferTypes /\ RecvState /\ toSend \in Seq(Bytes)
  BY DEF TransferInv, TransferTypes
<1>2. Got("junk") /\ Put(<<"NAK">>) /\ UNCHANGED <<receiver, sender, line, trouble>>
  BY DEF RecvJunk
<1>3. toSend' \in Seq(Bytes) /\ Answers' = Answers + 0
  BY <1>1, <1>2, PutAnswers, AckCounts, BytesPut
<1>4. /\ toRecv # <<>> /\ toRecv' = Tail(toRecv) /\ toRecv' \in Seq(Frames)
      /\ Head(toRecv).kind = "junk"
  BY <1>1, <1>2, GotFrame
<1>5. Answers' = Answers
  BY <1>1, <1>3, Measures
<1>6. TransferTypes'
  BY <1>1, <1>2, <1>3, <1>4 DEF TransferTypes, receiver, sender, line
<1>7. RecvState'
  BY <1>1, <1>2 DEF RecvState, LastSent, receiver, sender
<1>8. UNCHANGED <<eot_seen, stored, sender, line>> /\ (got_metadata => got_metadata')
  BY <1>2 DEF receiver
<1> QED
  BY <1>4, <1>5, <1>6, <1>7, <1>8, RecvNothing

\* The first EOT is answered with NAK, the others with ACK.
LEMMA EotStep ==
  ASSUME TransferInv, RecvEot
  PROVE  TransferInv'
<1>1. TransferTypes /\ RecvState /\ toSend \in Seq(Bytes)
  BY DEF TransferInv, TransferTypes
<1>2. /\ Got("EOT") /\ Put(EotAnswer) /\ eot_seen' = TRUE
      /\ UNCHANGED <<rpc, got_metadata, store_active, expected_size, expected_block, stored,
                     rc, sender, line, trouble>>
  BY DEF RecvEot
<1>3. /\ toSend' \in Seq(Bytes)
      /\ Answers' = Answers + IF eot_seen THEN 1 ELSE 0
  <2>1. CASE eot_seen
    <3>1. Put(<<"ACK", "C">>)
      BY <1>2, <2>1 DEF EotAnswer
    <3> QED
      BY <1>1, <2>1, <3>1, PutAnswers, AckCounts, BytesPut
  <2>2. CASE ~eot_seen
    <3>1. Put(<<"NAK">>)
      BY <1>2, <2>2 DEF EotAnswer
    <3> QED
      BY <1>1, <2>2, <3>1, PutAnswers, AckCounts, BytesPut
  <2> QED
    BY <2>1, <2>2
<1>4. /\ toRecv # <<>> /\ toRecv' = Tail(toRecv) /\ toRecv' \in Seq(Frames)
      /\ Head(toRecv) = Eot /\ Head(toRecv).kind = "EOT"
  BY <1>1, <1>2, GotFrame, HeadKind
<1>5. TransferTypes'
  BY <1>1, <1>2, <1>3, <1>4 DEF TransferTypes, sender, line
<1>6. RecvState'
  BY <1>1, <1>2 DEF RecvState, LastSent, sender
<1>7. Answers' + Received <= Answers + Received' + IF Head(toRecv) = Eot /\ eot_seen THEN 1 ELSE 0
  <2> DEFINE k  == IF Head(toRecv) = Eot /\ eot_seen THEN 1 ELSE 0
             x2 == Answers'
  <2>1. k \in {0, 1} /\ x2 = Answers + k /\ Answers \in Nat /\ Received \in Nat
    BY <1>1, <1>3, <1>4, Measures
  <2>2. Received' = Received
    BY <1>2 DEF Received, HasMetadata
  <2> HIDE DEF k, x2
  <2>3. x2 + Received <= Answers + Received + k
    BY <2>1
  <2> QED
    BY <2>2, <2>3 DEF k, x2
<1>8. ReadsFrame
  <2>1. Len(stored') = Len(stored) /\ Len(stored) \in Nat /\ Len(stored) # Len(stored) + 1
    BY <1>1, <1>2, Measures
  <2> QED
    BY <1>2, <1>4, <1>7, <2>1 DEF ReadsFrame
<1> QED
  BY <1>5, <1>6, <1>8, ReadStep

\* Whether a packet is the block after the last one stored.
LEMMA SentWithinFile == TransferTypes /\ SendState => LastSent <= size
<1> SUFFICES ASSUME TransferTypes, SendState PROVE LastSent <= size
  OBVIOUS
<1>1. size \in Nat /\ sent \in Nat /\ sent <= size
  BY YmodemAssumption DEF TransferTypes
<1>2. spc = "data_ack" => sent < size
  BY DEF SendState
<1> QED
  BY <1>1, <1>2 DEF LastSent

\* What the packet at the head of the line is.
LEMMA HeadPacket ==
  ASSUME TransferInv, Got("packet")
  PROVE  /\ Head(toRecv) \in Frames /\ Head(toRecv).no \in Nat /\ Head(toRecv).what \in Nat
         /\ Head(toRecv) # Eot
         /\ \/ IsBlock(Head(toRecv), HasMetadata, Len(stored), LastSent)
            \/ IsFinal(Head(toRecv), MayEnd)
            \/ HasMetadata = 0 /\ Head(toRecv).no = 0 /\ Head(toRecv).sizes = {size}
<1>1. TransferTypes /\ PacketsOnLine /\ toRecv \in Seq(Frames)
  BY DEF TransferInv, TransferTypes
<1>2. /\ toRecv # <<>> /\ Head(toRecv) = toRecv[1] /\ Head(toRecv) \in Frames
      /\ Head(toRecv).kind = "packet"
  BY <1>1, GotFrame
<1>3. 1 \in 1 .. Len(toRecv)
  BY <1>1, <1>2
<1>4. \/ IsBlock(toRecv[1], HasMetadata, Len(stored), LastSent)
      \/ IsFinal(toRecv[1], MayEnd)
      \/ IsMetadata(toRecv[1], 1, HasMetadata, size)
  BY <1>1, <1>2, <1>3 DEF PacketsOnLine, OnLine
<1> QED
  BY <1>2, <1>4, HeadKind DEF IsMetadata, Eot, Stray

\* The metadata or a data block is answered with ACK, and is one more thing received.
LEMMA RecvOne ==
  ASSUME TransferInv, TransferTypes', RecvState',
         UNCHANGED <<eot_seen, sender, line>>, got_metadata => got_metadata',
         toRecv # <<>>, toRecv' = Tail(toRecv), Head(toRecv) # Eot,
         Answers' = Answers + 1, Received' = Received + 1,
         Len(stored') \in {Len(stored), Len(stored) + 1},
         Len(stored') = Len(stored) + 1 =>
           got_metadata /\ Head(toRecv).kind = "packet" /\ Head(toRecv).what = Len(stored) + 1
  PROVE  TransferInv'
<1>1. TransferTypes
  BY DEF TransferInv
<1>2. Answers \in Nat /\ Received \in Nat
  BY <1>1, Measures
<1>3. (Answers + 1) + Received <= Answers + (Received + 1) + 0
  BY <1>2
<1>4. Answers' + Received <= Answers + Received' + 0
  BY <1>3, Zenon
<1>5. ReadsFrame
  BY <1>4 DEF ReadsFrame
<1> QED
  BY <1>5, ReadStep

\* Before the metadata no block has number 0, so that it is taken for what it is.
LEMMA MetadataStep ==
  ASSUME TransferInv, RecvMetadata
  PROVE  TransferInv'
<1> DEFINE packet == Head(toRecv)
<1>1. TransferTypes /\ RecvState /\ toSend \in Seq(Bytes)
  BY DEF TransferInv, TransferTypes
<1>2. /\ ~got_metadata /\ Got("packet")
      /\ UNCHANGED <<eot_seen, expected_block, stored, sender, line>>
  BY DEF RecvMetadata
<1>3. /\ toRecv # <<>> /\ toRecv' = Tail(toRecv) /\ toRecv' \in Seq(Frames)
      /\ packet.kind = "packet" /\ packet.no \in Nat /\ packet.what \in Nat
      /\ rpc = "header" /\ packet # Eot
  BY <1>1, <1>2, GotFrame, HeadPacket
<1>4. /\ HasMetadata = 0 /\ Len(stored) = 0 /\ expected_size = 0
      /\ rc = "ok" => size = 0
  <2>1. expected_size = 0 /\ Len(stored) <= expected_size
    BY <1>1, <1>2 DEF RecvState
  <2>2. Len(stored) \in Nat
    BY <1>1, Measures
  <2> QED
    BY <1>1, <1>2, <2>1, <2>2 DEF RecvState, HasMetadata
<1>5. CASE packet.no # 0 /\ Put(<<"NAK">>)
           /\ UNCHANGED <<rpc, got_metadata, store_active, expected_size, rc, trouble>>
  <2>1. toSend' \in Seq(Bytes) /\ Answers' = Answers + 0
    BY <1>1, <1>5, PutAnswers, AckCounts, BytesPut
  <2>2. Answers' = Answers
    BY <1>1, <2>1, Measures
  <2>3. TransferTypes'
    BY <1>1, <1>2, <1>3, <1>5, <2>1 DEF TransferTypes, sender, line
  <2>4. RecvState'
    BY <1>1, <1>2, <1>5 DEF RecvState, LastSent, sender
  <2> QED
    BY <1>2, <1>3, <1>5, <2>2, <2>3, <2>4, RecvNothing
<1>6. CASE packet.no = 0 /\ 0 \in packet.sizes /\ Fail(<<"NAK">>)
           /\ got_metadata' = TRUE /\ UNCHANGED expected_size
  <2>1. Return("error", <<"NAK">>) /\ trouble' = TRUE
    BY <1>6 DEF Fail
  <2>2. /\ toSend' \in Seq(Bytes) /\ Answers' = Answers + 0
        /\ rpc' = "returned" /\ rc' = "error" /\ store_active' = FALSE
    BY <1>1, <2>1, ReturnAnswers, AckCounts, BytesPut
  <2>3. Answers' = Answers
    BY <1>1, <2>2, Measures
  <2>4. TransferTypes'
    BY <1>1, <1>2, <1>3, <1>6, <2>1, <2>2 DEF TransferTypes, sender, line
  <2>5. RecvState'
    BY <1>1, <1>2, <1>6, <2>2 DEF RecvState, LastSent, sender
  <2> QED
    BY <1>2, <1>3, <2>3, <2>4, <2>5, RecvNothing
<1>7. CASE packet.no = 0 /\ expected_size' \in packet.sizes \ {0} /\ Put(<<"ACK", "C">>)
           /\ got_metadata' = TRUE /\ rpc' = "begin"
           /\ UNCHANGED <<store_active, rc, trouble>>
  <2>1. expected_size' = size
    <3>1. ~IsBlock(packet, HasMetadata, Len(stored), LastSent)
      <4> SUFFICES ASSUME IsBlock(packet, HasMetadata, Len(stored), LastSent) PROVE FALSE
        OBVIOUS
      <4> DEFINE w == packet.what
      <4>1. w \in Nat /\ w # 0 /\ w <= Ahead /\ w % BlockMod = 0
        BY <1>3, <1>4, <1>7, AheadType DEF IsBlock
      <4>2. w < BlockMod /\ BlockMod \in Nat \ {0}
        BY <4>1, AheadBound, AheadType, YmodemAssumption
      <4> HIDE DEF w
      <4> QED
        BY <4>1, <4>2
    <3>2. ~IsFinal(packet, MayEnd)
      BY <1>7 DEF IsFinal
    <3>3. packet.sizes = {size}
      BY <1>2, <3>1, <3>2, HeadPacket
    <3> QED
      BY <1>7, <3>3
  <2>2. toSend' \in Seq(Bytes) /\ Answers' = Answers + 1
    BY <1>1, <1>7, PutAnswers, AckCounts, BytesPut
  <2>3. TransferTypes'
    BY <1>1, <1>2, <1>3, <1>7, <2>2 DEF TransferTypes, sender, line
  <2>4. RecvState'
    <3>1. size \in Nat
      BY <1>1, Measures
    <3>2. Len(stored) <= size
      BY <1>4, <3>1
    <3> QED
      BY <1>1, <1>2, <1>7, <2>1, <3>2 DEF RecvState, LastSent, sender
  <2>5. Received' = Received + 1
    BY <1>2, <1>4, <1>7 DEF Received, HasMetadata
  <2>6. Len(stored') \in {Len(stored), Len(stored) + 1} /\ Len(stored') # Len(stored) + 1
    BY <1>2, <1>4
  <2> QED
    BY <1>2, <1>3, <2>2, <2>3, <2>4, <2>5, <2>6, RecvOne
<1> QED
  BY <1>5, <1>6, <1>7 DEF RecvMetadata

\* The final packet ends the transfer; a block cannot, if the image is complete.
LEMMA EndStep ==
  ASSUME TransferInv, RecvEnd
  PROVE  TransferInv'
<1>1. TransferTypes /\ RecvState /\ SendState /\ toSend \in Seq(Bytes)
  BY DEF TransferInv, TransferTypes
<1>2. /\ got_metadata /\ eot_seen /\ Got("packet")
      /\ UNCHANGED <<got_metadata, eot_seen, expected_size, expected_block, stored, sender,
                     line>>
  BY DEF RecvEnd
<1>3. /\ toRecv # <<>> /\ toRecv' = Tail(toRecv) /\ toRecv' \in Seq(Frames)
      /\ rpc = "header" /\ Head(toRecv) # Eot /\ Head(toRecv).kind = "packet"
  BY <1>1, <1>2, GotFrame, HeadPacket
<1>4. Len(stored) \in Nat /\ LastSent <= size /\ size \in Nat /\ LastSent \in Nat
  BY <1>1, Measures, SentWithinFile
<1>5. CASE Finishable /\ Return("ok", <<"ACK">>) /\ UNCHANGED trouble
  <2>1. /\ toSend' \in Seq(Bytes)
        /\ rpc' = "returned" /\ rc' = "ok" /\ store_active' = FALSE
    BY <1>1, <1>5, ReturnAnswers, BytesPut
  <2>2. Len(stored) = size
    BY <1>1, <1>2, <1>3, <1>5 DEF RecvState, Finishable
  <2>3. TransferTypes'
    BY <1>1, <1>2, <1>3, <1>5, <2>1 DEF TransferTypes, sender, line
  <2>4. RecvState'
    BY <1>1, <1>2, <2>1, <2>2 DEF RecvState, LastSent, sender
  <2>5. MayEnd = 1
    <3> DEFINE w == Head(toRecv).what
    <3>1. ~IsBlock(Head(toRecv), HasMetadata, Len(stored), LastSent)
      <4> SUFFICES ASSUME w \in Len(stored) + 1 .. LastSent PROVE FALSE
        BY DEF IsBlock
      <4> HIDE DEF w
      <4> QED
        BY <1>4, <2>2
    <3>2. HasMetadata # 0
      BY <1>2 DEF HasMetadata
    <3>3. IsFinal(Head(toRecv), MayEnd)
      BY <1>2, <3>1, <3>2, HeadPacket
    <3> QED
      BY <3>3 DEF IsFinal
  <2>6. eot_seen /\ spc \notin Sending
    BY <2>5 DEF MayEnd
  <2>7. Len(stored') = Len(stored) /\ Len(stored) # Len(stored) + 1
    BY <1>2, <1>4
  <2>8. ReadsFrame
    BY <1>2, <1>3, <2>6, <2>7 DEF ReadsFrame
  <2> QED
    BY <2>3, <2>4, <2>8, ReadStep
<1>6. CASE Fail(<<"CAN">>)
  <2>1. Return("error", <<"CAN">>) /\ trouble' = TRUE
    BY <1>6 DEF Fail
  <2>2. /\ toSend' \in Seq(Bytes) /\ Answers' = Answers + 0
        /\ rpc' = "returned" /\ rc' = "error" /\ store_active' = FALSE
    BY <1>1, <2>1, ReturnAnswers, AckCounts, BytesPut
  <2>3. Answers' = Answers
    BY <1>1, <2>2, Measures
  <2>4. TransferTypes'
    BY <1>1, <1>2, <1>3, <2>1, <2>2 DEF TransferTypes, sender, line
  <2>5. RecvState'
    BY <1>1, <1>2, <2>2 DEF RecvState, LastSent, sender
  <2> QED
    BY <1>2, <1>3, <2>3, <2>4, <2>5, RecvNothing
<1> QED
  BY <1>5, <1>6 DEF RecvEnd

\* The number of a packet that is taken is that of the next block, and the packet is it.
LEMMA TakenIsNext ==
  ASSUME TransferInv, Got("packet"), got_metadata,
         ~(eot_seen /\ Head(toRecv).no = 0), IsExpected(Head(toRecv))
  PROVE  /\ Head(toRecv).what = Len(stored) + 1 /\ Len(stored) + 1 <= LastSent
         /\ Len(stored) + 1 <= size
<1> DEFINE w == Head(toRecv).what
           no == Head(toRecv).no
<1>1. TransferTypes /\ RecvState /\ SendState
  BY DEF TransferInv
<1>2. Len(stored) \in Nat /\ LastSent <= size /\ size \in Nat /\ LastSent \in Nat
  BY <1>1, Measures, SentWithinFile
<1>3. HasMetadata = 1
  BY DEF HasMetadata
<1>4. IsBlock(Head(toRecv), 1, Len(stored), LastSent)
  <2>1. ~IsFinal(Head(toRecv), MayEnd)
    BY DEF IsFinal, MayEnd
  <2> QED
    BY <1>3, <2>1, HeadPacket
<1>5. /\ w \in Len(stored) + 1 .. LastSent /\ w <= Len(stored) + 1 + Ahead
      /\ w % BlockMod = (Len(stored) + 1) % BlockMod
  BY <1>1, <1>4 DEF IsBlock, IsExpected, RecvState
<1> HIDE DEF w
<1>6. w \in Nat /\ Len(stored) + 1 \in Nat /\ Len(stored) + 1 <= w
      /\ w < Len(stored) + 1 + BlockMod
  BY <1>2, <1>5, AheadBound, AheadType, YmodemAssumption
<1>7. w = Len(stored) + 1
  BY <1>5, <1>6, SameNumber
<1> QED
  BY <1>2, <1>5, <1>7 DEF w

\* A data block is taken only in its turn.
LEMMA DataStep ==
  ASSUME TransferInv, RecvData
  PROVE  TransferInv'
<1> DEFINE packet == Head(toRecv)
<1>1. TransferTypes /\ RecvState /\ SendState /\ toSend \in Seq(Bytes)
  BY DEF TransferInv, TransferTypes
<1>2. /\ got_metadata /\ Got("packet") /\ ~(eot_seen /\ packet.no = 0)
      /\ UNCHANGED <<got_metadata, eot_seen, expected_size, sender, line>>
  BY DEF RecvData
<1>3. /\ toRecv # <<>> /\ toRecv' = Tail(toRecv) /\ toRecv' \in Seq(Frames)
      /\ rpc = "header" /\ packet # Eot /\ packet.kind = "packet" /\ packet.what \in Nat
  BY <1>1, <1>2, GotFrame, HeadPacket
<1>4. CASE Put(<<"NAK">>) /\ UNCHANGED <<rpc, store_active, rc, expected_block, stored, trouble>>
  <2>1. toSend' \in Seq(Bytes) /\ Answers' = Answers + 0
    BY <1>1, <1>4, PutAnswers, AckCounts, BytesPut
  <2>2. Answers' = Answers
    BY <1>1, <2>1, Measures
  <2>3. TransferTypes'
    BY <1>1, <1>2, <1>3, <1>4, <2>1 DEF TransferTypes, sender, line
  <2>4. RecvState'
    BY <1>1, <1>2, <1>4 DEF RecvState, LastSent, sender
  <2> QED
    BY <1>2, <1>3, <1>4, <2>2, <2>3, <2>4, RecvNothing
<1>5. CASE /\ IsExpected(packet)
           /\ stored' = Taken(packet) /\ expected_block' = NextNo(expected_block)
           /\ Put(<<"ACK">>)
           /\ UNCHANGED <<rpc, store_active, rc, trouble>>
  <2>1. packet.what = Len(stored) + 1 /\ Len(stored) + 1 <= LastSent /\ Len(stored) + 1 <= size
    BY <1>2, <1>5, TakenIsNext
  <2>2. expected_size = size /\ Len(stored) \in Nat /\ size \in Nat /\ stored \in Seq(Nat)
    BY <1>1, <1>2, <1>3, Measures DEF RecvState, TransferTypes
  <2>3. stored' = Append(stored, Len(stored) + 1)
    <3>1. Len(stored) < size
      BY <2>1, <2>2
    <3> QED
      BY <1>5, <2>1, <2>2, <3>1 DEF Taken
  <2>4. /\ stored' \in Seq(Nat) /\ Len(stored') = Len(stored) + 1
        /\ \A k \in 1 .. Len(stored) + 1 :
             stored'[k] = IF k = Len(stored) + 1 THEN Len(stored) + 1 ELSE stored[k]
    BY <2>2, <2>3, AppendProperties
  <2>5. toSend' \in Seq(Bytes) /\ Answers' = Answers + 1
    BY <1>1, <1>5, PutAnswers, AckCounts, BytesPut
  <2>6. TransferTypes'
    BY <1>1, <1>2, <1>3, <1>5, <2>4, <2>5 DEF TransferTypes, sender, line
  <2>7. RecvState'
    <3>1. \A k \in 1 .. Len(stored') : stored'[k] = k
      <4> SUFFICES ASSUME NEW k \in 1 .. Len(stored) + 1 PROVE stored'[k] = k
        BY <2>4
      <4>1. CASE k = Len(stored) + 1
        BY <2>4, <4>1
      <4>2. CASE k # Len(stored) + 1
        <5>1. k \in 1 .. Len(stored)
          BY <2>2, <4>2
        <5> QED
          BY <1>1, <2>4, <4>2, <5>1 DEF RecvState
      <4> QED
        BY <4>1, <4>2
    <3>2. LastSent' = LastSent
      BY <1>2 DEF LastSent, sender
    <3>3. expected_block' = (Len(stored') + 1) % BlockMod
      <4>1. expected_block = (Len(stored) + 1) % BlockMod /\ Len(stored) + 1 \in Nat
        BY <1>1, <2>2 DEF RecvState
      <4>2. NextNo((Len(stored) + 1) % BlockMod) = (Len(stored) + 1 + 1) % BlockMod
        BY <4>1, NextNumber
      <4> QED
        BY <1>5, <2>4, <4>1, <4>2
    <3>4. Len(stored') <= expected_size' /\ Len(stored') <= LastSent'
      BY <1>2, <2>1, <2>2, <2>4, <3>2
    <3>5. rc' = "ok" => FALSE
      <4>1. rc = "ok" => Len(stored) = size
        BY <1>1 DEF RecvState
      <4> QED
        BY <1>5, <2>1, <2>2, <4>1
    <3>6. /\ expected_size' \in {0, size'} /\ (~got_metadata' => expected_size' = 0)
          /\ got_metadata' /\ rpc' # "returned" => expected_size' = size'
      BY <1>2, <2>2 DEF sender
    <3> HIDE DEF packet
    <3> QED
      BY <3>1, <3>3, <3>4, <3>5, <3>6 DEF RecvState
  <2>8. Received' = Received + 1
    <3>1. HasMetadata = 1 /\ HasMetadata' = 1
      BY <1>2 DEF HasMetadata
    <3> QED
      BY <2>2, <2>4, <3>1 DEF Received
  <2> QED
    BY <1>2, <1>3, <2>1, <2>4, <2>5, <2>6, <2>7, <2>8, RecvOne
<1>6. CASE Fail(<<"CAN">>) /\ UNCHANGED <<expected_block, stored>>
  <2>1. Return("error", <<"CAN">>) /\ trouble' = TRUE
    BY <1>6 DEF Fail
  <2>2. /\ toSend' \in Seq(Bytes) /\ Answers' = Answers + 0
        /\ rpc' = "returned" /\ rc' = "error" /\ store_active' = FALSE
    BY <1>1, <2>1, ReturnAnswers, AckCounts, BytesPut
  <2>3. Answers' = Answers
    BY <1>1, <2>2, Measures
  <2>4. TransferTypes'
    BY <1>1, <1>2, <1>3, <1>6, <2>1, <2>2 DEF TransferTypes, sender, line
  <2>5. RecvState'
    BY <1>1, <1>2, <1>6, <2>2 DEF RecvState, LastSent, sender
  <2> QED
    BY <1>2, <1>3, <1>6, <2>3, <2>4, <2>5, RecvNothing
<1> QED
  BY <1>4, <1>5, <1>6 DEF RecvData

-----------------------------------------------------------------------------
(***************************************************************************)
(* The line, and the receiver between two frames.                          *)
(***************************************************************************)

\* The receiver's steps that leave the line toRecv alone.
LEMMA QuietStep ==
  ASSUME TransferInv, TransferTypes', RecvState',
         UNCHANGED <<toRecv, got_metadata, eot_seen, stored, sender, line>>,
         Answers' = Answers
  PROVE  TransferInv'
<1>1. TransferTypes /\ PacketsOnLine
  BY DEF TransferInv
<1>2. Eots' = Eots /\ StrayBytes' = StrayBytes
  BY DEF Eots, StrayBytes, line
<1>3. Answers \in Nat /\ Eots \in Nat /\ StrayBytes \in Nat
  BY <1>1, Measures
<1>4. Answers <= Answers /\ Eots + StrayBytes <= Eots + StrayBytes
  BY <1>3
<1>5. Answers' <= Answers /\ Eots' + StrayBytes <= Eots + StrayBytes'
  BY <1>2, <1>4, Zenon
<1>6. ReadsNothing
  BY <1>1, <1>5 DEF ReadsNothing, PacketsOnLine
<1> QED
  BY <1>6, IdleStep

\* The receiver gives up when no byte comes (ymodem_wait_header).
LEMMA TimeoutStep ==
  ASSUME TransferInv, RecvTimeout
  PROVE  TransferInv'
<1>1. TransferTypes /\ RecvState /\ toSend \in Seq(Bytes)
  BY DEF TransferInv, TransferTypes
<1>2. /\ Return("error", <<>>) /\ trouble' = TRUE
      /\ UNCHANGED <<toRecv, got_metadata, eot_seen, expected_size, expected_block, stored,
                     sender, line>>
  BY DEF RecvTimeout, Fail
<1>3. /\ toSend' \in Seq(Bytes) /\ Answers' = Answers + 0
      /\ rpc' = "returned" /\ rc' = "error" /\ store_active' = FALSE
  BY <1>1, <1>2, ReturnAnswers, AckCounts, BytesPut
<1>4. Answers' = Answers
  BY <1>1, <1>3, Measures
<1>5. TransferTypes'
  BY <1>1, <1>2, <1>3 DEF TransferTypes, sender, line
<1>6. RecvState'
  BY <1>1, <1>2, <1>3 DEF RecvState, LastSent, sender
<1> QED
  BY <1>2, <1>4, <1>5, <1>6, QuietStep

\* rtbus_image_store_begin succeeds or ends the transfer.
LEMMA BeginStep ==
  ASSUME TransferInv, RecvBegin
  PROVE  TransferInv'
<1>1. TransferTypes /\ RecvState /\ toSend \in Seq(Bytes)
  BY DEF TransferInv, TransferTypes
<1>2. /\ rpc = "begin"
      /\ UNCHANGED <<toRecv, got_metadata, eot_seen, expected_size, expected_block, stored,
                     sender, line>>
  BY DEF RecvBegin
<1>3. CASE rpc' = "header" /\ store_active' = TRUE /\ UNCHANGED <<toSend, rc, trouble>>
  <2>1. Answers' = Answers
    BY <1>3 DEF Answers
  <2>2. TransferTypes'
    BY <1>1, <1>2, <1>3 DEF TransferTypes, sender, line
  <2>3. RecvState'
    BY <1>1, <1>2, <1>3 DEF RecvState, LastSent, sender
  <2> QED
    BY <1>2, <2>1, <2>2, <2>3, QuietStep
<1>4. CASE Fail(<<"CAN">>)
  <2>1. Return("error", <<"CAN">>) /\ trouble' = TRUE
    BY <1>4 DEF Fail
  <2>2. /\ toSend' \in Seq(Bytes) /\ Answers' = Answers + 0
        /\ rpc' = "returned" /\ rc' = "error" /\ store_active' = FALSE
    BY <1>1, <2>1, ReturnAnswers, AckCounts, BytesPut
  <2>3. Answers' = Answers
    BY <1>1, <2>2, Measures
  <2>4. TransferTypes'
    BY <1>1, <1>2, <2>1, <2>2 DEF TransferTypes, sender, line
  <2>5. RecvState'
    BY <1>1, <1>2, <2>2 DEF RecvState, LastSent, sender
  <2> QED
    BY <1>2, <2>3, <2>4, <2>5, QuietStep
<1> QED
  BY <1>3, <1>4 DEF RecvBegin

\* Another 'C' while no metadata has come (ymodem_wait_header).
LEMMA AnnounceStep ==
  ASSUME TransferInv, RecvAnnounce
  PROVE  TransferInv'
<1>1. TransferTypes /\ RecvState /\ toSend \in Seq(Bytes)
  BY DEF TransferInv, TransferTypes
<1>2. Put(<<"C">>) /\ UNCHANGED <<toRecv, receiver, sender, line, trouble>>
  BY DEF RecvAnnounce
<1>3. toSend' \in Seq(Bytes) /\ Answers' = Answers + 0
  BY <1>1, <1>2, PutAnswers, AckCounts, BytesPut
<1>4. Answers' = Answers
  BY <1>1, <1>3, Measures
<1>5. TransferTypes'
  BY <1>1, <1>2, <1>3 DEF TransferTypes, receiver, sender, line
<1>6. RecvState'
  BY <1>1, <1>2 DEF RecvState, LastSent, receiver, sender
<1>7. UNCHANGED <<toRecv, got_metadata, eot_seen, stored, sender, line>>
  BY <1>2 DEF receiver
<1> QED
  BY <1>4, <1>5, <1>6, <1>7, QuietStep

\* On an empty line there is nothing to account for.
LEMMA EmptyLine ==
  /\ <<>> \in Seq(Frames) /\ Count(<<>>, Eot) = 0
  /\ \A m, n, last, seen, all : OnLine(<<>>, m, n, last, seen, all)
<1>1. Count(<<>>, Eot) = 0
  <2>1. {k \in 1 .. Len(<<>>) : <<>>[k] = Eot} = {}
    OBVIOUS
  <2> QED
    BY <2>1, FS_EmptySet DEF Count
<1>2. <<>> \in Seq(Frames) /\ 1 .. Len(<<>>) = {}
  OBVIOUS
<1> QED
  BY <1>1, <1>2 DEF OnLine

\* rtbus_runtime_serial_begin drops what was sent before it.
LEMMA StartStep ==
  ASSUME TransferInv, RecvStart
  PROVE  TransferInv'
<1>1. TransferTypes /\ RecvState /\ toSend \in Seq(Bytes)
  BY DEF TransferInv, TransferTypes
<1>2. /\ rpc = "start"
      /\ UNCHANGED <<got_metadata, eot_seen, expected_size, expected_block, stored, sender,
                     line>>
  BY DEF RecvStart
<1>3. CASE rpc' = "header" /\ toRecv' = <<>> /\ UNCHANGED <<toSend, store_active, rc, trouble>>
  <2>1. TransferTypes'
    BY <1>1, <1>2, <1>3, EmptyLine DEF TransferTypes, sender, line
  <2>2. RecvState'
    <3>1. got_metadata => expected_size = size
      BY <1>1, <1>2 DEF RecvState
    <3> QED
      BY <1>1, <1>2, <1>3, <3>1 DEF RecvState, LastSent, sender
  <2>3. ReadsNothing
    <3>1. Answers' = Answers /\ Eots' = 0 /\ StrayBytes' = StrayBytes
      BY <1>2, <1>3, EmptyLine DEF Answers, Eots, StrayBytes, line
    <3>2. Answers \in Nat /\ Eots \in Nat /\ StrayBytes \in Nat
      BY <1>1, Measures
    <3>3. Answers <= Answers /\ 0 + StrayBytes <= Eots + StrayBytes
      BY <3>2
    <3>4. Answers' <= Answers /\ Eots' + StrayBytes <= Eots + StrayBytes'
      BY <3>1, <3>3, Zenon
    <3> QED
      BY <1>2, <1>3, <3>4, EmptyLine DEF ReadsNothing
  <2> QED
    BY <2>1, <2>2, <2>3, IdleStep
<1>4. CASE Fail(<<>>) /\ UNCHANGED toRecv
  <2>1. Return("error", <<>>) /\ trouble' = TRUE
    BY <1>4 DEF Fail
  <2>2. /\ toSend' \in Seq(Bytes) /\ Answers' = Answers + 0
        /\ rpc' = "returned" /\ rc' = "error" /\ store_active' = FALSE
    BY <1>1, <2>1, ReturnAnswers, AckCounts, BytesPut
  <2>3. Answers' = Answers
    BY <1>1, <2>2, Measures
  <2>4. TransferTypes'
    BY <1>1, <1>2, <1>4, <2>1, <2>2 DEF TransferTypes, sender, line
  <2>5. RecvState'
    BY <1>1, <1>2, <2>2 DEF RecvState, LastSent, sender
  <2> QED
    BY <1>2, <1>4, <2>3, <2>4, <2>5, QuietStep
<1> QED
  BY <1>3, <1>4 DEF RecvStart

\* The bytes that are left of a frame are on the line, and some may look like EOT.
LEMMA RunCount ==
  ASSUME NEW run \in StrayRuns
  PROVE  run \in Seq(Strays) /\ run \in Seq(Frames) /\ EotsIn(run) \in Nat
<1>1. PICK k \in 0 .. MaxStrays : run \in [1 .. k -> Strays]
  BY DEF StrayRuns
<1>2. run \in Seq(Strays) /\ run \in Seq(Frames)
  BY <1>1, YmodemAssumption DEF Frames
<1> QED
  BY <1>2, CountType DEF EotsIn, Count

\* The EOTs among the bytes that are left of a frame are counted as false ones.
LEMMA DamageStep ==
  ASSUME TransferInv, DamageFrame
  PROVE  TransferInv'
<1>1. TransferTypes /\ RecvState /\ PacketsOnLine /\ toRecv \in Seq(Frames)
  BY DEF TransferInv, TransferTypes
<1>2. /\ faults < MaxFaults /\ faults' = faults + 1 /\ trouble' = TRUE /\ toRecv # <<>>
      /\ UNCHANGED <<toSend, receiver, sender>>
  BY DEF DamageFrame, Fault
<1>3. /\ Tail(toRecv) \in Seq(Frames) /\ Count(Tail(toRecv), Eot) \in Nat
      /\ Count(Tail(toRecv), Eot) <= Eots
  <2>1. Tail(toRecv) \in Seq(Frames)
    BY <1>1, <1>2, HeadTailProperties
  <2>2. Count(Tail(toRecv), Eot) \in Nat
    BY <2>1, CountType
  <2>3. Eots = Count(Tail(toRecv), Eot) + IF Head(toRecv) = Eot THEN 1 ELSE 0
    BY <1>1, <1>2, CountTail DEF Eots
  <2> QED
    BY <2>1, <2>2, <2>3
<1>4. /\ HasMetadata \in {0, 1} /\ Len(stored) \in Nat /\ LastSent \in Nat /\ MayEnd \in {0, 1}
      /\ Eots \in Nat /\ StrayBytes \in Nat /\ Answers \in Nat
  BY <1>1, Measures
<1>5. OnLine(toRecv, HasMetadata, Len(stored), LastSent, MayEnd, size)
  BY <1>1 DEF PacketsOnLine
<1>6. PICK n \in Nat :
        /\ toRecv' \in Seq(Frames) /\ false_eots' = false_eots + n
        /\ OnLine(toRecv', HasMetadata, Len(stored), LastSent, MayEnd, size)
        /\ Count(toRecv', Eot) \in Nat /\ Count(toRecv', Eot) <= n + Eots
  <2>1. CASE toRecv' = Tail(toRecv) /\ UNCHANGED false_eots
    <3>1. OnLine(Tail(toRecv), HasMetadata, Len(stored), LastSent, MayEnd, size)
      <4>1. Len(stored) # Len(stored) + 1
        BY <1>4
      <4> QED
        BY <1>1, <1>2, <1>4, <1>5, <4>1, LineTail
    <3>2. Count(Tail(toRecv), Eot) <= 0 + Eots /\ false_eots = false_eots + 0
      BY <1>3, <1>4 DEF StrayBytes
    <3> QED
      BY <1>3, <2>1, <3>1, <3>2
  <2>2. ASSUME NEW run \in StrayRuns, toRecv' = run \o Tail(toRecv),
               false_eots' = false_eots + EotsIn(run)
        PROVE  \E n \in Nat :
                 /\ toRecv' \in Seq(Frames) /\ false_eots' = false_eots + n
                 /\ OnLine(toRecv', HasMetadata, Len(stored), LastSent, MayEnd, size)
                 /\ Count(toRecv', Eot) \in Nat /\ Count(toRecv', Eot) <= n + Eots
    <3>2. run \in Seq(Strays) /\ run \in Seq(Frames)
      BY RunCount
    <3>3. /\ run \o Tail(toRecv) \in Seq(Frames)
          /\ OnLine(run \o Tail(toRecv), HasMetadata, Len(stored), LastSent, MayEnd, size)
      BY <1>1, <1>2, <1>4, <1>5, <3>2, LineDamage
    <3>4. Count(run \o Tail(toRecv), Eot) = Count(run, Eot) + Count(Tail(toRecv), Eot)
      BY <1>3, <3>2, CountConcat
    <3>5. Count(run, Eot) \in Nat /\ EotsIn(run) = Count(run, Eot)
      BY <3>2, CountType DEF EotsIn, Count
    <3>6. /\ Count(run \o Tail(toRecv), Eot) \in Nat
          /\ Count(run \o Tail(toRecv), Eot) <= Count(run, Eot) + Eots
      BY <1>3, <1>4, <3>4, <3>5
    <3> QED
      BY <2>2, <3>3, <3>5, <3>6
  <2> QED
    BY <2>1, <2>2 DEF DamageFrame
<1>7. TransferTypes'
  <2>1. faults' \in 0 .. MaxFaults
    BY <1>1, <1>2, YmodemAssumption DEF TransferTypes
  <2>2. false_eots' \in Nat
    BY <1>1, <1>6 DEF TransferTypes
  <2> QED
    BY <1>1, <1>2, <1>6, <2>1, <2>2 DEF TransferTypes, receiver, sender
<1>8. RecvState'
  BY <1>1, <1>2 DEF RecvState, LastSent, receiver, sender
<1>9. Answers' <= Answers /\ Eots' + StrayBytes <= Eots + StrayBytes'
  <2> DEFINE y2 == Count(toRecv', Eot)
             s2 == false_eots'
  <2>1. Answers' = Answers /\ Answers <= Answers
    BY <1>2, <1>4 DEF Answers
  <2>2. y2 \in Nat /\ y2 <= n + Eots /\ s2 = StrayBytes + n
    BY <1>6 DEF StrayBytes
  <2> HIDE DEF y2, s2
  <2>3. y2 + StrayBytes <= Eots + s2
    BY <1>4, <2>2
  <2> QED
    BY <2>1, <2>3 DEF Eots, StrayBytes, y2, s2
<1>10. ReadsNothing
  BY <1>2, <1>6, <1>9 DEF ReadsNothing, receiver, sender
<1> QED
  BY <1>7, <1>8, <1>10, IdleStep

\* An answer of the receiver is lost: nobody has more than before.
LEMMA LoseStep ==
  ASSUME TransferInv, LoseAnswer
  PROVE  TransferInv'
<1>1. TransferTypes /\ RecvState /\ PacketsOnLine /\ toSend \in Seq(Bytes)
  BY DEF TransferInv, TransferTypes
<1>2. /\ faults < MaxFaults /\ faults' = faults + 1 /\ trouble' = TRUE
      /\ toSend # <<>> /\ toSend' = Tail(toSend)
      /\ UNCHANGED <<toRecv, receiver, sender, false_eots>>
  BY DEF LoseAnswer, Fault
<1>3. StrayBytes \in Nat /\ Eots \in Nat
  BY <1>1, Measures
<1>4. Tail(toSend) \in Seq(Bytes) /\ Count(Tail(toSend), "ACK") <= Answers
  <2>1. Tail(toSend) \in Seq(Bytes)
    BY <1>1, <1>2, HeadTailProperties
  <2>2. Count(Tail(toSend), "ACK") \in Nat
    BY <2>1, CountType
  <2>3. Answers = Count(Tail(toSend), "ACK") + IF Head(toSend) = "ACK" THEN 1 ELSE 0
    BY <1>1, <1>2, CountTail DEF Answers
  <2> QED
    BY <2>1, <2>2, <2>3
<1>5. TransferTypes'
  <2>1. faults' \in 0 .. MaxFaults
    BY <1>1, <1>2, YmodemAssumption DEF TransferTypes
  <2> QED
    BY <1>1, <1>2, <1>4, <2>1 DEF TransferTypes, receiver, sender
<1>6. RecvState'
  BY <1>1, <1>2 DEF RecvState, LastSent, receiver, sender
<1>7. Answers' <= Answers /\ Eots' + StrayBytes <= Eots + StrayBytes'
  <2>1. /\ Eots' = Eots /\ StrayBytes' = StrayBytes
        /\ Answers' = Count(Tail(toSend), "ACK")
    BY <1>2 DEF Eots, StrayBytes, Answers
  <2>2. Eots + StrayBytes <= Eots + StrayBytes
    BY <1>3
  <2> QED
    BY <1>4, <2>1, <2>2, Zenon
<1>8. ReadsNothing
  BY <1>1, <1>2, <1>7 DEF ReadsNothing, PacketsOnLine, receiver
<1> QED
  BY <1>5, <1>6, <1>8, IdleStep

-----------------------------------------------------------------------------
(***************************************************************************)
(* The sender.                                                             *)
(***************************************************************************)

\* What SenderRead leaves alone, and how far it brings the sender.
SenderKeeps ==
  /\ UNCHANGED <<receiver, size, line, trouble>>
  /\ spc \in DOMAIN Awaited /\ toSend # <<>> /\ toSend' = Tail(toSend)

\* The sender puts a frame on the line.
LEMMA SendFrame ==
  ASSUME TransferTypes, PacketsOnLine, SenderKeeps, NEW f \in Frames, Send(f),
         LastSent' \in Nat, LastSent <= LastSent', spc' \in Sending => spc \in Sending,
         \/ f.kind # "packet"
         \/ IsBlock(f, HasMetadata, Len(stored), LastSent') /\ LastSent < f.what
         \/ IsFinal(f, MayEnd)
         \/ toRecv = <<>> /\ IsMetadata(f, 1, HasMetadata, size)
  PROVE  /\ toRecv' \in Seq(Frames) /\ (f # Eot => Eots' = Eots)
         /\ OnLine(toRecv', HasMetadata, Len(stored), LastSent', MayEnd', size)
<1>1. /\ HasMetadata \in {0, 1} /\ Len(stored) \in Nat /\ LastSent \in Nat /\ MayEnd \in {0, 1}
      /\ toRecv \in Seq(Frames) /\ toRecv' = Append(toRecv, f)
      /\ OnLine(toRecv, HasMetadata, Len(stored), LastSent, MayEnd, size)
  BY Measures DEF PacketsOnLine, TransferTypes, Send
<1>2. MayEnd' \in {0, 1} /\ MayEnd <= MayEnd'
  BY DEF MayEnd, SenderKeeps, receiver
<1>3. Append(toRecv, f) \in Seq(Frames)
  BY <1>1
<1>4. OnLine(toRecv, HasMetadata, Len(stored), LastSent, MayEnd', size)
  <2>1. LastSent <= LastSent
    BY <1>1
  <2> QED
    BY <1>1, <1>2, <2>1, LineLater
<1>5. OnLine(Append(toRecv, f), HasMetadata, Len(stored), LastSent', MayEnd', size)
  <2>1. IsFinal(f, MayEnd) => IsFinal(f, MayEnd')
    BY <1>1, <1>2 DEF IsFinal
  <2> QED
    BY <1>1, <1>2, <1>4, <2>1, LineAppend
<1>6. f # Eot => Eots' = Eots
  BY <1>1, AppendOther DEF Eots
<1> QED
  BY <1>1, <1>3, <1>5, <1>6

\* The sender puts nothing on it.
LEMMA SendNothing ==
  ASSUME TransferTypes, PacketsOnLine, SenderKeeps, UNCHANGED toRecv,
         LastSent' \in Nat, LastSent <= LastSent', spc' \in Sending => spc \in Sending
  PROVE  /\ toRecv' \in Seq(Frames) /\ Eots' = Eots
         /\ OnLine(toRecv', HasMetadata, Len(stored), LastSent', MayEnd', size)
<1>1. /\ HasMetadata \in {0, 1} /\ Len(stored) \in Nat /\ LastSent \in Nat /\ MayEnd \in {0, 1}
      /\ toRecv \in Seq(Frames)
      /\ OnLine(toRecv, HasMetadata, Len(stored), LastSent, MayEnd, size)
  BY Measures DEF PacketsOnLine, TransferTypes
<1>2. MayEnd' \in {0, 1} /\ MayEnd <= MayEnd'
  BY DEF MayEnd, SenderKeeps, receiver
<1>3. OnLine(toRecv, HasMetadata, Len(stored), LastSent', MayEnd', size)
  BY <1>1, <1>2, LineLater
<1> QED
  BY <1>1, <1>3 DEF Eots

\* How far the answers may bring the sender.
LEMMA AnswersAhead ==
  ASSUME TransferInv, false_eots <= BlockMod, spc \in Sending
  PROVE  Acked + Answers <= Received + Ahead
<1>1. TransferTypes /\ Honest /\ Budget
  BY DEF TransferInv
<1>2. /\ HasEot \in {0, 1} /\ Acked \in Nat /\ Received \in Nat
      /\ Answers \in Nat /\ Eots \in Nat /\ StrayBytes \in Nat
  BY <1>1, Measures
<1>3. CASE ~eot_seen
  <2>1. Acked + Answers <= Received
    BY <1>1, <1>3 DEF Honest
  <2> QED
    BY <1>2, <2>1, AheadType
<1>4. CASE eot_seen
  <2>1. Acked + Answers + Eots <= Received + StrayBytes - 1
    BY <1>1, <1>4 DEF Budget, HasEot
  <2>2. StrayBytes - 1 <= Ahead
    BY <1>2, YmodemAssumption DEF StrayBytes, Ahead
  <2> QED
    BY <1>2, <2>1, <2>2, AheadType
<1> QED
  BY <1>3, <1>4

\* The frames the sender makes.
LEMMA SentFrames ==
  /\ Eot \in Frames /\ Eot.kind # "packet"
  /\ \A no \in 0 .. BlockMod - 1, what \in Nat, sizes \in SUBSET (Sizes \cup {0}) :
       LET f == Packet(no, what, sizes) IN
       f \in Frames /\ f # Eot /\ f.no = no /\ f.what = what /\ f.sizes = sizes
<1>1. Eot \in Frames /\ Eot.kind = "EOT"
  BY DEF Eot, Frames, Strays, Stray
<1>2. ASSUME NEW no \in 0 .. BlockMod - 1, NEW what \in Nat,
             NEW sizes \in SUBSET (Sizes \cup {0})
      PROVE  LET f == Packet(no, what, sizes) IN
             /\ f \in Frames /\ f.kind = "packet"
             /\ f.no = no /\ f.what = what /\ f.sizes = sizes
  BY DEF Packet, Frames
<1> QED
  BY <1>1, <1>2

\* The next block, or the first EOT.
LEMMA NextBlockSent ==
  ASSUME TransferInv, SenderKeeps, NextBlock, UNCHANGED size,
         spc \in {"meta_crc", "data_ack"}, NEW next \in Nat, sent' = next, next <= size,
         LastSent = next, block_no' = (next + 1) % BlockMod,
         next + 1 <= Received + Ahead
  PROVE  /\ SendState' /\ LastSent <= LastSent' /\ toRecv' \in Seq(Frames)
         /\ OnLine(toRecv', HasMetadata, Len(stored), LastSent', MayEnd', size)
         /\ spc' \in {"data_ack", "eot_nak"} /\ (spc' = "data_ack" => Eots' = Eots)
<1>1. TransferTypes /\ RecvState /\ PacketsOnLine
  BY DEF TransferInv
<1>2. Len(stored) \in Nat /\ size \in Nat /\ Len(stored) <= next
  BY <1>1, Measures DEF RecvState
<1>3. CASE next < size
  <2>1. Send(Block(block_no', next + 1)) /\ spc' = "data_ack"
    BY <1>3 DEF NextBlock
  <2>2. LastSent' = next + 1 /\ next + 1 \in Nat /\ next <= next + 1 /\ next < next + 1
    BY <2>1 DEF LastSent
  <2>3. block_no' \in 0 .. BlockMod - 1
    BY <2>2, NextNumber
  <2> DEFINE f == Block(block_no', next + 1)
  <2>4. f \in Frames /\ f # Eot /\ f.no = (next + 1) % BlockMod /\ f.what = next + 1
    BY <2>2, <2>3, SentFrames DEF Block
  <2> HIDE DEF f
  <2>5. next + 1 \in Len(stored) + 1 .. next + 1
    BY <1>2
  <2>6. next + 1 <= Len(stored) + HasMetadata + Ahead
    BY DEF Received
  <2>7. IsBlock(f, HasMetadata, Len(stored), LastSent') /\ LastSent < f.what
    BY <2>2, <2>4, <2>5, <2>6 DEF IsBlock
  <2>8. LastSent' \in Nat /\ LastSent <= LastSent' /\ spc \in Sending /\ Send(f)
    BY <2>1, <2>2 DEF Sending, f
  <2>9. /\ toRecv' \in Seq(Frames) /\ Eots' = Eots
        /\ OnLine(toRecv', HasMetadata, Len(stored), LastSent', MayEnd', size)
    BY <1>1, <2>4, <2>7, <2>8, SendFrame
  <2>10. SendState'
    BY <1>3, <2>1 DEF SendState, Ending
  <2> QED
    BY <2>1, <2>8, <2>9, <2>10
<1>4. CASE ~(next < size)
  <2>1. Send(Eot) /\ spc' = "eot_nak"
    BY <1>4 DEF NextBlock
  <2>2. next = size
    BY <1>2, <1>4
  <2>3. LastSent' = next /\ next <= next
    BY <2>1, <2>2 DEF LastSent
  <2>4. LastSent' \in Nat /\ LastSent <= LastSent' /\ spc \in Sending
    BY <2>3 DEF Sending
  <2>5. /\ toRecv' \in Seq(Frames)
        /\ OnLine(toRecv', HasMetadata, Len(stored), LastSent', MayEnd', size)
    BY <1>1, <2>1, <2>4, SentFrames, SendFrame
  <2>6. SendState'
    BY <2>1, <2>2 DEF SendState, Ending
  <2> QED
    BY <2>1, <2>4, <2>5, <2>6
<1> QED
  BY <1>3, <1>4

\* A wait that ends without a frame sent.
LEMMA SenderMoves ==
  ASSUME TransferInv, SenderKeeps, UNCHANGED <<toRecv, sent, block_no>>,
         spc' \in {"meta_crc", "eot_crc", "final", "done", "failed"},
         spc' = "meta_crc" => spc = "meta_ack" /\ Head(toSend) = "ACK",
         spc' = "eot_crc" => spc = "eot_ack" /\ Head(toSend) = "ACK"
  PROVE  SenderReads
<1>1. TransferTypes /\ SendState /\ PacketsOnLine
  BY DEF TransferInv
<1>2. sent \in Nat /\ size \in Nat /\ sent <= size /\ LastSent <= size /\ LastSent \in Nat
      /\ Acked \in Nat
  BY <1>1, SentWithinFile, Measures, YmodemAssumption DEF TransferTypes
<1>3. size' = size /\ sent' = sent
  BY DEF SenderKeeps
<1>4. LastSent' \in Nat /\ LastSent <= LastSent'
  <2>1. CASE spc' = "meta_crc"
    <3>1. LastSent' = 0 /\ LastSent = 0
      BY <2>1 DEF LastSent
    <3> QED
      BY <3>1
  <2>2. CASE spc' # "meta_crc"
    <3>1. LastSent' = size
      BY <1>3, <2>2 DEF LastSent
    <3> QED
      BY <1>2, <3>1
  <2> QED
    BY <2>1, <2>2
<1>5. spc' \in Sending => spc \in Sending
  BY DEF Sending
<1>6. /\ toRecv' \in Seq(Frames) /\ Eots' = Eots
      /\ OnLine(toRecv', HasMetadata, Len(stored), LastSent', MayEnd', size)
  BY <1>1, <1>4, <1>5, SendNothing
<1>7. SendState'
  BY <1>1, <1>3 DEF SendState, Sending, Ending
<1>8. Acked' <= Acked + IF Head(toSend) = "ACK" THEN 1 ELSE 0
  <2>1. CASE spc' = "meta_crc"
    <3>1. sent = 0
      BY <1>1, <2>1 DEF SendState
    <3>2. Acked' = 0 + 1 /\ Acked = 0 /\ Head(toSend) = "ACK"
      BY <1>3, <2>1, <3>1 DEF Acked
    <3> QED
      BY <3>2
  <2>2. CASE spc' = "eot_crc"
    <3>1. Acked' = sent + 2 /\ Acked = sent + 1 /\ Head(toSend) = "ACK"
      BY <1>3, <2>2 DEF Acked
    <3> QED
      BY <1>2, <3>1
  <2>3. CASE spc' \notin {"meta_crc", "eot_crc"}
    <3>1. Acked' = 0
      BY <2>3 DEF Acked
    <3> QED
      BY <1>2, <3>1
  <2> QED
    BY <2>1, <2>2, <2>3
<1> QED
  BY <1>1, <1>3, <1>4, <1>5, <1>6, <1>7, <1>8
     DEF SenderReads, SenderKeeps, TransferTypes, Awaited, Ended

\* The byte the sender waits for.
LEMMA AdvanceReads ==
  ASSUME TransferInv, false_eots <= BlockMod, SenderKeeps,
         Head(toSend) = Awaited[spc], Advance
  PROVE  SenderReads
<1>1. TransferTypes /\ RecvState /\ SendState /\ PacketsOnLine /\ Honest
  BY DEF TransferInv
<1>2. /\ sent \in Nat /\ size \in Nat /\ sent \in 0 .. size /\ sent <= size
      /\ LastSent <= size /\ LastSent \in Nat /\ Acked \in Nat /\ Received \in Nat
      /\ Answers \in Nat /\ HasMetadata \in {0, 1} /\ Len(stored) \in Nat
  BY <1>1, SentWithinFile, Measures, YmodemAssumption DEF TransferTypes
<1>3. size' = size /\ UNCHANGED <<receiver, size, line, trouble>>
      /\ toSend # <<>> /\ toSend' = Tail(toSend)
  BY DEF SenderKeeps
<1>4. Acked <= Acked + IF Head(toSend) = "ACK" THEN 1 ELSE 0
  BY <1>2
<1>0. 0 \in 0 .. BlockMod - 1 /\ size \in Sizes
  BY <1>1, YmodemAssumption DEF TransferTypes
<1>5. CASE /\ spc = "ready" /\ Send(Metadata) /\ spc' = "meta_ack"
           /\ UNCHANGED <<sent, block_no>>
  <2> DEFINE f == Metadata
  <2>1. toRecv = <<>> /\ HasMetadata = 0 /\ sent = 0
    BY <1>1, <1>5 DEF SendState, HasMetadata
  <2>2. f \in Frames /\ f # Eot /\ f.no = 0 /\ f.what = 0 /\ f.sizes = {size}
    BY <1>0, SentFrames DEF Metadata
  <2>3. LastSent = 0 /\ LastSent' = 0 /\ Acked = 0 /\ Acked' = 0
    BY <1>5 DEF LastSent, Acked
  <2>4. LastSent' \in Nat /\ LastSent <= LastSent' /\ spc \in Sending
    BY <1>5, <2>3 DEF Sending
  <2>5. IsMetadata(f, 1, HasMetadata, size) /\ Send(f)
    BY <1>5, <2>1, <2>2 DEF IsMetadata
  <2> HIDE DEF f
  <2>6. /\ toRecv' \in Seq(Frames) /\ Eots' = Eots
        /\ OnLine(toRecv', HasMetadata, Len(stored), LastSent', MayEnd', size)
    BY <1>1, <2>1, <2>2, <2>4, <2>5, SendFrame
  <2>7. SendState'
    BY <1>1, <1>5, <2>1 DEF SendState, Ending
  <2>8. Acked' <= Acked + IF Head(toSend) = "ACK" THEN 1 ELSE 0
    BY <1>4, <2>3
  <2>9. spc' \in DOMAIN Awaited \cup Ended /\ sent' \in 0 .. size
    BY <1>2, <1>5 DEF Awaited
  <2> QED
    BY <1>3, <2>4, <2>6, <2>7, <2>8, <2>9 DEF SenderReads
<1>6. CASE spc = "meta_ack" /\ spc' = "meta_crc" /\ UNCHANGED <<toRecv, sent, block_no>>
  <2>1. Head(toSend) = "ACK"
    BY <1>6 DEF Awaited
  <2> QED
    BY <1>6, <2>1, SenderMoves
<1>7. CASE spc = "meta_crc" /\ UNCHANGED <<sent, block_no>> /\ NextBlock
  <2>1. sent = 0 /\ sent' = 0 /\ LastSent = 0 /\ block_no' = (0 + 1) % BlockMod /\ 0 <= size
    BY <1>1, <1>2, <1>7 DEF SendState, LastSent
  <2>2. Acked = 0 + 1 /\ spc \in Sending
    BY <1>7, <2>1 DEF Acked, Sending
  <2>3. Acked + Answers <= Received + Ahead
    BY <2>2, AnswersAhead
  <2>4. 0 + 1 <= Received + Ahead
    BY <1>2, <2>2, <2>3, AheadType
  <2>5. /\ SendState' /\ LastSent <= LastSent' /\ toRecv' \in Seq(Frames)
        /\ OnLine(toRecv', HasMetadata, Len(stored), LastSent', MayEnd', size)
        /\ spc' \in {"data_ack", "eot_nak"} /\ (spc' = "data_ack" => Eots' = Eots)
    BY <1>3, <1>7, <2>1, <2>4, NextBlockSent
  <2>6. Acked' = Acked
    BY <1>7, <2>1, <2>2, <2>5 DEF Acked
  <2>7. Acked' <= Acked + IF Head(toSend) = "ACK" THEN 1 ELSE 0
    BY <1>4, <2>6
  <2>8. spc' \in DOMAIN Awaited \cup Ended /\ sent' \in 0 .. size
    BY <1>2, <1>7, <2>5 DEF Awaited
  <2> QED
    BY <1>3, <2>2, <2>5, <2>7, <2>8 DEF SenderReads, Sending
<1>8. CASE /\ spc = "data_ack"
           /\ sent' = sent + 1 /\ block_no' = NextNo(block_no)
           /\ NextBlock
  <2>1. Head(toSend) = "ACK" /\ spc \in Sending
    BY <1>8 DEF Awaited, Sending
  <2>2. Acked = sent + 1 /\ LastSent = sent + 1 /\ sent < size
    BY <1>1, <1>8 DEF Acked, LastSent, SendState
  <2>3. block_no' = (sent + 1 + 1) % BlockMod
    <3>1. block_no = (sent + 1) % BlockMod /\ sent + 1 \in Nat
      BY <1>1, <1>2 DEF SendState
    <3> QED
      BY <1>8, <3>1, NextNumber
  <2>4. sent + 1 \in Nat /\ sent + 1 <= size /\ sent + 1 \in 0 .. size
    BY <1>2, <2>2
  <2>5. Answers >= 1
    <3>1. Answers = Count(Tail(toSend), "ACK") + 1
      BY <1>1, <1>3, <2>1, CountTail DEF Answers, TransferTypes
    <3>2. Count(Tail(toSend), "ACK") \in Nat
      <4>1. Tail(toSend) \in Seq(Bytes)
        BY <1>1, <1>3, HeadTailProperties DEF TransferTypes
      <4> QED
        BY <4>1, CountType
    <3> QED
      BY <3>1, <3>2
  <2>6. Acked + Answers <= Received + Ahead
    BY <2>1, AnswersAhead
  <2>7. sent + 1 + 1 <= Received + Ahead
    BY <1>2, <2>2, <2>5, <2>6, AheadType
  <2>8. /\ SendState' /\ LastSent <= LastSent' /\ toRecv' \in Seq(Frames)
        /\ OnLine(toRecv', HasMetadata, Len(stored), LastSent', MayEnd', size)
        /\ spc' \in {"data_ack", "eot_nak"} /\ (spc' = "data_ack" => Eots' = Eots)
    BY <1>3, <1>8, <2>2, <2>3, <2>4, <2>7, NextBlockSent
  <2>9. Acked' = sent + 1 + 1
    BY <1>8, <2>8 DEF Acked
  <2>10. sent + 1 + 1 <= sent + 1 + 1
    BY <1>2
  <2>11. Acked' <= Acked + IF Head(toSend) = "ACK" THEN 1 ELSE 0
    BY <2>1, <2>2, <2>9, <2>10
  <2>12. spc' \in DOMAIN Awaited \cup Ended /\ sent' \in 0 .. size
    BY <1>8, <2>4, <2>8 DEF Awaited
  <2> QED
    BY <1>3, <2>1, <2>8, <2>11, <2>12 DEF SenderReads, Sending
<1>9. CASE /\ spc = "eot_nak" /\ Send(Eot) /\ spc' = "eot_ack"
           /\ UNCHANGED <<sent, block_no>>
  <2>1. Send(Eot)
    BY <1>9
  <2>2. LastSent = size /\ LastSent' = size /\ Acked' = Acked
    BY <1>3, <1>9 DEF LastSent, Acked
  <2>3. LastSent' \in Nat /\ LastSent <= LastSent' /\ spc' \notin Sending
    BY <1>2, <1>9, <2>2 DEF Sending
  <2>4. /\ toRecv' \in Seq(Frames)
        /\ OnLine(toRecv', HasMetadata, Len(stored), LastSent', MayEnd', size)
    BY <1>1, <2>1, <2>3, SentFrames, SendFrame
  <2>5. SendState'
    BY <1>1, <1>3, <1>9 DEF SendState, Ending
  <2>6. Acked' <= Acked + IF Head(toSend) = "ACK" THEN 1 ELSE 0
    BY <1>4, <2>2
  <2>7. spc' \in DOMAIN Awaited \cup Ended /\ sent' \in 0 .. size
    BY <1>2, <1>9 DEF Awaited
  <2> QED
    BY <1>3, <2>3, <2>4, <2>5, <2>6, <2>7 DEF SenderReads
<1>10. CASE spc = "eot_ack" /\ spc' = "eot_crc" /\ UNCHANGED <<toRecv, sent, block_no>>
  <2>1. Head(toSend) = "ACK"
    BY <1>10 DEF Awaited
  <2> QED
    BY <1>10, <2>1, SenderMoves
<1>11. CASE /\ spc = "eot_crc" /\ Send(Final) /\ spc' = "end_ack"
            /\ UNCHANGED <<sent, block_no>>
  <2> DEFINE f == Final
  <2>1. f \in Frames /\ f # Eot /\ f.no = 0 /\ f.what = 0 /\ f.sizes = {0}
    BY <1>0, SentFrames DEF Final
  <2>2. LastSent = size /\ LastSent' = size /\ Acked = sent + 2 /\ Acked' = Acked /\ sent = size
    BY <1>1, <1>3, <1>11 DEF LastSent, Acked, SendState, Ending
  <2>3. LastSent' \in Nat /\ LastSent <= LastSent' /\ spc \notin Sending /\ spc' \notin Sending
    BY <1>2, <1>11, <2>2 DEF Sending
  <2>4. eot_seen
    <3> SUFFICES ASSUME ~eot_seen PROVE FALSE
      OBVIOUS
    <3>1. Acked + Answers <= Len(stored) + HasMetadata
      BY <1>1 DEF Honest, Received
    <3>2. Len(stored) <= size
      BY <1>1, <2>2 DEF RecvState
    <3> HIDE DEF f
    <3> QED
      BY <1>2, <2>2, <3>1, <3>2
  <2>5. IsFinal(f, MayEnd) /\ Send(f)
    BY <1>11, <2>1, <2>3, <2>4 DEF IsFinal, MayEnd
  <2> HIDE DEF f
  <2>6. /\ toRecv' \in Seq(Frames)
        /\ OnLine(toRecv', HasMetadata, Len(stored), LastSent', MayEnd', size)
    BY <1>1, <2>1, <2>3, <2>5, SendFrame
  <2>7. SendState'
    BY <1>1, <1>3, <1>11 DEF SendState, Ending
  <2>8. Acked' <= Acked + IF Head(toSend) = "ACK" THEN 1 ELSE 0
    BY <1>4, <2>2
  <2>9. spc' \in DOMAIN Awaited \cup Ended /\ sent' \in 0 .. size
    BY <1>2, <1>11 DEF Awaited
  <2> QED
    BY <1>3, <2>3, <2>6, <2>7, <2>8, <2>9 DEF SenderReads
<1>12. CASE spc = "end_ack" /\ spc' = "final" /\ UNCHANGED <<toRecv, sent, block_no>>
  BY <1>12, SenderMoves
<1>13. CASE spc = "final" /\ spc' = "done" /\ UNCHANGED <<toRecv, sent, block_no>>
  BY <1>13, SenderMoves
<1> QED
  BY <1>5, <1>6, <1>7, <1>8, <1>9, <1>10, <1>11, <1>12, <1>13 DEF Advance

\* The sender takes one byte from the line (wait_byte, wait_final_status).
LEMMA SenderReadStep ==
  ASSUME TransferInv, false_eots <= BlockMod, SenderRead
  PROVE  TransferInv'
<1>1. TransferTypes /\ SendState /\ PacketsOnLine
  BY DEF TransferInv
<1>2. SenderKeeps
  BY DEF SenderRead, SenderKeeps
<1>3. CASE Head(toSend) = Awaited[spc] /\ Advance
  BY <1>2, <1>3, AdvanceReads, SenderStep
<1>4. CASE spc' = "failed" /\ UNCHANGED <<toRecv, sent, block_no>>
  BY <1>2, <1>4, SenderMoves, SenderStep
<1>5. CASE UNCHANGED <<toRecv, spc, sent, block_no>>
  <2>1. /\ LastSent' = LastSent /\ Acked' = Acked /\ LastSent \in Nat /\ Acked \in Nat
        /\ size' = size
    BY <1>1, <1>2, <1>5, Measures DEF LastSent, Acked, SenderKeeps
  <2>2. LastSent' \in Nat /\ LastSent <= LastSent'
    BY <2>1
  <2>3. /\ toRecv' \in Seq(Frames) /\ Eots' = Eots
        /\ OnLine(toRecv', HasMetadata, Len(stored), LastSent', MayEnd', size)
    BY <1>1, <1>2, <1>5, <2>2, SendNothing
  <2>4. SendState'
    BY <1>1, <1>2, <1>5 DEF SendState, SenderKeeps, receiver
  <2>5. Acked <= Acked + IF Head(toSend) = "ACK" THEN 1 ELSE 0
    BY <2>1
  <2>6. SenderReads
    BY <1>1, <1>2, <1>5, <2>1, <2>2, <2>3, <2>4, <2>5
       DEF SenderReads, SenderKeeps, TransferTypes
  <2> QED
    BY <2>6, SenderStep
<1> QED
  BY <1>3, <1>4, <1>5 DEF SenderRead

\* The sender gives up, or takes silence for success (wait_final_status).
LEMMA SenderTimeoutStep ==
  ASSUME TransferInv, SenderTimeout
  PROVE  TransferInv'
<1>1. /\ TransferTypes /\ RecvState /\ SendState /\ PacketsOnLine /\ Honest
      /\ toRecv \in Seq(Frames)
  BY DEF TransferInv, TransferTypes
<1>2. /\ spc' \in {"assumed", "failed"} /\ trouble' = TRUE
      /\ UNCHANGED <<toRecv, toSend, receiver, size, sent, block_no, line>>
  BY DEF SenderTimeout
<1>3. TransferTypes'
  BY <1>1, <1>2 DEF TransferTypes, receiver, line, Ended
<1>4. /\ LastSent' = size /\ Acked' = 0 /\ Answers' = Answers /\ LastSent <= size
      /\ HasMetadata' = HasMetadata /\ Received' = Received
  BY <1>1, <1>2, SentWithinFile
     DEF LastSent, Acked, Answers, HasMetadata, Received, receiver
<1>5. /\ HasMetadata \in {0, 1} /\ Len(stored) \in Nat /\ LastSent \in Nat /\ MayEnd \in {0, 1}
      /\ size \in Nat /\ Acked \in Nat /\ Answers \in Nat /\ Received \in Nat
  BY <1>1, Measures
<1>6. SendState'
  BY <1>1, <1>2 DEF SendState, Ending
<1>7. RecvState'
  <2>1. Len(stored) <= LastSent
    BY <1>1 DEF RecvState
  <2>2. Len(stored) <= LastSent'
    BY <1>4, <1>5, <2>1
  <2> QED
    BY <1>1, <1>2, <2>2 DEF RecvState, receiver
<1>8. PacketsOnLine'
  <2>1. MayEnd' \in {0, 1} /\ MayEnd <= MayEnd'
    BY <1>2 DEF MayEnd, Sending, receiver
  <2>2. OnLine(toRecv, HasMetadata, Len(stored), size, MayEnd', size)
    BY <1>1, <1>4, <1>5, <2>1, LineLater DEF PacketsOnLine
  <2> QED
    BY <1>2, <1>4, <2>2 DEF PacketsOnLine, receiver
<1>9. Honest'
  <2> SUFFICES ASSUME ~eot_seen PROVE 0 + Answers <= Received
    BY <1>2, <1>4 DEF Honest, receiver
  <2>1. Acked + Answers <= Received
    BY <1>1 DEF Honest
  <2> QED
    BY <1>5, <2>1
<1>10. Budget'
  BY <1>2 DEF Budget, Sending
<1> QED
  BY <1>3, <1>6, <1>7, <1>8, <1>9, <1>10 DEF TransferInv

\* Before rtbus_ymodem_recv starts there is nothing on the line.
LEMMA TransferInit == Init => TransferInv
<1> SUFFICES ASSUME Init PROVE TransferInv
  OBVIOUS
<1>1. /\ toRecv = <<>> /\ toSend = <<>> /\ stored = <<>> /\ rpc = "start" /\ rc = "none"
      /\ got_metadata = FALSE /\ eot_seen = FALSE /\ store_active = FALSE
      /\ expected_size = 0 /\ expected_block = 1 /\ spc = "ready" /\ size \in Sizes
      /\ sent = 0 /\ block_no = 1 /\ faults = 0 /\ false_eots = 0 /\ trouble = FALSE
  BY DEF Init
<1>2. size \in Nat /\ MaxFaults \in Nat /\ BlockMod \in Nat \ {0, 1}
  BY <1>1, YmodemAssumption
<1>3. TransferTypes
  <2>1. toRecv \in Seq(Frames) /\ toSend \in Seq(Bytes) /\ stored \in Seq(Nat)
    BY <1>1, EmptyLine, BytesPut
  <2>2. spc \in DOMAIN Awaited \cup Ended
    BY <1>1 DEF Awaited
  <2>3. sent \in 0 .. size /\ faults \in 0 .. MaxFaults
    BY <1>1, <1>2
  <2> QED
    BY <1>1, <2>1, <2>2, <2>3 DEF TransferTypes
<1>4. LastSent = 0 /\ Acked = 0 /\ HasMetadata = 0 /\ HasEot = 0 /\ Len(stored) = 0
  BY <1>1 DEF LastSent, Acked, HasMetadata, HasEot
<1>5. 1 = (0 + 1) % BlockMod
  BY <1>2
<1>6. RecvState
  BY <1>1, <1>4, <1>5 DEF RecvState
<1>7. SendState
  BY <1>1, <1>5 DEF SendState, Ending
<1>8. PacketsOnLine
  BY <1>1, EmptyLine DEF PacketsOnLine
<1>9. Answers = 0 /\ Eots = 0 /\ Received = 0 /\ StrayBytes \in Nat
  BY <1>1, <1>3, <1>4, AckCounts, EmptyLine, Measures DEF Answers, Eots, Received
<1>10. Honest
  BY <1>4, <1>9 DEF Honest
<1>11. Budget
  BY <1>4, <1>9 DEF Budget
<1> QED
  BY <1>3, <1>6, <1>7, <1>8, <1>10, <1>11 DEF TransferInv

\* Every step of the two sides and of the line keeps the invariant, while there are no
\* more false EOTs than block numbers.
LEMMA TransferNext ==
  ASSUME TransferInv, false_eots <= BlockMod, [Next]_vars
  PROVE  TransferInv'
<1>1. ASSUME Receiver PROVE TransferInv'
  BY <1>1, StartStep, TimeoutStep, CancelStep, EotStep, JunkStep, MetadataStep, BeginStep,
     EndStep, DataStep DEF Receiver
<1>2. ASSUME Sender PROVE TransferInv'
  BY <1>2, SenderReadStep, SenderTimeoutStep DEF Sender
<1>3. ASSUME UNCHANGED vars PROVE TransferInv'
  <2>1. TransferTypes /\ RecvState
    BY DEF TransferInv
  <2>2. TransferTypes'
    BY <1>3, <2>1 DEF TransferTypes, vars, receiver, sender, line
  <2>3. RecvState'
    BY <1>3, <2>1 DEF RecvState, LastSent, vars, receiver, sender
  <2>4. UNCHANGED <<toRecv, got_metadata, eot_seen, stored, sender, line>>
    BY <1>3 DEF vars, receiver
  <2>5. Answers' = Answers
    BY <1>3 DEF Answers, vars
  <2> QED
    BY <2>2, <2>3, <2>4, <2>5, QuietStep
<1> QED
  BY <1>1, <1>2, <1>3, AnnounceStep, DamageStep, LoseStep DEF Next, Finished

-----------------------------------------------------------------------------
(***************************************************************************)
(* Types and bounds, whatever the line loses.                              *)
(***************************************************************************)

\* Before the metadata there is no size, so that nothing is stored; the sender waits
\* for the ACK of a block of the file.
InBounds ==
  /\ TypeOK
  /\ ~got_metadata => expected_size = 0
  /\ spc = "data_ack" => sent < size

\* What the lemmas about the line need of the types.
LEMMA TypesAreBounds == TypeOK => TransferTypes
<1> QED
  BY DEF TypeOK, TransferTypes

\* The receiver's steps that take no data (rtbus_ymodem_recv).
LEMMA RecvBounds ==
  ASSUME InBounds,
         \/ RecvStart \/ RecvAnnounce \/ RecvTimeout \/ RecvCancel \/ RecvEot \/ RecvJunk
         \/ RecvBegin \/ RecvEnd
  PROVE  InBounds'
<1>1. /\ TypeOK /\ TransferTypes /\ toSend \in Seq(Bytes)
      /\ (~got_metadata => expected_size = 0) /\ (spc = "data_ack" => sent < size)
  BY TypesAreBounds DEF InBounds, TypeOK
<1>2. /\ UNCHANGED <<got_metadata, expected_size, expected_block, stored, spc, size, sent,
                     block_no, faults, false_eots>>
      /\ eot_seen' \in BOOLEAN
  BY <1>1 DEF RecvStart, RecvAnnounce, RecvTimeout, RecvCancel, RecvEot, RecvJunk, RecvBegin,
     RecvEnd, receiver, sender, line, TypeOK
<1>3. toRecv' \in Seq(Frames)
  <2>1. ASSUME NEW kind, Got(kind) PROVE toRecv' \in Seq(Frames)
    BY <1>1, <2>1, GotFrame
  <2>2. toRecv' = <<>> => toRecv' \in Seq(Frames)
    BY EmptyLine
  <2>3. toRecv' = toRecv => toRecv' \in Seq(Frames)
    BY <1>1 DEF TypeOK
  <2> QED
    BY <2>1, <2>2, <2>3 DEF RecvStart, RecvAnnounce, RecvTimeout, RecvCancel, RecvEot, RecvJunk,
       RecvBegin, RecvEnd
<1>4. CASE UNCHANGED <<toSend, rc, trouble>> /\ rpc' = "header" /\ store_active' \in BOOLEAN
  BY <1>1, <1>2, <1>3, <1>4 DEF InBounds, TypeOK
<1>5. CASE /\ \E bytes \in Seq(Bytes) : Put(bytes)
           /\ UNCHANGED <<rpc, rc, store_active, trouble>>
  <2>1. toSend' \in Seq(Bytes)
    BY <1>1, <1>5, PutAnswers
  <2> QED
    BY <1>1, <1>2, <1>3, <1>5, <2>1 DEF InBounds, TypeOK
<1>6. CASE /\ \E bytes \in Seq(Bytes) : Return("error", bytes) \/ Return("ok", bytes)
           /\ trouble' \in BOOLEAN
  <2>1. /\ toSend' \in Seq(Bytes) /\ rpc' = "returned" /\ rc' \in {"ok", "error"}
        /\ store_active' = FALSE
    BY <1>1, <1>6, ReturnAnswers
  <2> QED
    BY <1>1, <1>2, <1>3, <1>6, <2>1 DEF InBounds, TypeOK
<1>7. trouble \in BOOLEAN /\ store_active \in BOOLEAN /\ TRUE \in BOOLEAN
  BY <1>1 DEF TypeOK
<1>8. EotAnswer \in {<<"ACK", "C">>, <<"NAK">>}
  BY DEF EotAnswer
<1>9. ASSUME RecvStart PROVE InBounds'
  BY <1>4, <1>6, <1>7, <1>9, BytesPut DEF RecvStart, Fail
<1>10. ASSUME RecvAnnounce \/ RecvEot \/ RecvJunk PROVE InBounds'
  BY <1>5, <1>8, <1>10, BytesPut DEF RecvAnnounce, RecvEot, RecvJunk, receiver
<1>11. ASSUME RecvTimeout \/ RecvCancel PROVE InBounds'
  BY <1>6, <1>7, <1>11, BytesPut DEF RecvTimeout, RecvCancel, Fail
<1>12. ASSUME RecvBegin PROVE InBounds'
  BY <1>4, <1>6, <1>7, <1>12, BytesPut DEF RecvBegin, Fail
<1>13. ASSUME RecvEnd PROVE InBounds'
  BY <1>6, <1>7, <1>13, BytesPut DEF RecvEnd, Fail
<1> QED
  BY <1>9, <1>10, <1>11, <1>12, <1>13

\* The metadata names a size that ymodem_parse_file_size can read.
LEMMA MetadataBounds ==
  ASSUME InBounds, RecvMetadata
  PROVE  InBounds'
<1> DEFINE packet == Head(toRecv)
<1>1. /\ TypeOK /\ TransferTypes /\ toSend \in Seq(Bytes) /\ expected_size = 0
      /\ (spc = "data_ack" => sent < size) /\ trouble \in BOOLEAN /\ Len(stored) = 0
  <2>1. /\ TypeOK /\ expected_size = 0 /\ (spc = "data_ack" => sent < size)
    BY DEF InBounds, RecvMetadata
  <2>2. stored \in Seq(Nat) /\ Len(stored) <= 0
    BY <2>1 DEF TypeOK
  <2>3. Len(stored) = 0
    <3>1. Len(stored) \in Nat
      BY <2>2
    <3> QED
      BY <2>2, <3>1
  <2> QED
    BY <2>1, <2>3, TypesAreBounds DEF TypeOK
<1>2. /\ Got("packet") /\ got_metadata = FALSE
      /\ UNCHANGED <<eot_seen, expected_block, stored, spc, size, sent, block_no, faults,
                     false_eots>>
  BY <1>1 DEF RecvMetadata, sender, line, TypeOK
<1>3. /\ toRecv' \in Seq(Frames) /\ packet.sizes \in SUBSET (Sizes \cup {0}) /\ rpc = "header"
  BY <1>1, <1>2, GotFrame, HeadKind
<1>4. CASE Put(<<"NAK">>) /\ UNCHANGED <<rpc, got_metadata, store_active, expected_size, rc,
                                        trouble>>
  <2>1. toSend' \in Seq(Bytes)
    BY <1>1, <1>4, PutAnswers, BytesPut
  <2> QED
    BY <1>1, <1>2, <1>3, <1>4, <2>1 DEF InBounds, TypeOK
<1>5. CASE Fail(<<"NAK">>) /\ got_metadata' = TRUE /\ UNCHANGED expected_size
  <2>1. /\ toSend' \in Seq(Bytes) /\ rpc' = "returned" /\ rc' = "error"
        /\ store_active' = FALSE /\ trouble' = TRUE
    BY <1>1, <1>5, ReturnAnswers, BytesPut DEF Fail
  <2> QED
    BY <1>1, <1>2, <1>3, <1>5, <2>1 DEF InBounds, TypeOK
<1>6. CASE /\ expected_size' \in packet.sizes \ {0} /\ Put(<<"ACK", "C">>)
           /\ got_metadata' = TRUE /\ rpc' = "begin" /\ UNCHANGED <<store_active, rc, trouble>>
  <2>1. toSend' \in Seq(Bytes)
    BY <1>1, <1>6, PutAnswers, BytesPut
  <2>2. expected_size' \in Sizes \cup {0} /\ expected_size' \in Nat
    BY <1>3, <1>6, YmodemAssumption
  <2>3. Len(stored') <= expected_size'
    <3> DEFINE e == expected_size'
    <3>1. e \in Nat /\ Len(stored') = 0
      BY <1>1, <1>2, <2>2
    <3> HIDE DEF e
    <3>2. 0 <= e
      BY <3>1
    <3> QED
      BY <3>1, <3>2 DEF e
  <2> QED
    BY <1>1, <1>2, <1>3, <1>6, <2>1, <2>2, <2>3 DEF InBounds, TypeOK
<1> QED
  BY <1>4, <1>5, <1>6 DEF RecvMetadata

\* No block is taken past the size that the metadata named.
LEMMA DataBounds ==
  ASSUME InBounds, RecvData
  PROVE  InBounds'
<1> DEFINE packet == Head(toRecv)
<1>1. /\ TypeOK /\ TransferTypes /\ toSend \in Seq(Bytes) /\ trouble \in BOOLEAN
      /\ (~got_metadata => expected_size = 0) /\ (spc = "data_ack" => sent < size)
  BY TypesAreBounds DEF InBounds, TypeOK
<1>2. /\ Got("packet")
      /\ UNCHANGED <<got_metadata, eot_seen, expected_size, spc, size, sent, block_no, faults,
                     false_eots>>
  BY DEF RecvData, sender, line
<1>3. toRecv' \in Seq(Frames) /\ packet.what \in Nat
  BY <1>1, <1>2, GotFrame, HeadKind
<1>4. CASE Put(<<"NAK">>) /\ UNCHANGED <<rpc, store_active, rc, expected_block, stored, trouble>>
  <2>1. toSend' \in Seq(Bytes)
    BY <1>1, <1>4, PutAnswers, BytesPut
  <2> QED
    BY <1>1, <1>2, <1>3, <1>4, <2>1 DEF InBounds, TypeOK
<1>5. CASE /\ stored' = Taken(packet) /\ expected_block' = NextNo(expected_block)
           /\ Put(<<"ACK">>) /\ UNCHANGED <<rpc, store_active, rc, trouble>>
  <2>1. toSend' \in Seq(Bytes)
    BY <1>1, <1>5, PutAnswers, BytesPut
  <2>2. stored \in Seq(Nat) /\ Len(stored) <= expected_size /\ expected_size \in Nat
    BY <1>1, YmodemAssumption DEF TypeOK
  <2>3. stored' \in Seq(Nat) /\ Len(stored') <= expected_size
    <3>1. CASE Len(stored) < expected_size
      <4>1. stored' = Append(stored, packet.what)
        BY <1>5, <3>1 DEF Taken
      <4>2. Append(stored, packet.what) \in Seq(Nat)
            /\ Len(Append(stored, packet.what)) = Len(stored) + 1
        BY <1>3, <2>2, AppendProperties
      <4>3. Len(stored) + 1 <= expected_size
        BY <2>2, <3>1
      <4> QED
        BY <4>1, <4>2, <4>3
    <3>2. CASE ~(Len(stored) < expected_size)
      BY <1>5, <2>2, <3>2 DEF Taken
    <3> QED
      BY <3>1, <3>2
  <2>4. expected_block' \in 0 .. BlockMod - 1
    BY <1>1, <1>5, NextInRange DEF TypeOK
  <2> HIDE DEF packet
  <2> QED
    BY <1>1, <1>2, <1>3, <1>5, <2>1, <2>3, <2>4 DEF InBounds, TypeOK
<1>6. CASE Fail(<<"CAN">>) /\ UNCHANGED <<expected_block, stored>>
  <2>1. /\ toSend' \in Seq(Bytes) /\ rpc' = "returned" /\ rc' = "error"
        /\ store_active' = FALSE /\ trouble' = TRUE
    BY <1>1, <1>6, ReturnAnswers, BytesPut DEF Fail
  <2> QED
    BY <1>1, <1>2, <1>3, <1>6, <2>1 DEF InBounds, TypeOK
<1> QED
  BY <1>4, <1>5, <1>6 DEF RecvData

\* The sender's offset stays in the file (send_ymodem).
LEMMA SenderBounds ==
  ASSUME InBounds, Sender
  PROVE  InBounds'
<1>1. /\ TypeOK /\ toRecv \in Seq(Frames) /\ toSend \in Seq(Bytes)
      /\ (~got_metadata => expected_size = 0) /\ (spc = "data_ack" => sent < size)
      /\ size \in Sizes /\ size \in Nat /\ sent \in 0 .. size /\ block_no \in 0 .. BlockMod - 1
  BY YmodemAssumption DEF InBounds, TypeOK
<1>2. /\ UNCHANGED <<rpc, got_metadata, eot_seen, store_active, expected_size, expected_block,
                     stored, rc, size, faults, false_eots>>
      /\ toSend' \in Seq(Bytes) /\ trouble' \in BOOLEAN
  <2>1. toSend # <<>> => Tail(toSend) \in Seq(Bytes)
    BY <1>1, HeadTailProperties
  <2> QED
    BY <1>1, <2>1 DEF Sender, SenderRead, SenderTimeout, receiver, line, TypeOK
<1>3. /\ toRecv' \in Seq(Frames) /\ spc' \in DOMAIN Awaited \cup Ended /\ sent' \in 0 .. size
      /\ block_no' \in 0 .. BlockMod - 1 /\ (spc' = "data_ack" => sent' < size)
  <2>1. CASE SenderTimeout
    BY <1>1, <2>1 DEF SenderTimeout, Ended
  <2>2. CASE spc' = "failed" /\ UNCHANGED <<toRecv, sent, block_no>>
    BY <1>1, <2>2 DEF Ended
  <2>3. CASE UNCHANGED <<toRecv, spc, sent, block_no>>
    BY <1>1, <2>3 DEF TypeOK
  <2>4. CASE Advance
    <3>1. ASSUME NEW f \in Frames, Send(f) PROVE toRecv' \in Seq(Frames)
      BY <1>1, <3>1 DEF Send
    <3>2. /\ Eot \in Frames /\ Metadata \in Frames /\ Final \in Frames
          /\ \A no \in 0 .. BlockMod - 1, what \in Nat : Block(no, what) \in Frames
      <4>1. 0 \in 0 .. BlockMod - 1 /\ 0 \in Nat
        BY YmodemAssumption
      <4>2. ASSUME NEW no \in 0 .. BlockMod - 1, NEW what \in Nat,
                   NEW sizes \in SUBSET (Sizes \cup {0})
            PROVE  Packet(no, what, sizes) \in Frames
        BY SentFrames
      <4>3. {size} \in SUBSET (Sizes \cup {0}) /\ {0} \in SUBSET (Sizes \cup {0})
        BY <1>1
      <4>4. Metadata \in Frames /\ Final \in Frames
        BY <4>1, <4>2, <4>3 DEF Metadata, Final
      <4>5. \A no \in 0 .. BlockMod - 1, what \in Nat : Block(no, what) \in Frames
        BY <4>2 DEF Block
      <4> QED
        BY <4>4, <4>5, SentFrames
    <3>3. ASSUME NextBlock, sent' \in 0 .. size, block_no' \in 0 .. BlockMod - 1
          PROVE  toRecv' \in Seq(Frames) /\ spc' \in DOMAIN Awaited \cup Ended
                 /\ (spc' = "data_ack" => sent' < size)
      <4>1. CASE sent' < size
        <5>1. Send(Block(block_no', sent' + 1)) /\ spc' = "data_ack"
          BY <1>2, <3>3, <4>1 DEF NextBlock
        <5>2. sent' + 1 \in Nat
          <6> DEFINE s2 == sent'
          <6>1. s2 \in 0 .. size
            BY <1>2, <3>3
          <6> HIDE DEF s2
          <6>2. s2 + 1 \in Nat
            BY <1>1, <6>1
          <6> QED
            BY <6>2 DEF s2
        <5> QED
          BY <3>1, <3>2, <3>3, <4>1, <5>1, <5>2 DEF Awaited
      <4>2. CASE ~(sent' < size)
        <5>1. Send(Eot) /\ spc' = "eot_nak"
          BY <1>2, <3>3, <4>2 DEF NextBlock
        <5> QED
          BY <3>1, <3>2, <5>1 DEF Awaited
      <4> QED
        BY <4>1, <4>2
    <3>4. CASE spc = "meta_crc" /\ UNCHANGED <<sent, block_no>> /\ NextBlock
      BY <1>1, <3>3, <3>4
    <3>5. CASE spc = "data_ack" /\ sent' = sent + 1 /\ block_no' = NextNo(block_no) /\ NextBlock
      <4>1. sent' \in 0 .. size
        BY <1>1, <3>5
      <4>2. block_no' \in 0 .. BlockMod - 1
        BY <1>1, <3>5, NextInRange
      <4> QED
        BY <3>3, <3>5, <4>1, <4>2
    <3>6. CASE /\ UNCHANGED <<sent, block_no>> /\ spc' \in {"meta_ack", "eot_ack", "end_ack"}
               /\ Send(Metadata) \/ Send(Eot) \/ Send(Final)
      BY <1>1, <3>1, <3>2, <3>6 DEF Awaited
    <3>7. CASE /\ UNCHANGED <<toRecv, sent, block_no>>
               /\ spc' \in {"meta_crc", "eot_crc", "final", "done"}
      BY <1>1, <3>7 DEF Awaited, Ended
    <3> QED
      BY <2>4, <3>4, <3>5, <3>6, <3>7 DEF Advance
  <2> QED
    BY <2>1, <2>2, <2>3, <2>4 DEF Sender, SenderRead
<1> QED
  BY <1>1, <1>2, <1>3 DEF InBounds, TypeOK

\* The line's faults keep the types.
LEMMA LineBounds ==
  ASSUME InBounds, DamageFrame \/ LoseAnswer
  PROVE  InBounds'
<1>1. /\ TypeOK /\ toRecv \in Seq(Frames) /\ toSend \in Seq(Bytes)
      /\ (~got_metadata => expected_size = 0) /\ (spc = "data_ack" => sent < size)
  BY DEF InBounds, TypeOK
<1>2. /\ UNCHANGED <<receiver, sender>> /\ trouble' = TRUE /\ faults' \in 0 .. MaxFaults
  <2>1. faults \in 0 .. MaxFaults /\ faults < MaxFaults /\ faults' = faults + 1
    BY <1>1 DEF DamageFrame, LoseAnswer, Fault, TypeOK
  <2> QED
    BY <2>1, YmodemAssumption DEF DamageFrame, LoseAnswer, Fault
<1>3. toRecv' \in Seq(Frames) /\ toSend' \in Seq(Bytes) /\ false_eots' \in Nat
  <2>1. CASE LoseAnswer
    <3>1. Tail(toSend) \in Seq(Bytes)
      BY <1>1, <2>1, HeadTailProperties DEF LoseAnswer
    <3> QED
      BY <1>1, <2>1, <3>1 DEF LoseAnswer, TypeOK
  <2>2. CASE DamageFrame
    <3>1. Tail(toRecv) \in Seq(Frames) /\ toSend' = toSend /\ false_eots \in Nat
      BY <1>1, <2>2, HeadTailProperties DEF DamageFrame, TypeOK
    <3>2. ASSUME NEW run \in StrayRuns
          PROVE  run \o Tail(toRecv) \in Seq(Frames) /\ false_eots + EotsIn(run) \in Nat
      BY <3>1, RunCount, ConcatProperties
    <3> QED
      BY <1>1, <2>2, <3>1, <3>2 DEF DamageFrame
  <2> QED
    BY <2>1, <2>2
<1> QED
  BY <1>1, <1>2, <1>3 DEF InBounds, TypeOK, receiver, sender

\* Before rtbus_ymodem_recv starts everything is in its bounds.
LEMMA BoundsInit == Init => InBounds
<1> SUFFICES ASSUME Init PROVE InBounds
  OBVIOUS
<1>1. /\ TransferTypes /\ expected_size = 0 /\ expected_block = 1 /\ block_no = 1
      /\ stored = <<>> /\ spc = "ready"
  BY TransferInit DEF Init, TransferInv
<1>2. 1 \in 0 .. BlockMod - 1 /\ Len(stored) <= expected_size
  BY <1>1, YmodemAssumption
<1> QED
  BY <1>1, <1>2 DEF InBounds, TypeOK, TransferTypes

\* Every step keeps them.
LEMMA BoundsNext == InBounds /\ [Next]_vars => InBounds'
<1> SUFFICES ASSUME InBounds, [Next]_vars PROVE InBounds'
  OBVIOUS
<1>1. ASSUME UNCHANGED vars PROVE InBounds'
  BY <1>1 DEF InBounds, TypeOK, vars, receiver, sender, line
<1> QED
  BY <1>1, RecvBounds, MetadataBounds, DataBounds, SenderBounds, LineBounds
     DEF Next, Receiver, Finished

-----------------------------------------------------------------------------
(***************************************************************************)
(* The theorems.                                                           *)
(***************************************************************************)

\* The state of the receiver (rtbus_ymodem_recv) and of the sender (send_ymodem)
\* keeps within its bounds, whatever the line loses: no more blocks are stored than
\* the metadata announced.
THEOREM TransferInBounds == Spec => []TypeOK
<1>1. InBounds => TypeOK
  BY DEF InBounds
<1> QED
  BY <1>1, BoundsInit, BoundsNext, PTL DEF Spec

\* The transfer's invariant, until there are more false EOTs than block numbers.
Guarded == false_eots <= BlockMod => TransferInv

\* The transfer's invariant holds up to the limit of the false EOTs, whatever the
\* line loses (rtbus_ymodem_recv, send_ymodem).
THEOREM TransferHolds == Spec => []Guarded
<1>1. InBounds /\ InBounds' /\ Guarded /\ [Next]_vars => Guarded'
  <2> SUFFICES ASSUME InBounds, InBounds', Guarded, [Next]_vars, false_eots' <= BlockMod
               PROVE  TransferInv'
    BY DEF Guarded
  <2>1. false_eots <= false_eots'
    <3>1. false_eots \in Nat
      BY DEF InBounds, TypeOK
    <3>2. CASE false_eots' = false_eots
      BY <3>1, <3>2
    <3>3. ASSUME NEW run \in StrayRuns, false_eots' = false_eots + EotsIn(run)
          PROVE  false_eots <= false_eots'
      <4>1. EotsIn(run) \in Nat
        BY RunCount
      <4> QED
        BY <3>1, <3>3, <4>1
    <3>4. CASE ~DamageFrame
      BY <3>2, <3>4 DEF Next, Receiver, RecvStart, RecvTimeout, RecvCancel, RecvEot, RecvJunk,
         RecvMetadata, RecvBegin, RecvEnd, RecvData, RecvAnnounce, Sender, SenderRead,
         SenderTimeout, LoseAnswer, Finished, vars, line
    <3>5. CASE DamageFrame
      BY <3>2, <3>3, <3>5 DEF DamageFrame
    <3> QED
      BY <3>4, <3>5
  <2>2. false_eots <= BlockMod
    <3> DEFINE e == false_eots'
    <3>1. false_eots \in Nat /\ e \in Nat /\ e <= BlockMod /\ false_eots <= e /\ BlockMod \in Nat
      BY <2>1, YmodemAssumption DEF InBounds, TypeOK
    <3> HIDE DEF e
    <3> QED
      BY <3>1
  <2> QED
    BY <2>2, TransferNext DEF Guarded
<1>2. Init => Guarded
  BY TransferInit DEF Guarded
<1>3. Spec => []InBounds
  BY BoundsInit, BoundsNext, PTL DEF Spec
<1> QED
  BY <1>1, <1>2, <1>3, PTL DEF Spec

\* The image store is given the blocks of the file in order, each once and with no gap
\* (the loop of rtbus_ymodem_recv), and rtbus_ymodem_recv succeeds only with all of them,
\* though the numbers wrap and stray bytes look like EOT, so that the sender runs ahead
\* of what was received: as long as there were no more of those than block numbers.
THEOREM BlocksStoredInOrder == Spec => []StoredInOrder
<1>1. Guarded => StoredInOrder
  <2> SUFFICES ASSUME Guarded, false_eots <= BlockMod
               PROVE  /\ stored = [k \in 1 .. Len(stored) |-> k]
                      /\ rc = "ok" => Len(stored) = size
    BY DEF StoredInOrder
  <2>1. RecvState /\ stored \in Seq(Nat)
    BY DEF Guarded, TransferInv, TransferTypes
  <2>2. stored = [k \in 1 .. Len(stored) |-> k]
    <3>1. stored = [k \in 1 .. Len(stored) |-> stored[k]]
      BY <2>1
    <3> QED
      BY <2>1, <3>1 DEF RecvState
  <2> QED
    BY <2>1, <2>2 DEF RecvState
<1> QED
  BY <1>1, TransferHolds, PTL

-----------------------------------------------------------------------------
(***************************************************************************)
(* Without trouble the two sides run in lock-step: what is on the line     *)
(* follows from the sender's wait.                                         *)
(***************************************************************************)

\* The metadata is received, and one frame or one answer is on the line.
Exchange(pc, seen, frames, answers) ==
  /\ spc = pc /\ got_metadata = TRUE /\ eot_seen = seen
  /\ toRecv = frames /\ toSend = answers

Running  == rpc \in {"begin", "header"}
SameNo   == expected_block = block_no
Requests == Seq({"C"})

Asking    == /\ spc = "ready" /\ got_metadata = FALSE /\ eot_seen = FALSE /\ toRecv = <<>>
             /\ toSend \in Requests /\ rpc \in {"start", "header"} /\ SameNo
             /\ rpc = "start" => toSend = <<>>
Named     == /\ spc = "meta_ack" /\ got_metadata = FALSE /\ eot_seen = FALSE
             /\ toRecv = <<Metadata>> /\ toSend \in Requests /\ rpc = "header" /\ SameNo
NameTaken == /\ \E cs \in Requests : Exchange("meta_ack", FALSE, <<>>, cs \o <<"ACK", "C">>)
             /\ Running /\ SameNo
Granted   == Exchange("meta_crc", FALSE, <<>>, <<"C">>) /\ Running /\ SameNo
BlockSent == /\ Exchange("data_ack", FALSE, <<Block(block_no, sent + 1)>>, <<>>)
             /\ Running /\ SameNo
BlockKept == /\ Exchange("data_ack", FALSE, <<>>, <<"ACK">>)
             /\ Running /\ expected_block = NextNo(block_no)
EotSent   == Exchange("eot_nak", FALSE, <<Eot>>, <<>>) /\ Running
EotNaked  == Exchange("eot_nak", TRUE, <<>>, <<"NAK">>) /\ Running
EotAgain  == Exchange("eot_ack", TRUE, <<Eot>>, <<>>) /\ Running
EotAcked  == Exchange("eot_ack", TRUE, <<>>, <<"ACK", "C">>) /\ Running
EndAsked  == Exchange("eot_crc", TRUE, <<>>, <<"C">>) /\ Running
EndSent   == Exchange("end_ack", TRUE, <<Final>>, <<>>) /\ Running
EndTaken  == Exchange("end_ack", TRUE, <<>>, <<"ACK", "STAGED">>) /\ rpc = "returned"
Staged    == Exchange("final", TRUE, <<>>, <<"STAGED">>) /\ rpc = "returned"
AllDone   == Exchange("done", TRUE, <<>>, <<>>) /\ rpc = "returned"

Calm ==
  \/ Asking \/ Named \/ NameTaken \/ Granted \/ BlockSent \/ BlockKept \/ EotSent
  \/ EotNaked \/ EotAgain \/ EotAcked \/ EndAsked \/ EndSent \/ EndTaken \/ Staged
  \/ AllDone

LockStep == trouble \/ Calm

\* The sender ignores the 'C's that precede an answer.
LEMMA RequestsFirst ==
  ASSUME NEW cs \in Requests
  PROVE  /\ cs \o <<"ACK", "C">> # <<>>
         /\ cs = <<>> => cs \o <<"ACK", "C">> = <<"ACK", "C">>
         /\ cs # <<>> => /\ Tail(cs) \in Requests
                         /\ Head(cs \o <<"ACK", "C">>) = "C"
                         /\ Tail(cs \o <<"ACK", "C">>) = Tail(cs) \o <<"ACK", "C">>
<1> DEFINE a == <<"ACK", "C">>
           s == cs \o a
<1>1. cs \in Seq(Bytes) /\ a \in Seq(Bytes) /\ Len(a) = 2 /\ Len(cs) \in Nat
  BY DEF Requests, Bytes
<1>2. /\ s \in Seq(Bytes) /\ Len(s) = Len(cs) + 2
      /\ \A i \in 1 .. Len(cs) + 2 : s[i] = IF i <= Len(cs) THEN cs[i] ELSE a[i - Len(cs)]
  BY <1>1, ConcatProperties
<1>3. s # <<>> /\ Head(s) = s[1]
  BY <1>1, <1>2
<1>4. ASSUME cs = <<>> PROVE s = a
  BY <1>1, <1>4
<1>5. ASSUME cs # <<>>
      PROVE  Tail(cs) \in Requests /\ Head(s) = "C" /\ Tail(s) = Tail(cs) \o a
  <2>1. /\ Tail(cs) \in Seq({"C"}) /\ Len(Tail(cs)) = Len(cs) - 1 /\ Len(cs) # 0
        /\ \A i \in 1 .. Len(Tail(cs)) : Tail(cs)[i] = cs[i + 1]
    BY <1>5, HeadTailProperties DEF Requests
  <2>2. Head(s) = "C"
    <3>1. 1 \in 1 .. Len(cs) /\ cs[1] = "C"
      BY <1>1, <2>1 DEF Requests
    <3> QED
      BY <1>1, <1>2, <1>3, <3>1
  <2>3. /\ Tail(s) \in Seq(Bytes) /\ Len(Tail(s)) = Len(cs) + 1
        /\ \A i \in 1 .. Len(cs) + 1 : Tail(s)[i] = s[i + 1]
    <3>1. /\ Tail(s) \in Seq(Bytes) /\ Len(Tail(s)) = Len(s) - 1
          /\ \A i \in 1 .. Len(Tail(s)) : Tail(s)[i] = s[i + 1]
      BY <1>2, <1>3, HeadTailProperties
    <3> HIDE DEF s
    <3> QED
      BY <1>1, <1>2, <3>1
  <2> DEFINE t == Tail(cs) \o a
  <2>4. /\ t \in Seq(Bytes) /\ Len(t) = Len(Tail(cs)) + 2
        /\ \A i \in 1 .. Len(Tail(cs)) + 2 :
             t[i] = IF i <= Len(Tail(cs)) THEN Tail(cs)[i] ELSE a[i - Len(Tail(cs))]
    <3>1. Tail(cs) \in Seq(Bytes)
      BY <2>1 DEF Bytes
    <3> QED
      BY <1>1, <3>1, ConcatProperties
  <2>5. Tail(s) = t
    <3> HIDE DEF s, t, a
    <3> DEFINE u == Tail(s)
               v == Tail(cs)
               n == Len(cs)
    <3>1. /\ n \in Nat /\ n # 0 /\ Len(u) = n + 1 /\ Len(t) = n + 1 /\ Len(v) = n - 1
      BY <1>1, <2>1, <2>3, <2>4
    <3>2. \A i \in 1 .. n + 1 :
            u[i] = s[i + 1] /\ t[i] = IF i <= n - 1 THEN v[i] ELSE a[i - (n - 1)]
      BY <2>1, <2>3, <2>4, <3>1
    <3>3. \A i \in 1 .. n - 1 : v[i] = cs[i + 1]
      BY <2>1, <3>1
    <3>4. \A i \in 1 .. n + 2 : s[i] = IF i <= n THEN cs[i] ELSE a[i - n]
      BY <1>2
    <3>5. u \in Seq(Bytes) /\ t \in Seq(Bytes)
      BY <2>3, <2>4
    <3> HIDE DEF u, v, n
    <3>6. ASSUME NEW i \in 1 .. n + 1 PROVE u[i] = t[i]
      <4>1. i + 1 \in 1 .. n + 2 /\ (i + 1) - n = i - (n - 1) /\ (i + 1 <= n <=> i <= n - 1)
        BY <3>1
      <4>0. /\ u[i] = s[i + 1] /\ t[i] = IF i <= n - 1 THEN v[i] ELSE a[i - (n - 1)]
            /\ s[i + 1] = IF i + 1 <= n THEN cs[i + 1] ELSE a[(i + 1) - n]
        <5>1. u[i] = s[i + 1] /\ t[i] = IF i <= n - 1 THEN v[i] ELSE a[i - (n - 1)]
          BY <3>2
        <5>2. s[i + 1] = IF i + 1 <= n THEN cs[i + 1] ELSE a[(i + 1) - n]
          BY <3>4, <4>1
        <5> QED
          BY <5>1, <5>2
      <4>2. CASE i <= n - 1
        <5>1. v[i] = cs[i + 1]
          <6>1. i \in 1 .. n - 1
            BY <3>1, <4>2
          <6> QED
            BY <3>3, <6>1
        <5> QED
          BY <4>0, <4>1, <4>2, <5>1, Zenon
      <4>3. CASE ~(i <= n - 1)
        BY <4>0, <4>1, <4>3, Zenon
      <4> QED
        BY <4>2, <4>3
    <3> QED
      BY <3>1, <3>5, <3>6, SeqEqual DEF u
  <2> QED
    BY <2>1, <2>2, <2>5 DEF Requests
<1> QED
  BY <1>3, <1>4, <1>5

\* One more request on the line, or one less.
LEMMA RequestLine ==
  ASSUME NEW s \in Requests
  PROVE  /\ s \o <<"C">> \in Requests
         /\ s # <<>> => Head(s) = "C" /\ Tail(s) \in Requests
<1>1. s \in Seq({"C"}) /\ <<"C">> \in Seq({"C"})
  BY DEF Requests
<1>2. s \o <<"C">> \in Seq({"C"})
  BY <1>1, ConcatProperties
<1>3. s # <<>> => Head(s) \in {"C"} /\ Tail(s) \in Seq({"C"})
  BY <1>1, HeadTailProperties
<1> QED
  BY <1>2, <1>3 DEF Requests

\* No fault, timeout or failure of the store is forgotten.
LEMMA TroubleStays == [Next]_vars /\ trouble => trouble' \/ trouble' = trouble
<1> SUFFICES ASSUME [Next]_vars, trouble PROVE trouble' \/ trouble' = trouble
  OBVIOUS
<1>1. ASSUME Receiver PROVE trouble' \/ trouble' = trouble
  BY <1>1 DEF Receiver, RecvStart, RecvTimeout, RecvCancel, RecvEot, RecvJunk, RecvMetadata,
     RecvBegin, RecvEnd, RecvData, Fail
<1>2. ASSUME Sender PROVE trouble' \/ trouble' = trouble
  BY <1>2 DEF Sender, SenderRead, SenderTimeout
<1>3. ASSUME RecvAnnounce \/ DamageFrame \/ LoseAnswer PROVE trouble' \/ trouble' = trouble
  BY <1>3 DEF RecvAnnounce, DamageFrame, LoseAnswer, Fault
<1> QED
  BY <1>1, <1>2, <1>3 DEF Next, Finished, vars

\* The receiver's own steps, between two frames.
LEMMA CalmStart ==
  ASSUME Calm, RecvStart, ~trouble'
  PROVE  Calm'
<1>1. /\ rpc = "start" /\ rpc' = "header" /\ toRecv' = <<>>
      /\ UNCHANGED <<toSend, got_metadata, eot_seen, expected_block, sender>>
  BY DEF RecvStart, Fail
<1>2. Asking
  BY <1>1 DEF Calm, Asking, Named, NameTaken, Granted, BlockSent, BlockKept, EotSent, EotNaked,
     EotAgain, EotAcked, EndAsked, EndSent, EndTaken, Staged, AllDone, Running
<1>3. Asking'
  BY <1>1, <1>2 DEF Asking, SameNo, Requests, sender
<1> QED
  BY <1>3 DEF Calm

\* rtbus_image_store_begin leaves the line alone if it succeeds.
LEMMA CalmBegin ==
  ASSUME Calm, RecvBegin, ~trouble'
  PROVE  Calm'
<1>1. /\ rpc = "begin" /\ rpc' = "header"
      /\ UNCHANGED <<toRecv, toSend, got_metadata, eot_seen, expected_block, spc, size, sent,
                     block_no>>
  BY DEF RecvBegin, Fail, sender
<1>2. Running' /\ SameNo' = SameNo
  BY <1>1 DEF Running, SameNo
<1>3. \/ NameTaken \/ Granted \/ BlockSent \/ BlockKept \/ EotSent \/ EotNaked
      \/ EotAgain \/ EotAcked \/ EndAsked \/ EndSent
  BY <1>1 DEF Calm, Asking, Named, EndTaken, Staged, AllDone
<1>4. CASE NameTaken
  BY <1>1, <1>2, <1>4 DEF NameTaken, Exchange, Calm
<1>5. CASE Granted
  BY <1>1, <1>2, <1>5 DEF Granted, Exchange, Calm
<1>6. CASE BlockSent
  BY <1>1, <1>2, <1>6 DEF BlockSent, Exchange, Block, Calm
<1>7. CASE BlockKept
  BY <1>1, <1>2, <1>7 DEF BlockKept, Exchange, Calm
<1>8. CASE EotSent
  BY <1>1, <1>2, <1>8 DEF EotSent, Exchange, Calm
<1>9. CASE EotNaked
  BY <1>1, <1>2, <1>9 DEF EotNaked, Exchange, Calm
<1>10. CASE EotAgain
  BY <1>1, <1>2, <1>10 DEF EotAgain, Exchange, Calm
<1>11. CASE EotAcked
  BY <1>1, <1>2, <1>11 DEF EotAcked, Exchange, Calm
<1>12. CASE EndAsked
  BY <1>1, <1>2, <1>12 DEF EndAsked, Exchange, Calm
<1>13. CASE EndSent
  BY <1>1, <1>2, <1>13 DEF EndSent, Exchange, Calm
<1> QED
  BY <1>3, <1>4, <1>5, <1>6, <1>7, <1>8, <1>9, <1>10, <1>11, <1>12, <1>13

\* The receiver's 'C's gather on the line until the metadata comes.
LEMMA CalmAnnounce ==
  ASSUME Calm, RecvAnnounce
  PROVE  Calm'
<1>1. /\ got_metadata # TRUE /\ toSend' = toSend \o <<"C">> /\ rpc = "header" /\ rpc' = "header"
      /\ UNCHANGED <<toRecv, got_metadata, eot_seen, expected_block, spc, size, sent,
                     block_no>>
  BY DEF RecvAnnounce, Put, receiver, sender
<1>2. Asking \/ Named
  BY <1>1 DEF Calm, NameTaken, Granted, BlockSent, BlockKept, EotSent, EotNaked, EotAgain,
     EotAcked, EndAsked, EndSent, EndTaken, Staged, AllDone, Exchange
<1>3. CASE Asking
  <2>1. toSend \o <<"C">> \in Requests
    BY <1>3, RequestLine DEF Asking
  <2>2. Asking'
    BY <1>1, <1>3, <2>1 DEF Asking, SameNo, Requests
  <2> QED
    BY <2>2 DEF Calm
<1>4. CASE Named
  <2>1. toSend \o <<"C">> \in Requests
    BY <1>4, RequestLine DEF Named
  <2>2. Named'
    BY <1>1, <1>4, <2>1 DEF Named, SameNo, Requests, Metadata
  <2> QED
    BY <2>2 DEF Calm
<1> QED
  BY <1>2, <1>3, <1>4

\* The receiver reads the one frame on the line.
LEMMA CalmFrame ==
  ASSUME Calm, NEW kind, Got(kind)
  PROVE  /\ rpc = "header" /\ toRecv' = <<>>
         /\ \/ Named /\ kind = "packet" /\ Head(toRecv) = Metadata
            \/ BlockSent /\ kind = "packet" /\ Head(toRecv) = Block(block_no, sent + 1)
            \/ EotSent /\ kind = "EOT"
            \/ EotAgain /\ kind = "EOT"
            \/ EndSent /\ kind = "packet" /\ Head(toRecv) = Final
<1>1. /\ rpc = "header" /\ toRecv # <<>> /\ toRecv' = Tail(toRecv) /\ Head(toRecv).kind = kind
  BY DEF Got
<1>2. Named \/ BlockSent \/ EotSent \/ EotAgain \/ EndSent
  BY <1>1 DEF Calm, Asking, NameTaken, Granted, BlockKept, EotNaked, EotAcked, EndAsked,
     EndTaken, Staged, AllDone, Exchange
<1>3. ASSUME NEW f, toRecv = <<f>>
      PROVE  toRecv' = <<>> /\ Head(toRecv) = f /\ f.kind = kind
  BY <1>1, <1>3
<1>4. /\ Eot.kind = "EOT" /\ Metadata.kind = "packet" /\ Final.kind = "packet"
      /\ \A no, what : Block(no, what).kind = "packet"
  BY DEF Eot, Stray, Metadata, Final, Block, Packet
<1>5. CASE Named
  BY <1>1, <1>3, <1>4, <1>5 DEF Named
<1>6. CASE BlockSent
  BY <1>1, <1>3, <1>4, <1>6 DEF BlockSent, Exchange
<1>7. CASE EotSent
  BY <1>1, <1>3, <1>4, <1>7 DEF EotSent, Exchange
<1>8. CASE EotAgain
  BY <1>1, <1>3, <1>4, <1>8 DEF EotAgain, Exchange
<1>9. CASE EndSent
  BY <1>1, <1>3, <1>4, <1>9 DEF EndSent, Exchange
<1> QED
  BY <1>2, <1>5, <1>6, <1>7, <1>8, <1>9

\* The metadata block is acknowledged, and the first block asked for.
LEMMA CalmMetadata ==
  ASSUME Calm, RecvMetadata, ~trouble'
  PROVE  Calm'
<1>1. /\ ~got_metadata /\ Got("packet")
      /\ UNCHANGED <<eot_seen, expected_block, spc, size, sent, block_no>>
  BY DEF RecvMetadata, sender
<1>2. Named /\ toRecv' = <<>> /\ Head(toRecv) = Metadata
  BY <1>1, CalmFrame DEF BlockSent, EotSent, EotAgain, EndSent, Exchange
<1>3. toSend' = toSend \o <<"ACK", "C">> /\ got_metadata' = TRUE /\ rpc' = "begin"
  BY <1>2 DEF RecvMetadata, Fail, Put, Metadata, Packet
<1>4. toSend \in Requests /\ spc = "meta_ack" /\ eot_seen = FALSE /\ expected_block = block_no
  BY <1>2 DEF Named, SameNo
<1>5. Running' /\ SameNo'
  BY <1>1, <1>3, <1>4 DEF Running, SameNo
<1>6. \E cs \in Requests : Exchange("meta_ack", FALSE, <<>>, cs \o <<"ACK", "C">>)'
  BY <1>4, <1>1, <1>2, <1>3 DEF Exchange
<1>7. NameTaken'
  BY <1>5, <1>6 DEF NameTaken, Requests
<1> QED
  BY <1>7 DEF Calm

\* The first EOT gets NAK, the second ACK and C.
LEMMA CalmEot ==
  ASSUME Calm, RecvEot
  PROVE  Calm'
<1>1. /\ Got("EOT") /\ rpc = "header" /\ toSend' = toSend \o EotAnswer /\ eot_seen' = TRUE
      /\ UNCHANGED <<rpc, got_metadata, expected_block, spc, size, sent, block_no>>
  BY DEF RecvEot, Got, Put, sender
<1>2. toRecv' = <<>> /\ (EotSent \/ EotAgain)
  BY <1>1, CalmFrame
<1>3. CASE EotSent
  <2>1. toSend' = <<"NAK">>
    BY <1>1, <1>3 DEF EotSent, Exchange, EotAnswer
  <2>2. EotNaked'
    BY <1>1, <1>2, <1>3, <2>1 DEF EotSent, EotNaked, Exchange, Running
  <2> QED
    BY <2>2 DEF Calm
<1>4. CASE EotAgain
  <2>1. toSend' = <<"ACK", "C">>
    BY <1>1, <1>4 DEF EotAgain, Exchange, EotAnswer
  <2>2. EotAcked'
    BY <1>1, <1>2, <1>4, <2>1 DEF EotAgain, EotAcked, Exchange, Running
  <2> QED
    BY <2>2 DEF Calm
<1> QED
  BY <1>2, <1>3, <1>4

\* The block on the line is the one rtbus_ymodem_recv expects.
LEMMA CalmData ==
  ASSUME Calm, RecvData, ~trouble'
  PROVE  Calm'
<1>1. /\ got_metadata /\ Got("packet") /\ rpc = "header"
      /\ ~(eot_seen /\ Head(toRecv).no = 0)
      /\ UNCHANGED <<got_metadata, eot_seen, spc, size, sent, block_no>>
  BY DEF RecvData, Got, sender
<1>2. ~Named
  BY <1>1 DEF Named
<1>3. ~(EndSent /\ Head(toRecv) = Final)
  BY <1>1 DEF EndSent, Exchange, Final, Packet
<1>4. BlockSent /\ toRecv' = <<>> /\ Head(toRecv) = Block(block_no, sent + 1)
  BY <1>1, <1>2, <1>3, CalmFrame
<1>5. /\ spc = "data_ack" /\ eot_seen = FALSE /\ toSend = <<>> /\ expected_block = block_no
      /\ got_metadata = TRUE
  BY <1>4 DEF BlockSent, Exchange, SameNo
<1>6. IsExpected(Head(toRecv))
  BY <1>4, <1>5 DEF IsExpected, Block, Packet
<1>7. toSend' = toSend \o <<"ACK">> /\ expected_block' = NextNo(expected_block) /\ rpc' = rpc
  BY <1>6 DEF RecvData, Fail, Put
<1>8. BlockKept'
  BY <1>1, <1>4, <1>5, <1>7 DEF BlockKept, Exchange, Running, NextNo
<1> QED
  BY <1>8 DEF Calm

\* The final packet is acknowledged, and the command handler's status follows.
LEMMA CalmEnd ==
  ASSUME Calm, RecvEnd, ~trouble'
  PROVE  Calm'
<1>1. /\ got_metadata /\ eot_seen /\ Got("packet")
      /\ UNCHANGED <<got_metadata, eot_seen, spc, size, sent, block_no>>
  BY DEF RecvEnd, sender
<1>2. EndSent /\ toRecv' = <<>>
  BY <1>1, CalmFrame DEF Named, BlockSent, Exchange
<1>3. rpc' = "returned" /\ toSend' = toSend \o <<"ACK">> \o <<"STAGED">>
  BY DEF RecvEnd, Fail, Return
<1>4. toSend' = <<"ACK", "STAGED">>
  <2>1. toSend = <<>> /\ <<>> \o <<"ACK">> = <<"ACK">>
    BY <1>2 DEF EndSent, Exchange
  <2>2. <<"ACK">> \o <<"STAGED">> = <<"ACK", "STAGED">>
    <3> DEFINE a == <<"ACK">>
               b == <<"STAGED">>
               c == <<"ACK", "STAGED">>
    <3>1. a \in Seq(Bytes) /\ b \in Seq(Bytes) /\ c \in Seq(Bytes) /\ Len(a) = 1 /\ Len(b) = 1
      BY DEF Bytes
    <3>2. /\ a \o b \in Seq(Bytes) /\ Len(a \o b) = 2
          /\ \A i \in 1 .. 2 : (a \o b)[i] = IF i <= 1 THEN a[i] ELSE b[i - 1]
      BY <3>1, ConcatProperties
    <3>3. \A i \in 1 .. 2 : c[i] = IF i <= 1 THEN a[i] ELSE b[i - 1]
      OBVIOUS
    <3>4. Len(c) = 2
      OBVIOUS
    <3> HIDE DEF a, b, c
    <3>5. a \o b = c
      BY <3>1, <3>2, <3>3, <3>4, SeqEqual
    <3> QED
      BY <3>5 DEF a, b, c
  <2> QED
    BY <1>3, <2>1, <2>2
<1>5. EndTaken'
  BY <1>1, <1>2, <1>3, <1>4 DEF EndTaken, EndSent, Exchange
<1> QED
  BY <1>5 DEF Calm

\* Stray bytes come from damaged frames alone.
LEMMA CalmStray ==
  ASSUME Calm
  PROVE  ~Got("junk") /\ ~Got("CAN")
BY CalmFrame

\* What one byte does to the sender: the byte it waits for moves it on, a
\* byte that is neither that one nor a fatal one is passed over.
LEMMA ByteRead ==
  ASSUME SenderRead
  PROVE  /\ toSend # <<>> /\ toSend' = Tail(toSend)
         /\ UNCHANGED <<rpc, got_metadata, eot_seen, expected_block, size>>
         /\ Head(toSend) = Awaited[spc] => Advance
         /\ Head(toSend) \notin {Awaited[spc], Fatal} =>
              UNCHANGED <<toRecv, spc, sent, block_no>>
<1>1. spc \in DOMAIN Awaited => Awaited[spc] # Fatal
  BY DEF Awaited, Fatal
<1> QED
  BY <1>1 DEF SenderRead, receiver

\* The sender waits for a C, sends the metadata and waits for its ACK.
LEMMA CalmReadName ==
  ASSUME SenderRead, Asking \/ Named \/ NameTaken
  PROVE  Calm'
<1> USE ByteRead
<1>1. CASE Asking
  <2>1. Head(toSend) = "C" /\ Tail(toSend) \in Requests /\ rpc = "header"
    BY <1>1, RequestLine DEF Asking
  <2>2. Advance
    BY <1>1, <2>1 DEF Asking, Awaited
  <2>3. toRecv' = <<Metadata>> /\ spc' = "meta_ack" /\ UNCHANGED <<sent, block_no>>
    BY <1>1, <2>2 DEF Asking, Advance, Send
  <2>4. toSend' \in Seq({"C"})
    BY <2>1 DEF Requests
  <2>5. Named'
    BY <1>1, <2>1, <2>3, <2>4 DEF Asking, Named, SameNo, Requests, Metadata, Packet
  <2> QED
    BY <2>5 DEF Calm
<1>2. CASE Named
  <2>1. Head(toSend) = "C" /\ Tail(toSend) \in Requests
    BY <1>2, RequestLine DEF Named
  <2>2. UNCHANGED <<toRecv, spc, sent, block_no>>
    BY <1>2, <2>1 DEF Named, Awaited, Fatal
  <2>3. toSend' \in Seq({"C"})
    BY <2>1 DEF Requests
  <2>4. Named'
    BY <1>2, <2>1, <2>2, <2>3 DEF Named, SameNo, Requests, Metadata, Packet
  <2> QED
    BY <2>4 DEF Calm
<1>3. CASE NameTaken
  <2>1. PICK cs \in Requests : toSend = cs \o <<"ACK", "C">>
    BY <1>3 DEF NameTaken, Exchange
  <2>2. spc = "meta_ack" /\ got_metadata = TRUE /\ eot_seen = FALSE /\ toRecv = <<>>
    BY <1>3 DEF NameTaken, Exchange
  <2>3. Running /\ SameNo
    BY <1>3 DEF NameTaken
  <2>4. CASE cs = <<>>
    <3>1. toSend = <<"ACK", "C">>
      BY <2>1, <2>4, RequestsFirst
    <3>2. Advance /\ toSend' = <<"C">>
      BY <2>2, <3>1 DEF Awaited
    <3>3. spc' = "meta_crc" /\ UNCHANGED <<toRecv, sent, block_no>>
      BY <2>2, <3>2 DEF Advance
    <3>4. Granted'
      BY <2>2, <2>3, <3>2, <3>3 DEF Granted, Exchange, Running, SameNo
    <3> QED
      BY <3>4 DEF Calm
  <2>5. CASE cs # <<>>
    <3>1. /\ Head(toSend) = "C" /\ Tail(toSend) = Tail(cs) \o <<"ACK", "C">>
          /\ Tail(cs) \in Requests
      BY <2>1, <2>5, RequestsFirst
    <3>2. UNCHANGED <<toRecv, spc, sent, block_no>>
      BY <2>2, <3>1 DEF Awaited, Fatal
    <3>3. /\ toSend' = Tail(cs) \o <<"ACK", "C">>
          /\ spc' = "meta_ack" /\ got_metadata' = TRUE /\ eot_seen' = FALSE /\ toRecv' = <<>>
      BY <2>2, <3>1, <3>2
    <3>4. \E ds \in Requests : Exchange("meta_ack", FALSE, <<>>, ds \o <<"ACK", "C">>)'
      BY <3>1, <3>3 DEF Exchange
    <3>5. Running' /\ SameNo'
      BY <2>3, <3>2 DEF Running, SameNo
    <3>6. NameTaken'
      BY <3>4, <3>5 DEF NameTaken, Requests
    <3> QED
      BY <3>6 DEF Calm
  <2> QED
    BY <2>4, <2>5
<1> QED
  BY <1>1, <1>2, <1>3

\* The sender was granted the next frame: a block, or EOT after the last.
LEMMA CalmNextBlock ==
  ASSUME NextBlock, toRecv = <<>>, toSend' = <<>>, got_metadata' = TRUE, eot_seen' = FALSE,
         Running', SameNo', UNCHANGED size
  PROVE  Calm'
<1>1. CASE sent' < size
  <2>1. toRecv' = <<Block(block_no', sent' + 1)>> /\ spc' = "data_ack"
    BY <1>1 DEF NextBlock, Send
  <2>2. BlockSent'
    BY <2>1 DEF BlockSent, Exchange, Block, Packet
  <2> QED
    BY <2>2 DEF Calm
<1>2. CASE ~(sent' < size)
  <2>1. toRecv' = <<Eot>> /\ spc' = "eot_nak"
    BY <1>2 DEF NextBlock, Send, Eot
  <2>2. EotSent'
    BY <2>1 DEF EotSent, Exchange, Eot, Stray
  <2> QED
    BY <2>2 DEF Calm
<1> QED
  BY <1>1, <1>2

\* The answer to the metadata or to a block brings the next one.
LEMMA CalmReadBlock ==
  ASSUME SenderRead, Granted \/ BlockKept
  PROVE  Calm'
<1> USE ByteRead
<1>1. CASE Granted
  <2>1. Advance /\ toSend' = <<>>
    BY <1>1 DEF Granted, Exchange, Awaited
  <2>2. NextBlock /\ UNCHANGED <<sent, block_no>>
    BY <1>1, <2>1 DEF Granted, Exchange, Advance
  <2>3. Running' /\ SameNo'
    BY <1>1, <2>2 DEF Granted, Running, SameNo
  <2> QED
    BY <1>1, <2>1, <2>2, <2>3, CalmNextBlock DEF Granted, Exchange
<1>2. CASE BlockKept
  <2>1. Advance /\ toSend' = <<>>
    BY <1>2 DEF BlockKept, Exchange, Awaited
  <2>2. NextBlock /\ block_no' = NextNo(block_no)
    BY <1>2, <2>1 DEF BlockKept, Exchange, Advance
  <2>3. Running' /\ SameNo'
    BY <1>2, <2>2 DEF BlockKept, Running, SameNo
  <2> QED
    BY <1>2, <2>1, <2>2, <2>3, CalmNextBlock DEF BlockKept, Exchange
<1> QED
  BY <1>1, <1>2

\* From the NAK to the first EOT to the receiver's status line.
LEMMA CalmReadEnd ==
  ASSUME SenderRead, EotNaked \/ EotAcked \/ EndAsked \/ EndTaken \/ Staged
  PROVE  Calm'
<1> USE ByteRead
<1>1. CASE EotNaked
  <2>1. Advance /\ toSend' = <<>>
    BY <1>1 DEF EotNaked, Exchange, Awaited
  <2>2. EotAgain'
    BY <1>1, <2>1 DEF EotNaked, EotAgain, Exchange, Advance, Send, Running, Eot, Stray
  <2> QED
    BY <2>2 DEF Calm
<1>2. CASE EotAcked
  <2>1. Advance /\ toSend' = <<"C">>
    BY <1>2 DEF EotAcked, Exchange, Awaited
  <2>2. EndAsked'
    BY <1>2, <2>1 DEF EotAcked, EndAsked, Exchange, Advance, Running
  <2> QED
    BY <2>2 DEF Calm
<1>3. CASE EndAsked
  <2>1. Advance /\ toSend' = <<>>
    BY <1>3 DEF EndAsked, Exchange, Awaited
  <2>2. EndSent'
    BY <1>3, <2>1 DEF EndAsked, EndSent, Exchange, Advance, Send, Running, Final, Packet
  <2> QED
    BY <2>2 DEF Calm
<1>4. CASE EndTaken
  <2>1. Advance /\ toSend' = <<"STAGED">>
    BY <1>4 DEF EndTaken, Exchange, Awaited
  <2>2. Staged'
    BY <1>4, <2>1 DEF EndTaken, Staged, Exchange, Advance
  <2> QED
    BY <2>2 DEF Calm
<1>5. CASE Staged
  <2>1. Advance /\ toSend' = <<>>
    BY <1>5 DEF Staged, Exchange, Awaited
  <2>2. AllDone'
    BY <1>5, <2>1 DEF Staged, AllDone, Exchange, Advance
  <2> QED
    BY <2>2 DEF Calm
<1> QED
  BY <1>1, <1>2, <1>3, <1>4, <1>5

\* Whatever byte the sender takes, the exchange goes on.
LEMMA CalmSenderRead ==
  ASSUME Calm, SenderRead
  PROVE  Calm'
<1>1. toSend # <<>>
  BY DEF SenderRead
<1>2. \/ Asking \/ Named \/ NameTaken \/ Granted \/ BlockKept
      \/ EotNaked \/ EotAcked \/ EndAsked \/ EndTaken \/ Staged
  BY <1>1 DEF Calm, BlockSent, EotSent, EotAgain, EndSent, AllDone, Exchange
<1> QED
  BY <1>2, CalmReadName, CalmReadBlock, CalmReadEnd

\* A stutter: the pattern reads nothing but the line and the two sides.
LEMMA CalmStutter ==
  ASSUME Calm, UNCHANGED <<toRecv, toSend, receiver, sender>>
  PROVE  Calm'
BY DEF Calm, Asking, Named, NameTaken, Granted, BlockSent, BlockKept, EotSent, EotNaked,
   EotAgain, EotAcked, EndAsked, EndSent, EndTaken, Staged, AllDone, Exchange, Running,
   SameNo, Requests, Metadata, Block, Final, Packet, Eot, Stray, NextNo, receiver, sender

\* Both sides start with nothing on the line, and the receiver asks first.
LEMMA LockStepInit == Init => LockStep
<1> SUFFICES ASSUME Init PROVE LockStep
  OBVIOUS
<1>1. Asking
  BY DEF Init, Asking, Requests, SameNo
<1> QED
  BY <1>1 DEF LockStep, Calm

\* Every step keeps the lock-step or is trouble.
LEMMA LockStepNext == LockStep /\ [Next]_vars => LockStep'
<1> SUFFICES ASSUME LockStep, [Next]_vars, ~trouble' PROVE Calm'
  BY DEF LockStep
<1>1. ~trouble \/ trouble' = trouble
  BY TroubleStays
<1>2. Calm
  BY <1>1 DEF LockStep
<1>3. ASSUME Receiver PROVE Calm'
  <2>1. ~RecvTimeout
    BY DEF RecvTimeout, Fail
  <2>2. ~RecvCancel /\ ~RecvJunk
    BY <1>2, CalmStray DEF RecvCancel, RecvJunk
  <2> QED
    BY <1>2, <1>3, <2>1, <2>2, CalmStart, CalmEot, CalmMetadata, CalmBegin, CalmEnd, CalmData
       DEF Receiver
<1>4. ASSUME RecvAnnounce PROVE Calm'
  BY <1>2, <1>4, CalmAnnounce
<1>5. ASSUME Sender PROVE Calm'
  BY <1>2, <1>5, CalmSenderRead DEF Sender, SenderTimeout
<1>6. ~DamageFrame /\ ~LoseAnswer
  BY DEF DamageFrame, LoseAnswer, Fault
<1>7. ASSUME UNCHANGED vars PROVE Calm'
  <2>1. UNCHANGED <<toRecv, toSend, receiver, sender>>
    BY <1>7 DEF vars
  <2> QED
    BY <1>2, <2>1, CalmStutter
<1> QED
  BY <1>3, <1>4, <1>5, <1>6, <1>7 DEF Next, Finished

\* While nothing is lost and the store works, the receiver never waits for a
\* frame and the sender for an answer with nothing on the line, whatever the sizes
\* and the bounds.
THEOREM NoDeadlyWait == Spec => []NoMutualWait
<1>1. Spec => []LockStep
  BY LockStepInit, LockStepNext, PTL DEF Spec
<1>2. LockStep => NoMutualWait
  <2> SUFFICES ASSUME Calm, toRecv = <<>>, toSend = <<>>, rpc = "header", got_metadata
               PROVE  spc \notin DOMAIN Awaited
    BY DEF LockStep, NoMutualWait
  <2>1. ~NameTaken
    BY RequestsFirst DEF NameTaken, Exchange
  <2>2. FALSE
    BY <2>1 DEF Calm, Asking, Named, Granted, BlockSent, BlockKept, EotSent, EotNaked, EotAgain,
       EotAcked, EndAsked, EndSent, EndTaken, Staged, AllDone, Exchange
  <2> QED
    BY <2>2
<1> QED
  BY <1>1, <1>2, PTL
=============================================================================
