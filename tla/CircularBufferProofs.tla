-------------------------- MODULE CircularBufferProofs --------------------------
(***************************************************************************)
(* circular-buffer.c used by one thread is a first-in first-out queue, for *)
(* a buffer of any size and any bytes: every call maps to what ByteQueue   *)
(* promises of it or leaves the queue as it is.                            *)
(***************************************************************************)
EXTENDS CircularBuffer, RingIndexProofs, SequenceTheorems

\* The indexes are in range and never more than a buffer apart: a larger
\* distance would be read as bytes that were overwritten.
IInv ==
  /\ readIndex \in Index /\ writeIndex \in Index
  /\ Used(readIndex, writeIndex) <= Size
  /\ data \in [Slots -> Byte]

-----------------------------------------------------------------------------
(* The slots of the unread bytes *)

\* What is unread is a sequence of bytes.
LEMMA ContentsType ==
  ASSUME NEW r \in Index, NEW w \in Index, Used(r, w) <= Size, NEW d \in [Slots -> Byte]
  PROVE  /\ Contents(r, w, d) \in Seq(Byte) /\ Len(Contents(r, w, d)) = Used(r, w)
         /\ Used(r, w) \in 0 .. Size
         /\ \A k \in 1 .. Used(r, w) : /\ r + k - 1 \in Nat /\ r + k - 1 < 4 * Size
                                       /\ Contents(r, w, d)[k] = d[Slot(r + k - 1)]
<1>1. Used(r, w) \in 0 .. Size
  BY UsedOf, SizeAssumption
<1>2. \A k \in 1 .. Used(r, w) : r + k - 1 \in Nat /\ r + k - 1 < 4 * Size
  BY <1>1, SizeAssumption DEF Index
<1>3. \A k \in 1 .. Used(r, w) : d[Slot(r + k - 1)] \in Byte
  BY <1>2, SlotInRange
<1>4. Contents(r, w, d) \in [1 .. Used(r, w) -> Byte]
  BY <1>3 DEF Contents
<1>5. Contents(r, w, d) \in Seq(Byte) /\ Len(Contents(r, w, d)) = Used(r, w)
  <2> DEFINE s == Contents(r, w, d)
             n == Used(r, w)
  <2>1. n \in Nat /\ s \in [1 .. n -> Byte]
    BY <1>1, <1>4
  <2> HIDE DEF s, n
  <2>2. s \in Seq(Byte) /\ Len(s) = n
    BY <2>1
  <2> QED BY <2>2 DEF s, n
<1> QED BY <1>1, <1>2, <1>5 DEF Contents

LEMMA EmptyContents ==
  ASSUME NEW r, NEW w, NEW d, Used(r, w) = 0 PROVE Contents(r, w, d) = << >>
BY DEF Contents

\* A byte that is stored inside of the room for writing hits no unread one.
LEMMA StoreIsBehind ==
  ASSUME NEW r \in Index, NEW w \in Index, Used(r, w) <= Size,
         NEW k \in Nat, k < WriteSize(r, w), NEW i \in 1 .. Used(r, w)
  PROVE  Slot(w) + k \in Slots /\ Slot(r + i - 1) # Slot(w) + k
<1>1. Used(r, w) = (IF w >= r THEN w - r ELSE w + 2 * Size - r) /\ Used(r, w) \in Nat
  BY UsedOf
<1>2. /\ Slot(r) = IF r < Size THEN r ELSE r - Size
      /\ Slot(w) = IF w < Size THEN w ELSE w - Size
  BY SlotOf
<1>3. WriteSize(r, w) = IF r = w THEN Size - Slot(w)
                        ELSE IF Slot(r) = Slot(w) THEN 0
                        ELSE IF Slot(r) > Slot(w) THEN Slot(r) - Slot(w)
                        ELSE Size - Slot(w)
  BY DEF WriteSize, WriteSizeOf
<1> DEFINE x == r + i - 1
<1>4. x \in Nat /\ x < 4 * Size
  BY <1>1, SizeAssumption DEF Index
<1>5. Slot(x) = IF x < Size THEN x
                ELSE IF x < 2 * Size THEN x - Size
                ELSE IF x < 3 * Size THEN x - 2 * Size
                ELSE x - 3 * Size
  BY <1>4, SlotOfSum
<1> QED BY <1>1, <1>2, <1>3, <1>5, SizeAssumption DEF Index, Slots

\* The index after a commit stands for the same place as the sum it is made of.
LEMMA AdvancedSlot ==
  ASSUME NEW r \in Index, NEW n \in 0 .. Size, NEW k \in 1 .. Size, n + k <= Size
  PROVE  Slot(Advance(r, n) + k - 1) = Slot(r + (k + n) - 1)
<1> DEFINE x == r + (k + n) - 1
           y == Advance(r, n) + k - 1
<1>1. r + n \in Nat /\ r + n < 4 * Size
  BY SizeAssumption DEF Index
<1>2. Advance(r, n) = IF r + n < 2 * Size THEN r + n ELSE r + n - 2 * Size
  BY <1>1, ReduceOf, SizeAssumption, SMT DEF Advance, Index
<1>3. /\ x \in Nat /\ x < 4 * Size /\ y \in Nat /\ y < 4 * Size
      /\ y = x \/ (x >= 2 * Size /\ y = x - 2 * Size)
  BY <1>2, SizeAssumption DEF Index
<1> HIDE DEF x, y
<1>4. Slot(x) = (IF x < Size THEN x
                 ELSE IF x < 2 * Size THEN x - Size
                 ELSE IF x < 3 * Size THEN x - 2 * Size
                 ELSE x - 3 * Size)
      /\ Slot(y) = (IF y < Size THEN y
                    ELSE IF y < 2 * Size THEN y - Size
                    ELSE IF y < 3 * Size THEN y - 2 * Size
                    ELSE y - 3 * Size)
  BY <1>3, SlotOfSum
<1>5. Slot(x) = Slot(y)
  BY <1>3, <1>4, SizeAssumption
<1> QED BY <1>5 DEF x, y

-----------------------------------------------------------------------------
(* The indexes stay in range *)

LEMMA SizesInRange ==
  ASSUME IInv
  PROVE  /\ WriteSize(readIndex, writeIndex) \in 0 .. Size
         /\ Used(readIndex, writeIndex) + WriteSize(readIndex, writeIndex) <= Size
         /\ ReadSize(readIndex, writeIndex) \in 0 .. Used(readIndex, writeIndex)
<1>1. Used(readIndex, writeIndex) \in 0 .. Size
  BY UsedOf, SizeAssumption DEF IInv
<1>2. /\ WriteSize(readIndex, writeIndex) \in 0 .. Size
      /\ WriteSize(readIndex, writeIndex) <= Free(readIndex, writeIndex)
  BY <1>1, WriteRoom DEF IInv, WriteSize
<1>3. /\ ReadSize(readIndex, writeIndex) \in 0 .. Size
      /\ Used(readIndex, writeIndex) > 0 =>
           ReadSize(readIndex, writeIndex) <= Used(readIndex, writeIndex)
      /\ ReadSize(readIndex, writeIndex) > 0 => Used(readIndex, writeIndex) > 0
  BY <1>1, ReadPiece DEF IInv, ReadSize
<1> QED BY <1>1, <1>2, <1>3, SizeAssumption DEF Free

\* The two passes of flush_thread empty the buffer.
LEMMA FlushDrains ==
  ASSUME IInv, FlushThread
  PROVE  readIndex' \in Index /\ Used(readIndex', writeIndex) = 0
<1> DEFINE r1 == Pass(readIndex)
           r2 == Pass(r1)
<1>1. Used(r2, writeIndex) = 0
  BY TwoPassesDrain DEF IInv, Pass
<1>2. \A i \in Index, n \in 0 .. Size : Advance(i, n) \in Index
  <2> SUFFICES ASSUME NEW i \in Index, NEW n \in 0 .. Size PROVE Advance(i, n) \in Index
    OBVIOUS
  <2>1. i + n \in Nat /\ i + n < 4 * Size
    BY SizeAssumption DEF Index
  <2>2. Advance(i, n) = IF i + n < 2 * Size THEN i + n ELSE i + n - 2 * Size
    BY <2>1, ReduceOf, SizeAssumption, SMT DEF Advance, Index
  <2> QED BY <2>2, SizeAssumption DEF Index
<1>3. \A i \in Index : ReadSize(i, writeIndex) \in 0 .. Size
  <2> TAKE i \in Index
  <2>1. /\ Slot(i) = IF i < Size THEN i ELSE i - Size
        /\ Slot(writeIndex) = IF writeIndex < Size THEN writeIndex ELSE writeIndex - Size
    BY SlotOf DEF IInv
  <2> QED BY <2>1, SizeAssumption DEF IInv, Index, ReadSize, ReadSizeOf
<1>4. r1 \in Index /\ r2 \in Index
  BY <1>2, <1>3 DEF IInv, Pass
<1> QED BY <1>1, <1>4 DEF FlushThread

LEMMA InitInvariant == ASSUME Init PROVE IInv /\ Used(readIndex, writeIndex) = 0
<1>1. 0 \in Index
  BY SizeAssumption DEF Index
<1>2. Used(0, 0) = 0
  BY <1>1, UsedOf
<1> QED BY <1>1, <1>2, SizeAssumption DEF Init, IInv

\* What a call does to the unread bytes and to the invariant.
Queued == Contents(readIndex, writeIndex, data)
Step   == IInv' /\ [Queue!Next]_Queued

LEMMA InitializeStep == ASSUME IInv, Initialize PROVE Step
<1>1. 0 \in Index
  BY SizeAssumption DEF Index
<1>2. Used(0, 0) = 0
  BY <1>1, UsedOf
<1>3. IInv'
  BY <1>1, <1>2, SizeAssumption DEF IInv, Initialize
<1>4. Queued' = << >>
  BY <1>2, EmptyContents DEF Initialize, Queued
<1> QED BY <1>3, <1>4 DEF Step, Queue!Next, Queue!Clear, Queued

\* A byte that is stored is not one of the queue before it is committed.
LEMMA StoreStep ==
  ASSUME IInv, NEW k \in Slots, NEW b \in Byte, Store(k, b) PROVE Step
<1> DEFINE u == Used(readIndex, writeIndex)
<1>1. k \in Nat /\ \A i \in 1 .. u : Slot(readIndex + i - 1) # Slot(writeIndex) + k
  BY StoreIsBehind DEF IInv, Store, Slots
<1>2. \A i \in 1 .. u : Slot(readIndex + i - 1) \in Slots
  BY ContentsType, SlotInRange DEF IInv
<1>3. IInv'
  BY DEF IInv, Store
<1>4. \A i \in 1 .. u : data'[Slot(readIndex + i - 1)] = data[Slot(readIndex + i - 1)]
  BY <1>1, <1>2 DEF Store, IInv
<1>5. Queued' = Queued
  <2>1. Queued' = [i \in 1 .. u |-> data'[Slot(readIndex + i - 1)]]
    BY DEF Queued, Contents, Store
  <2>2. Queued = [i \in 1 .. u |-> data[Slot(readIndex + i - 1)]]
    BY DEF Queued, Contents
  <2> QED BY <1>4, <2>1, <2>2
<1> QED BY <1>3, <1>5 DEF Step

\* A commit that is accepted puts what was stored behind the queue.
LEMMA CommitWriteStep ==
  ASSUME IInv, NEW n \in 1 .. Size + 1, CommitWrite(n) PROVE Step
<1> DEFINE u == Used(readIndex, writeIndex)
<1>1. CASE UNCHANGED vars
  BY <1>1 DEF vars, Step, IInv, Queued
<1>2. CASE WriteSize(readIndex, writeIndex) >= n /\ writeIndex' = Advance(writeIndex, n)
           /\ UNCHANGED << readIndex, data >>
  <2>1. u \in Nat /\ n \in 1 .. Size - u
    BY <1>2, SizesInRange, UsedOf, SizeAssumption DEF IInv
  <2>2. writeIndex' \in Index /\ Used(readIndex', writeIndex') = u + n
    BY <1>2, <2>1, AdvanceWrite, SizeAssumption DEF IInv
  <2>3. IInv'
    BY <1>2, <2>1, <2>2, SizeAssumption DEF IInv
  <2> DEFINE s == [i \in 1 .. n |-> Queued'[u + i]]
  <2>4. Queued \in Seq(Byte) /\ Len(Queued) = u
    BY ContentsType DEF IInv, Queued
  <2>5. Queued' \in Seq(Byte) /\ Len(Queued') = u + n
    BY <2>2, <2>3, ContentsType DEF IInv, Queued
  <2>6. \A i \in 1 .. u : Queued'[i] = Queued[i]
    <3>1. Queued' = [i \in 1 .. u + n |-> data[Slot(readIndex + i - 1)]]
      BY <1>2, <2>2 DEF Queued, Contents
    <3>2. Queued = [i \in 1 .. u |-> data[Slot(readIndex + i - 1)]]
      BY DEF Queued, Contents
    <3> QED BY <2>1, <3>1, <3>2
  <2> HIDE DEF u
  <2>7. s \in [1 .. n -> Byte] /\ Queued' = Queued \o s
    <3>1. PICK q : q = Queued'
      OBVIOUS
    <3>2. \A i \in 1 .. n : q[u + i] \in Byte
      BY <2>1, <2>5, <3>1, ElementOfSeq
    <3>3. s \in [1 .. n -> Byte] /\ s \in Seq(Byte) /\ Len(s) = n
      BY <2>1, <3>1, <3>2
    <3> HIDE DEF s
    <3>4. /\ Queued \o s \in Seq(Byte) /\ Len(Queued \o s) = u + n
          /\ \A i \in 1 .. u + n :
               (Queued \o s)[i] = IF i <= u THEN Queued[i] ELSE s[i - u]
      BY <2>1, <2>4, <3>3, ConcatProperties
    <3>5. \A i \in 1 .. n : s[i] = q[u + i]
      BY <3>1 DEF s
    <3>6. \A i \in 1 .. u + n : q[i] = (Queued \o s)[i]
      <4> TAKE i \in 1 .. u + n
      <4>1. CASE i <= u
        BY <2>1, <2>6, <3>1, <3>4, <4>1
      <4>2. CASE ~(i <= u)
        <5>1. i - u \in 1 .. n /\ u + (i - u) = i
          BY <2>1, <4>2
        <5>2. (Queued \o s)[i] = s[i - u]
          BY <2>1, <3>4, <4>2
        <5> QED BY <3>5, <5>1, <5>2
      <4> QED BY <4>1, <4>2, Zenon
    <3>7. q = Queued \o s
      BY <2>1, <2>5, <3>1, <3>4, <3>6, SeqEqual
    <3> QED BY <3>1, <3>3, <3>7
  <2> HIDE DEF s
  <2>8. Queue!Put
    BY <2>1, <2>4, <2>7 DEF Queue!Put, Queued
  <2> QED BY <2>3, <2>8 DEF Step, Queue!Next
<1> QED BY <1>1, <1>2 DEF CommitWrite

\* A commit that is accepted takes the bytes at the front.
LEMMA CommitReadStep ==
  ASSUME IInv, NEW n \in 1 .. Size + 1, CommitRead(n) PROVE Step
<1> DEFINE u == Used(readIndex, writeIndex)
<1>1. CASE UNCHANGED vars
  BY <1>1 DEF vars, Step, IInv, Queued
<1>2. CASE ReadSize(readIndex, writeIndex) >= n /\ readIndex' = Advance(readIndex, n)
           /\ UNCHANGED << writeIndex, data >>
  <2>1. u \in Nat /\ u <= Size /\ n \in 1 .. u
    BY <1>2, SizesInRange, UsedOf, SizeAssumption DEF IInv
  <2>2. readIndex' \in Index /\ Used(readIndex', writeIndex') = u - n
    BY <1>2, <2>1, AdvanceRead, SizeAssumption DEF IInv
  <2>3. IInv'
    BY <1>2, <2>1, <2>2, SizeAssumption DEF IInv
  <2>4. Queued \in Seq(Byte) /\ Len(Queued) = u
    BY ContentsType DEF IInv, Queued
  <2>5. Queued' \in Seq(Byte) /\ Len(Queued') = u - n
    BY <2>2, <2>3, ContentsType DEF IInv, Queued
  <2>6. \A i \in 1 .. u - n : Queued'[i] = Queued[i + n]
    <3>1. Queued' = [i \in 1 .. u - n |-> data[Slot(Advance(readIndex, n) + i - 1)]]
      BY <1>2, <2>2 DEF Queued, Contents
    <3>2. Queued = [i \in 1 .. u |-> data[Slot(readIndex + i - 1)]]
      BY DEF Queued, Contents
    <3> HIDE DEF u
    <3> TAKE i \in 1 .. u - n
    <3>3. i + n \in 1 .. u /\ n \in 0 .. Size /\ i \in 1 .. Size /\ n + i <= Size
      BY <2>1, SizeAssumption
    <3>4. Slot(Advance(readIndex, n) + i - 1) = Slot(readIndex + (i + n) - 1)
      BY <3>3, AdvancedSlot DEF IInv
    <3> QED BY <3>1, <3>2, <3>3, <3>4
  <2> HIDE DEF u
  <2>7. Queued' = SubSeq(Queued, n + 1, u)
    <3>1. PICK q : q = Queued'
      OBVIOUS
    <3> DEFINE r == SubSeq(Queued, n + 1, u)
    <3>2. /\ r \in Seq(Byte) /\ Len(r) = IF n + 1 <= u THEN u - (n + 1) + 1 ELSE 0
          /\ \A i \in 1 .. u - (n + 1) + 1 : r[i] = Queued[n + 1 + i - 1]
      BY <2>1, <2>4, SubSeqProperties
    <3> HIDE DEF r
    <3>3. Len(r) = u - n /\ \A i \in 1 .. u - n : r[i] = Queued[i + n]
      BY <2>1, <3>2
    <3>4. q = r
      BY <2>1, <2>5, <2>6, <3>1, <3>2, <3>3, SeqEqual
    <3> QED BY <3>1, <3>4 DEF r
  <2>8. Queue!Get
    BY <2>1, <2>4, <2>7 DEF Queue!Get, Queued
  <2> QED BY <2>3, <2>8 DEF Step, Queue!Next
<1> QED BY <1>1, <1>2 DEF CommitRead

LEMMA FlushThreadStep == ASSUME IInv, FlushThread PROVE Step
<1>1. readIndex' \in Index /\ Used(readIndex', writeIndex') = 0 /\ UNCHANGED << writeIndex, data >>
  BY FlushDrains DEF FlushThread
<1>2. IInv'
  BY <1>1, SizeAssumption DEF IInv
<1>3. Queued' = << >>
  BY <1>1, EmptyContents DEF Queued
<1> QED BY <1>2, <1>3 DEF Step, Queue!Next, Queue!Clear, Queued

LEMMA NextStep == ASSUME IInv, [Next]_vars PROVE Step
<1>1. CASE UNCHANGED vars
  BY <1>1 DEF vars, Step, IInv, Queued
<1> QED BY <1>1, InitializeStep, StoreStep, CommitWriteStep, CommitReadStep, FlushThreadStep
        DEF Next

-----------------------------------------------------------------------------
\* The indexes never lie further apart than a buffer.
THEOREM Invariance == Spec => []IInv
<1>1. ASSUME IInv, [Next]_vars PROVE IInv'
  BY <1>1, NextStep DEF Step
<1> QED BY <1>1, InitInvariant, PTL DEF Spec

\* circular-buffer.c implements the queue: bytes come out in the order in which
\* they went in, none is lost, repeated or overwritten, and a commit of too much
\* changes nothing.
THEOREM BufferIsAQueue == Spec => ImplementsQueue
<1>1. Init => Queue!Init
  BY InitInvariant, EmptyContents DEF Queue!Init
<1>2. IInv /\ [Next]_vars => [Queue!Next]_Queued
  BY NextStep DEF Step
<1> QED BY <1>1, <1>2, Invariance, PTL DEF Spec, ImplementsQueue, Queue!Spec, Queued
================================================================================
