-------------------------- MODULE SharedBufferProofs --------------------------
(***************************************************************************)
(* The safety of the shared buffer for every buffer size, every length of  *)
(* data and every byte, with the two loads and the two stores of each      *)
(* index.  Local says what each side may rely on by itself; Sound says     *)
(* what it may conclude from the other side's index it has loaded: that    *)
(* index only moves on, so the writer may believe less room than there is  *)
(* and the reader, once it has seen bytes, fewer of them.                  *)
(***************************************************************************)
EXTENDS SharedBuffer, RingIndexProofs, SequenceTheorems

-----------------------------------------------------------------------------
(* Indexes between their two stores: 2*Size stands for 0 *)

LEMMA RawReduce ==
  ASSUME NEW x \in Raw
  PROVE  /\ Reduce(x) = IF x < 2 * Size THEN x ELSE 0
         /\ Reduce(x) \in Index
         /\ Slot(x) = IF x < Size THEN x ELSE IF x < 2 * Size THEN x - Size ELSE 0
         /\ Slot(x) \in Slots
         /\ Slot(Reduce(x)) = Slot(x)
<1>1. x \in Nat /\ x < 4 * Size /\ x =< 2 * Size
  BY SizeAssumption DEF Raw
<1>2. Reduce(x) = IF x < 2 * Size THEN x ELSE x - 2 * Size
  BY <1>1, ReduceOf
<1>3. Reduce(x) = (IF x < 2 * Size THEN x ELSE 0) /\ Reduce(x) \in Index
  BY <1>1, <1>2, SizeAssumption DEF Index
<1>4. Slot(x) = IF x < Size THEN x ELSE IF x < 2 * Size THEN x - Size ELSE 0
  BY <1>1, SlotOfSum, SizeAssumption
<1>5. Slot(Reduce(x)) = IF Reduce(x) < Size THEN Reduce(x) ELSE Reduce(x) - Size
  BY <1>3, SlotOf
<1>6. QED
  BY <1>1, <1>3, <1>4, <1>5, SizeAssumption DEF Slots

LEMMA RawUsed ==
  ASSUME NEW r \in Raw, NEW w \in Raw
  PROVE  /\ Used(r, w) = IF Reduce(w) >= Reduce(r) THEN Reduce(w) - Reduce(r)
                         ELSE Reduce(w) + 2 * Size - Reduce(r)
         /\ Used(r, w) \in 0 .. 2 * Size - 1
         /\ Used(Reduce(r), w) = Used(r, w)
         /\ Used(r, Reduce(w)) = Used(r, w)
<1>1. /\ Reduce(r) \in Index /\ Reduce(w) \in Index
      /\ Reduce(Reduce(r)) = Reduce(r) /\ Reduce(Reduce(w)) = Reduce(w)
  <2>1. Reduce(r) \in Index /\ Reduce(w) \in Index
    BY RawReduce
  <2>2. \A i \in Index : i \in Raw /\ i < 2 * Size
    BY SizeAssumption DEF Index, Raw
  <2>3. QED
    BY <2>1, <2>2, RawReduce
<1>2. QED
  BY <1>1, SizeAssumption DEF Used, Index

\* get_write_size, whatever was loaded: the room it reports is in one piece.
LEMMA WriteRoomLocal ==
  ASSUME NEW s \in Raw, NEW r \in Raw, NEW w \in Index
  PROVE  LET left == WriteSizeOf(Slot(s), r, w)
         IN  left \in 0 .. Size /\ Slot(w) + left =< Size
<1>1. Slot(s) \in Slots /\ Slot(w) \in Slots
  BY RawReduce, SlotOf, SizeAssumption DEF Slots, Index
<1>2. QED
  BY <1>1, SizeAssumption DEF WriteSizeOf, Slots

\* get_write_size with a read index that moves from s to r between its loads:
\* the room is free, and all there is unless r is between its two stores.
LEMMA WriteRoomRaw ==
  ASSUME NEW s \in Raw, NEW r \in Raw, NEW w \in Index,
         Used(s, w) =< Size, Used(r, w) =< Used(s, w)
  PROVE  LET left == WriteSizeOf(Slot(s), r, w)
         IN  /\ left =< Free(r, w)
             /\ \/ r = 2 * Size /\ w = 0
                \/ \A n \in Nat : n =< Free(s, w) /\ Slot(w) + n =< Size => n =< left
<1>1. /\ Slot(s) = IF s < Size THEN s ELSE IF s < 2 * Size THEN s - Size ELSE 0
      /\ Slot(w) = IF w < Size THEN w ELSE w - Size
  BY RawReduce, SlotOf
<1>2. w \in Raw /\ Reduce(w) = w
  BY RawReduce, SizeAssumption DEF Index, Raw
<1>3. /\ Reduce(s) = IF s < 2 * Size THEN s ELSE 0
      /\ Reduce(r) = IF r < 2 * Size THEN r ELSE 0
  BY RawReduce
<1>4. /\ Used(s, w) = IF w >= Reduce(s) THEN w - Reduce(s) ELSE w + 2 * Size - Reduce(s)
      /\ Used(r, w) = IF w >= Reduce(r) THEN w - Reduce(r) ELSE w + 2 * Size - Reduce(r)
  BY <1>2, RawUsed
<1>5. QED
  BY <1>1, <1>3, <1>4, SizeAssumption, SMT DEF WriteSizeOf, Free, Index, Raw

\* get_read_size, whatever was loaded: the piece never leaves data[].
LEMMA ReadPieceLocal ==
  ASSUME NEW r \in Index, NEW s \in Raw, NEW w \in Raw
  PROVE  LET left == ReadSizeOf(Slot(s), w, r)
         IN  left \in 0 .. Size /\ Slot(r) + left =< Size
<1>1. Slot(s) \in Slots /\ Slot(r) \in Slots
  BY RawReduce, SlotOf, SizeAssumption DEF Slots, Index
<1>2. QED
  BY <1>1, SizeAssumption DEF ReadSizeOf, Slots

\* get_read_size with a write index that moves from s to w between its loads.
\* If the first load already saw bytes, the piece is made of bytes seen then,
\* and it is all of them or reaches the end of data[].
LEMMA ReadPieceRaw ==
  ASSUME NEW r \in Index, NEW s \in Raw, NEW w \in Raw,
         Used(r, w) =< Size, Used(r, s) =< Used(r, w)
  PROVE  LET left == ReadSizeOf(Slot(s), w, r)
         IN  /\ left > 0 => Used(r, w) > 0 \/ (r = 0 /\ w = 2 * Size)
             /\ Used(r, s) > 0 =>
                  /\ left > 0 /\ left =< Used(r, s)
                  /\ left = Used(r, s) \/ Slot(r) + left = Size
                  /\ \A n \in Nat : n =< Used(r, s) /\ Slot(r) + n =< Size
                                      => n =< left
<1>1. /\ Slot(s) = IF s < Size THEN s ELSE IF s < 2 * Size THEN s - Size ELSE 0
      /\ Slot(r) = IF r < Size THEN r ELSE r - Size
  BY RawReduce, SlotOf
<1>2. r \in Raw /\ Reduce(r) = r
  BY RawReduce, SizeAssumption DEF Index, Raw
<1>3. /\ Reduce(s) = IF s < 2 * Size THEN s ELSE 0
      /\ Reduce(w) = IF w < 2 * Size THEN w ELSE 0
  BY RawReduce
<1>4. /\ Used(r, s) = IF Reduce(s) >= r THEN Reduce(s) - r ELSE Reduce(s) + 2 * Size - r
      /\ Used(r, w) = IF Reduce(w) >= r THEN Reduce(w) - r ELSE Reduce(w) + 2 * Size - r
  BY <1>2, RawUsed
<1>5. QED
  BY <1>1, <1>3, <1>4, SizeAssumption, SMT DEF ReadSizeOf, Index, Raw

\* The first store of a commit: the index goes to the end of data[] at most.
LEMMA GrowIndex ==
  ASSUME NEW i \in Index, NEW n \in Nat, Slot(i) + n =< Size
  PROVE  /\ i + n \in Raw
         /\ Slot(i) + n = Size => Slot(i + n) = 0
<1>1. Slot(i) = IF i < Size THEN i ELSE i - Size
  BY SlotOf
<1>2. i + n \in Raw
  BY <1>1, SizeAssumption DEF Index, Raw
<1>3. \A x \in Raw : Slot(x) = IF x < Size THEN x
                             ELSE IF x < 2 * Size THEN x - Size ELSE 0
  BY RawReduce
<1>4. QED
  BY <1>1, <1>2, <1>3, SizeAssumption DEF Index

LEMMA GrowWrite ==
  ASSUME NEW r \in Raw, NEW w \in Index, NEW n \in Nat,
         Slot(w) + n =< Size, Used(r, w) + n =< Size
  PROVE  Used(r, w + n) = Used(r, w) + n
<1>1. w \in Raw /\ w + n \in Raw
  BY GrowIndex, SizeAssumption DEF Index, Raw
<1>2. /\ Reduce(w) = IF w < 2 * Size THEN w ELSE 0
      /\ Reduce(w + n) = IF w + n < 2 * Size THEN w + n ELSE 0
      /\ Reduce(r) \in Index
  BY <1>1, RawReduce
<1>3. /\ Used(r, w) = IF Reduce(w) >= Reduce(r) THEN Reduce(w) - Reduce(r)
                      ELSE Reduce(w) + 2 * Size - Reduce(r)
      /\ Used(r, w + n) = IF Reduce(w + n) >= Reduce(r) THEN Reduce(w + n) - Reduce(r)
                          ELSE Reduce(w + n) + 2 * Size - Reduce(r)
  BY <1>1, RawUsed
<1>4. QED
  BY <1>1, <1>2, <1>3, SizeAssumption, SMT DEF Index, Raw

LEMMA GrowRead ==
  ASSUME NEW r \in Index, NEW w \in Raw, NEW n \in Nat,
         Slot(r) + n =< Size, n =< Used(r, w), Used(r, w) =< Size
  PROVE  Used(r + n, w) = Used(r, w) - n
<1>1. r \in Raw /\ r + n \in Raw
  BY GrowIndex, SizeAssumption DEF Index, Raw
<1>2. /\ Reduce(r) = IF r < 2 * Size THEN r ELSE 0
      /\ Reduce(r + n) = IF r + n < 2 * Size THEN r + n ELSE 0
      /\ Reduce(w) \in Index
  BY <1>1, RawReduce
<1>3. /\ Used(r, w) = IF Reduce(w) >= Reduce(r) THEN Reduce(w) - Reduce(r)
                      ELSE Reduce(w) + 2 * Size - Reduce(r)
      /\ Used(r + n, w) = IF Reduce(w) >= Reduce(r + n) THEN Reduce(w) - Reduce(r + n)
                          ELSE Reduce(w) + 2 * Size - Reduce(r + n)
  BY <1>1, RawUsed
<1>4. QED
  BY <1>1, <1>2, <1>3, SizeAssumption, SMT DEF Index, Raw

\* The slot k places behind an index, in both halves of its range.
LEMMA SlotFrom ==
  ASSUME NEW i \in Raw, NEW k \in 0 .. Size
  PROVE  /\ Slot(i + k) = IF Slot(i) + k < Size THEN Slot(i) + k ELSE Slot(i) + k - Size
         /\ Slot(i + k) \in Slots
         /\ Slot(Reduce(i) + k) = Slot(i + k)
<1>1. /\ Slot(i) = IF i < Size THEN i ELSE IF i < 2 * Size THEN i - Size ELSE 0
      /\ Reduce(i) = IF i < 2 * Size THEN i ELSE 0
  BY RawReduce
<1>2. \A x \in Nat : x < 4 * Size =>
        Slot(x) = IF x < Size THEN x
                  ELSE IF x < 2 * Size THEN x - Size
                  ELSE IF x < 3 * Size THEN x - 2 * Size
                  ELSE x - 3 * Size
  BY SlotOfSum
<1>3. i + k \in Nat /\ i + k < 4 * Size /\ Reduce(i) + k \in Nat /\ Reduce(i) + k < 4 * Size
  BY <1>1, SizeAssumption DEF Raw
<1>4. QED
  BY <1>1, <1>2, <1>3, SizeAssumption DEF Raw, Slots

-----------------------------------------------------------------------------
(* What the two queries may conclude *)

\* Between them these say that the state is made of bounded integers.
LEMMA Bounds ==
  ASSUME Local
  PROVE  /\ readIndex \in Raw /\ writeIndex \in Raw
         /\ wseen \in Raw /\ rseen \in Raw
         /\ wpc # "reduce" => writeIndex \in Index
         /\ rpc # "reduce" => readIndex \in Index
         /\ wto \in 0 .. Size /\ rto \in 0 .. Size /\ wdone \in 0 .. Size
         /\ owed \in Nat /\ wsize \in 0 .. MaxWrite
         /\ Slot(readIndex) \in Slots /\ Slot(writeIndex) \in Slots
         /\ Used(readIndex, writeIndex) \in 0 .. 2 * Size - 1
         /\ Used(wseen, writeIndex) \in 0 .. 2 * Size - 1
         /\ Used(readIndex, rseen) \in 0 .. 2 * Size - 1
         /\ sent \in Seq(Byte) /\ Len(sent) \in 0 .. Size
         /\ data \in [Slots -> Byte]
<1>1. TypeOK /\ IndexOK
  BY DEF Local
<1>2. /\ readIndex \in Raw /\ writeIndex \in Raw
      /\ wseen \in Raw /\ rseen \in Raw
  BY <1>1 DEF TypeOK
<1>3. /\ Slot(readIndex) \in Slots /\ Slot(writeIndex) \in Slots
      /\ Used(readIndex, writeIndex) \in 0 .. 2 * Size - 1
      /\ Used(wseen, writeIndex) \in 0 .. 2 * Size - 1
      /\ Used(readIndex, rseen) \in 0 .. 2 * Size - 1
  BY <1>2, RawReduce, RawUsed
<1>4. sent \in Seq(Byte) /\ Len(sent) \in 0 .. Size
  BY <1>1, SizeAssumption DEF TypeOK
<1>5. QED
  BY <1>1, <1>2, <1>3, <1>4 DEF TypeOK, IndexOK

\* What the writer computes from the index it has loaded is room it may use.
LEMMA WriteLeftIsFree ==
  ASSUME IInv, wpc \in {"second_load", "commit_second_load"}
  PROVE  /\ WriteLeft \in 0 .. Size
         /\ Slot(writeIndex) + WriteLeft =< Size
         /\ ~strayed =>
              /\ WriteLeft =< Free(readIndex, writeIndex)
              /\ \/ readIndex = 2 * Size /\ writeIndex = 0
                 \/ \A n \in Nat : n =< Free(wseen, writeIndex) /\ Slot(writeIndex) + n =< Size
                                  => n =< WriteLeft
<1>1. /\ wseen \in Raw /\ readIndex \in Raw /\ writeIndex \in Index
  BY Bounds DEF IInv
<1>2. ~strayed => /\ Used(wseen, writeIndex) =< Size
                  /\ Used(readIndex, writeIndex) =< Used(wseen, writeIndex)
  BY DEF IInv, Sound, RoomSeen
<1>3. WriteLeft \in 0 .. Size /\ Slot(writeIndex) + WriteLeft =< Size
  BY <1>1, WriteRoomLocal DEF WriteLeft
<1>4. QED
  BY <1>1, <1>2, <1>3, WriteRoomRaw DEF WriteLeft

\* What the reader computes is a piece of data[], and one of committed bytes
\* if its first load saw any.
LEMMA ReadLeftIsPiece ==
  ASSUME IInv, rpc \in {"second_load", "commit_second_load"}
  PROVE  /\ ReadLeft \in 0 .. Size
         /\ Slot(readIndex) + ReadLeft =< Size
         /\ ~strayed =>
              /\ ReadLeft > 0 => Used(readIndex, writeIndex) > 0 \/ BetweenStores
              /\ Used(readIndex, rseen) > 0 =>
                   /\ ReadLeft > 0 /\ ReadLeft =< Used(readIndex, rseen)
                   /\ ReadLeft = Used(readIndex, rseen) \/ Slot(readIndex) + ReadLeft = Size
                   /\ \A n \in Nat : n =< Used(readIndex, rseen) /\ Slot(readIndex) + n =< Size
                                       => n =< ReadLeft
<1>1. rseen \in Raw /\ readIndex \in Index /\ writeIndex \in Raw
  BY Bounds DEF IInv
<1>2. ~strayed => /\ Used(readIndex, writeIndex) =< Size
                  /\ Used(readIndex, rseen) =< Used(readIndex, writeIndex)
  BY DEF IInv, Sound, RoomSeen, DataSeen
<1>3. ReadLeft \in 0 .. Size /\ Slot(readIndex) + ReadLeft =< Size
  BY <1>1, ReadPieceLocal DEF ReadLeft
<1>4. QED
  BY <1>1, <1>2, <1>3, ReadPieceRaw DEF ReadLeft, BetweenStores

\* Between the two stores of the write index an empty buffer is empty.
LEMMA BetweenIsEmpty == BetweenStores => Used(readIndex, writeIndex) = 0
<1>1. 0 \in Raw /\ 2 * Size \in Raw
  BY SizeAssumption DEF Raw
<1>2. Reduce(0) = 0 /\ Reduce(2 * Size) = 0
  BY <1>1, RawReduce, SizeAssumption
<1>3. Used(0, 2 * Size) = 0
  BY <1>2 DEF Used
<1>4. QED
  BY <1>3 DEF BetweenStores

LEMMA NothingSent == << >> \in Seq(Byte) /\ Len(<< >>) = 0
OBVIOUS

LEMMA InitIInv == Init => IInv
<1> SUFFICES ASSUME Init PROVE IInv
  OBVIOUS
<1>1. 0 \in Index /\ 0 \in Raw
  BY SizeAssumption DEF Index, Raw
<1>2. Used(0, 0) = 0
  BY <1>1, UsedOf
<1>3. TypeOK
  <2>2. sent \in Seq(Byte) /\ Len(sent) =< Size
    BY NothingSent, SizeAssumption DEF Init
  <2>3. blind \in BOOLEAN /\ phantom \in BOOLEAN /\ strayed \in BOOLEAN
    BY DEF Init
  <2>4. /\ wpc \in Holding \cup {"idle", "first_load", "second_load", "reduce"}
        /\ rpc \in Taking \cup {"idle", "first_load", "second_load", "reduce"}
    BY DEF Init
  <2>5. 0 \in 0 .. MaxWrite /\ 0 \in 0 .. Size /\ 0 \in 0 .. 2 * Size
    BY SizeAssumption, MaxWriteAssumption
  <2>6. QED
    BY <1>1, <2>2, <2>3, <2>4, <2>5 DEF Init, TypeOK
<1>4. IndexOK /\ WriterHolds /\ ReaderTakes
  BY <1>1 DEF Init, IndexOK, WriterHolds, ReaderTakes, Holding, Taking
<1>5. Sound
  BY <1>2, SizeAssumption
  DEF Init, Sound, RoomSeen, DataSeen, Owing, SentFront, Holding, Taking
<1>6. QED
  BY <1>3, <1>4, <1>5 DEF IInv, Local

-----------------------------------------------------------------------------
(* The steps of the writer *)

LEMMA StartWriteStep ==
  ASSUME IInv, NEW n \in 1 .. MaxWrite, StartWrite(n)
  PROVE  IInv'
<1> USE DEF Holding, Taking
<1>1. Local'
  BY MaxWriteAssumption
  DEF IInv, Local, TypeOK, IndexOK, WriterHolds, ReaderTakes, StartWrite, buffer, reader
<1>2. ~strayed' => Sound'
  BY DEF IInv, Sound, RoomSeen, DataSeen, Owing, SentFront, StartWrite, buffer, reader
<1>3. QED
  BY <1>1, <1>2 DEF IInv

LEMMA LoadReadIndexStep ==
  ASSUME IInv,
         \/ LoadReadIndex("first_load", "second_load")
         \/ LoadReadIndex("commit_first_load", "commit_second_load")
  PROVE  IInv'
<1> USE DEF Holding, Taking
<1>1. Local'
  BY DEF IInv, Local, TypeOK, IndexOK, WriterHolds, ReaderTakes, LoadReadIndex, buffer, reader
<1>2. ~strayed' => RoomSeen'
  BY Bounds, SizeAssumption DEF IInv, Sound, RoomSeen, LoadReadIndex, buffer, reader
<1>3. ~strayed' => DataSeen' /\ Owing' /\ SentFront'
  BY DEF IInv, Sound, DataSeen, Owing, SentFront, LoadReadIndex, buffer, reader
<1>4. QED
  BY <1>1, <1>2, <1>3 DEF IInv, Sound

LEMMA NoSpaceStep ==
  ASSUME IInv, NoSpace
  PROVE  IInv'
<1> USE DEF Holding, Taking
<1>1. Local'
  BY DEF IInv, Local, TypeOK, IndexOK, WriterHolds, ReaderTakes, NoSpace, buffer, reader
<1>2. ~strayed' => Sound'
  BY DEF IInv, Sound, RoomSeen, DataSeen, Owing, SentFront, NoSpace, buffer, reader
<1>3. QED
  BY <1>1, <1>2 DEF IInv

LEMMA FindSpaceStep ==
  ASSUME IInv, FindSpace
  PROVE  IInv'
<1> USE DEF Holding, Taking
<1>1. /\ WriteLeft \in 0 .. Size
      /\ Slot(writeIndex) + WriteLeft =< Size
      /\ ~strayed => WriteLeft =< Free(readIndex, writeIndex)
      /\ WriteLeft > 0
  BY WriteLeftIsFree DEF FindSpace
<1>2. wsize > 0 /\ wsize \in Nat /\ Slot(writeIndex) \in Nat
      /\ Used(readIndex, writeIndex) \in Nat
  BY Bounds, SizeAssumption DEF IInv, Local, WriterHolds, FindSpace, Slots
<1>3. wto' \in 1 .. Size /\ wto' =< WriteLeft /\ wto' =< wsize /\ wdone' = 0
  BY <1>1, <1>2, SizeAssumption DEF FindSpace, Least
<1>4. TypeOK' /\ IndexOK' /\ ReaderTakes'
  BY <1>3, SizeAssumption
  DEF IInv, Local, TypeOK, IndexOK, ReaderTakes, FindSpace, buffer, reader
<1>5. WriterHolds'
  BY <1>1, <1>2, <1>3, SizeAssumption DEF WriterHolds, FindSpace, buffer, reader
<1>6. ~strayed' => RoomSeen'
  BY <1>1, <1>2, <1>3, SizeAssumption
  DEF IInv, Sound, RoomSeen, FindSpace, buffer, reader, Free
<1>7. ~strayed' => DataSeen' /\ Owing' /\ SentFront'
  BY DEF IInv, Sound, DataSeen, Owing, SentFront, FindSpace, buffer, reader
<1>8. QED
  BY <1>4, <1>5, <1>6, <1>7 DEF IInv, Local, Sound

\* memcpy touches no unread byte.
LEMMA CopyAvoidsUnread ==
  ASSUME IInv, ~strayed, NEW b \in Byte, CopyByte(b), NEW k \in 1 .. Used(readIndex, writeIndex)
  PROVE  /\ Slot(readIndex + k - 1) \in Slots
         /\ data'[Slot(readIndex + k - 1)] = data[Slot(readIndex + k - 1)]
<1> DEFINE r == readIndex
           w == writeIndex
<1>1. /\ r \in Raw /\ w \in Index /\ w \in Raw /\ data \in [Slots -> Byte]
      /\ wdone \in Nat /\ wdone < wto /\ wto \in Nat
      /\ Slot(w) + wto =< Size /\ wto =< Free(r, w) /\ Used(r, w) =< Size
  BY Bounds DEF IInv, Local, Sound, WriterHolds, RoomSeen, Holding, CopyByte
<1>2. Used(r, w) \in Nat
  BY Bounds DEF IInv
<1>3. k - 1 \in 0 .. Size /\ r + k - 1 = r + (k - 1)
  BY <1>1, <1>2, SizeAssumption DEF Raw
<1>4. /\ Slot(r + (k - 1)) = IF Slot(r) + (k - 1) < Size THEN Slot(r) + (k - 1)
                             ELSE Slot(r) + (k - 1) - Size
      /\ Slot(r + (k - 1)) \in Slots
  BY <1>1, <1>3, SlotFrom
<1>5. /\ Slot(r) = IF r < Size THEN r ELSE IF r < 2 * Size THEN r - Size ELSE 0
      /\ Reduce(r) = IF r < 2 * Size THEN r ELSE 0
      /\ Slot(w) = IF w < Size THEN w ELSE w - Size
      /\ Reduce(w) = w
  BY <1>1, RawReduce, SlotOf, SizeAssumption DEF Index
<1>6. Used(r, w) = IF w >= Reduce(r) THEN w - Reduce(r) ELSE w + 2 * Size - Reduce(r)
  BY <1>1, <1>5, RawUsed
<1>7. Slot(r + (k - 1)) # Slot(w) + wdone
  BY <1>1, <1>2, <1>3, <1>4, <1>5, <1>6, SizeAssumption, SMT DEF Index, Raw, Free
<1>8. QED
  BY <1>1, <1>3, <1>4, <1>7 DEF CopyByte

LEMMA CopyByteStep ==
  ASSUME IInv, NEW b \in Byte, CopyByte(b)
  PROVE  IInv'
<1> USE DEF Holding, Taking
<1>1. wdone < wto /\ wdone \in Nat /\ wto \in 0 .. Size
  BY Bounds DEF IInv, Local, WriterHolds, CopyByte
<1>2. data' \in [Slots -> Byte]
  BY DEF IInv, Local, TypeOK, CopyByte
<1>3. wdone' \in 0 .. Size /\ wpc' \in {"copy", "commit_first_load"}
  BY <1>1, SizeAssumption DEF CopyByte
<1>4. TypeOK' /\ IndexOK'
  BY <1>2, <1>3 DEF IInv, Local, TypeOK, IndexOK, CopyByte, reader
<1>5. WriterHolds' /\ ReaderTakes'
  BY <1>1, <1>3, SizeAssumption DEF IInv, Local, WriterHolds, ReaderTakes, CopyByte, reader
<1>6. ~strayed' => RoomSeen' /\ DataSeen' /\ Owing'
  BY <1>3 DEF IInv, Sound, RoomSeen, DataSeen, Owing, CopyByte, reader
<1>7. ~strayed' => SentFront'
  <2> SUFFICES ASSUME ~strayed, rpc \in Taking, ~blind PROVE SentFront'
    BY DEF SentFront, CopyByte, reader
  <2>1. /\ rto =< Used(readIndex, writeIndex)
        /\ \A k \in 1 .. Len(sent) : sent[k] = data[Slot(readIndex + k - 1)]
    BY DEF IInv, Sound, SentFront
  <2>2. \A k \in 1 .. Len(sent) : k \in 1 .. Used(readIndex, writeIndex)
    BY <2>1, Bounds DEF IInv, Local, ReaderTakes
  <2>3. \A k \in 1 .. Len(sent) : sent[k] = data'[Slot(readIndex + k - 1)]
    BY <2>1, <2>2, CopyAvoidsUnread
  <2>4. QED
    BY <2>1, <2>3 DEF SentFront, CopyByte, reader
<1>8. QED
  BY <1>4, <1>5, <1>6, <1>7 DEF IInv, Local, Sound

LEMMA CommitWriteGivesUpStep ==
  ASSUME IInv, CommitWriteGivesUp
  PROVE  IInv'
<1> USE DEF Holding, Taking
<1>1. wto > 0 /\ wto =< wsize /\ wto \in Nat /\ wsize \in 0 .. MaxWrite
  BY Bounds, SizeAssumption DEF IInv, Local, WriterHolds, CommitWriteGivesUp
<1>2. wsize' \in 0 .. MaxWrite /\ wpc' \in {"idle", "first_load"} /\ (wpc' # "idle" => wsize' > 0)
  BY <1>1, MaxWriteAssumption DEF CommitWriteGivesUp, NextPiece
<1>3. Local'
  BY <1>2
  DEF IInv, Local, TypeOK, IndexOK, WriterHolds, ReaderTakes, CommitWriteGivesUp, buffer, reader
<1>4. ~strayed' => Sound'
  BY <1>2
  DEF IInv, Sound, RoomSeen, DataSeen, Owing, SentFront, CommitWriteGivesUp, buffer, reader
<1>5. QED
  BY <1>3, <1>4 DEF IInv

LEMMA CommitWriteChecksStep ==
  ASSUME IInv, CommitWriteChecks
  PROVE  IInv'
<1> USE DEF Holding, Taking
<1>1. Local'
  BY DEF IInv, Local, TypeOK, IndexOK, WriterHolds, ReaderTakes, CommitWriteChecks, buffer, reader
<1>2. ~strayed' => Sound'
  BY DEF IInv, Sound, RoomSeen, DataSeen, Owing, SentFront, CommitWriteChecks, buffer, reader
<1>3. QED
  BY <1>1, <1>2 DEF IInv

\* The write index moves: the reader's view of it gets older, no more.
LEMMA AddToWriteIndexStep ==
  ASSUME IInv, AddToWriteIndex
  PROVE  IInv'
<1> USE DEF Holding, Taking
<1>1. /\ wto > 0 /\ wto \in Nat /\ writeIndex \in Index /\ readIndex \in Raw
      /\ Slot(writeIndex) + wto =< Size
      /\ ~strayed => wto =< Free(readIndex, writeIndex)
  BY Bounds, SizeAssumption DEF IInv, Local, Sound, WriterHolds, RoomSeen, AddToWriteIndex
<1>2. writeIndex' \in Raw
  BY <1>1, GrowIndex DEF AddToWriteIndex
<1>3. Local'
  BY <1>2
  DEF IInv, Local, TypeOK, IndexOK, WriterHolds, ReaderTakes, AddToWriteIndex, reader
<1>4. ASSUME ~strayed' PROVE Sound'
  <2>1. ~strayed /\ Used(readIndex, writeIndex) \in Nat
    BY <1>4, Bounds, SizeAssumption DEF AddToWriteIndex, reader, IInv
  <2>2. Used(readIndex, writeIndex) + wto =< Size
    BY <1>1, <2>1, SizeAssumption DEF Free
  <2>3. Used(readIndex, writeIndex') = Used(readIndex, writeIndex) + wto
    BY <1>1, <2>2, GrowWrite DEF AddToWriteIndex
  <2>4. RoomSeen'
    BY <2>1, <2>2, <2>3 DEF RoomSeen, AddToWriteIndex, reader
  <2>5. DataSeen'
    BY <2>1, <2>3, <1>1, Bounds DEF IInv, Sound, DataSeen, AddToWriteIndex, reader
  <2>6. Owing'
    BY <2>1, <2>3, <1>1, Bounds DEF IInv, Sound, Owing, AddToWriteIndex, reader
  <2>7. SentFront'
    BY <2>1, <2>3, <1>1, Bounds DEF IInv, Sound, SentFront, AddToWriteIndex, reader
  <2>8. QED
    BY <2>4, <2>5, <2>6, <2>7 DEF Sound
<1>5. QED
  BY <1>3, <1>4 DEF IInv

LEMMA ReduceWriteIndexStep ==
  ASSUME IInv, ReduceWriteIndex
  PROVE  IInv'
<1> USE DEF Holding, Taking
<1>1. wto > 0 /\ wto =< wsize /\ wto \in Nat /\ wsize \in 0 .. MaxWrite
  BY Bounds, SizeAssumption DEF IInv, Local, WriterHolds, ReduceWriteIndex
<1>2. wsize' \in 0 .. MaxWrite /\ wpc' \in {"idle", "first_load"} /\ (wpc' # "idle" => wsize' > 0)
  BY <1>1, MaxWriteAssumption DEF ReduceWriteIndex, NextPiece
<1>3. /\ writeIndex' \in Index /\ writeIndex' \in Raw
      /\ Used(readIndex, writeIndex') = Used(readIndex, writeIndex)
  <2>1. writeIndex \in Raw /\ readIndex \in Raw /\ writeIndex' = Reduce(writeIndex)
    BY Bounds DEF IInv, ReduceWriteIndex
  <2>2. writeIndex' \in Index /\ Used(readIndex, writeIndex') = Used(readIndex, writeIndex)
    BY <2>1, RawReduce, RawUsed
  <2>3. QED
    BY <2>2, SizeAssumption DEF Index, Raw
<1>4. Local'
  BY <1>2, <1>3
  DEF IInv, Local, TypeOK, IndexOK, WriterHolds, ReaderTakes, ReduceWriteIndex, reader
<1>5. ~strayed' => Sound'
  BY <1>2, <1>3
  DEF IInv, Sound, RoomSeen, DataSeen, Owing, SentFront, ReduceWriteIndex, reader
<1>6. QED
  BY <1>4, <1>5 DEF IInv

-----------------------------------------------------------------------------
(* The steps of the reader *)

LEMMA StartFlushStep ==
  ASSUME IInv, StartFlush
  PROVE  IInv'
<1> USE DEF Holding, Taking
<1>1. Used(readIndex, writeIndex) \in 0 .. 2 * Size
  BY Bounds, SizeAssumption DEF IInv
<1>2. Local'
  BY <1>1
  DEF IInv, Local, TypeOK, IndexOK, WriterHolds, ReaderTakes, StartFlush, buffer, writer
<1>3. ~strayed' => Sound'
  BY <1>1
  DEF IInv, Sound, RoomSeen, DataSeen, Owing, SentFront, StartFlush, buffer, writer
<1>4. QED
  BY <1>2, <1>3 DEF IInv

LEMMA LoadWriteIndexStep ==
  ASSUME IInv,
         \/ LoadWriteIndex("first_load", "second_load")
         \/ LoadWriteIndex("commit_first_load", "commit_second_load")
  PROVE  IInv'
<1> USE DEF Holding, Taking
<1>1. Local'
  BY DEF IInv, Local, TypeOK, IndexOK, WriterHolds, ReaderTakes, LoadWriteIndex, buffer, writer
<1>2. ~strayed' => DataSeen' /\ Owing'
  BY Bounds DEF IInv, Sound, DataSeen, Owing, LoadWriteIndex, buffer, writer
<1>3. ~strayed' => RoomSeen' /\ SentFront'
  BY DEF IInv, Sound, RoomSeen, SentFront, LoadWriteIndex, buffer, writer
<1>4. QED
  BY <1>1, <1>2, <1>3 DEF IInv, Sound

\* An iteration may find nothing only when the flush owes nothing.
LEMMA NothingToReadStep ==
  ASSUME IInv, NothingToRead
  PROVE  IInv'
<1> USE DEF Holding, Taking
<1>1. ~strayed => owed = 0
  BY ReadLeftIsPiece, Bounds DEF IInv, Sound, DataSeen, NothingToRead
<1>2. rpc' \in {"idle", "first_load"} /\ rpass' \in {0, 1}
  BY DEF NothingToRead, NextPass
<1>3. Local'
  BY <1>2
  DEF IInv, Local, TypeOK, IndexOK, WriterHolds, ReaderTakes, NothingToRead, buffer, writer
<1>4. ~strayed' => Sound'
  BY <1>1, <1>2, Bounds
  DEF IInv, Sound, RoomSeen, DataSeen, Owing, SentFront, NothingToRead, buffer, writer
<1>5. QED
  BY <1>3, <1>4 DEF IInv

LEMMA FindDataStep ==
  ASSUME IInv, FindData
  PROVE  IInv'
<1> USE DEF Holding, Taking
<1>1. /\ ReadLeft \in 1 .. Size
      /\ Slot(readIndex) + ReadLeft =< Size
      /\ sent = << >> /\ Len(sent) = 0
  BY ReadLeftIsPiece, SizeAssumption DEF IInv, Local, ReaderTakes, FindData
<1>2. Local'
  <2>1. blind' \in BOOLEAN /\ phantom' \in BOOLEAN
    BY DEF FindData, BetweenStores
  <2>2. TypeOK'
    BY <1>1, <2>1, SizeAssumption DEF IInv, Local, TypeOK, FindData, buffer, writer
  <2>3. IndexOK' /\ WriterHolds' /\ ReaderTakes'
    BY <1>1 DEF IInv, Local, IndexOK, WriterHolds, ReaderTakes, FindData, buffer, writer
  <2>4. QED
    BY <2>2, <2>3 DEF Local
<1>3. ASSUME ~strayed' PROVE Sound'
  <2>1. /\ ~strayed
        /\ Used(readIndex, writeIndex) > 0 \/ BetweenStores
        /\ Used(readIndex, rseen) > 0 =>
             /\ ReadLeft =< Used(readIndex, rseen)
             /\ ReadLeft = Used(readIndex, rseen) \/ Slot(readIndex) + ReadLeft = Size
    BY <1>1, <1>3, ReadLeftIsPiece DEF FindData
  <2>2. /\ owed =< Used(readIndex, rseen) /\ owed \in Nat
        /\ Used(readIndex, rseen) =< Used(readIndex, writeIndex)
        /\ Used(readIndex, rseen) \in Nat /\ Used(readIndex, writeIndex) \in Nat
    BY <2>1, Bounds, SizeAssumption DEF IInv, Sound, DataSeen, FindData
  <2>3. BetweenStores => owed = 0
    BY <2>2, BetweenIsEmpty
  <2>4. RoomSeen'
    BY <2>1 DEF IInv, Sound, RoomSeen, FindData, buffer, writer
  <2>5. DataSeen'
    BY <1>1, <2>1, <2>3 DEF DataSeen, FindData, buffer, writer
  <2>6. Owing'
    BY <1>1, <2>1, <2>2 DEF IInv, Sound, Owing, FindData, buffer, writer
  <2>7. SentFront'
    <3>1. ~blind' => Used(readIndex, rseen) # 0
      BY DEF FindData
    <3>2. ~blind' => ReadLeft =< Used(readIndex, writeIndex)
      BY <1>1, <2>1, <2>2, <3>1
    <3>3. sent' = << >> /\ Len(sent') = 0 /\ rto' = ReadLeft
          /\ readIndex' = readIndex /\ writeIndex' = writeIndex
      BY <1>1 DEF FindData, buffer
    <3>4. QED
      BY <3>2, <3>3 DEF SentFront
  <2>8. QED
    BY <2>4, <2>5, <2>6, <2>7 DEF Sound
<1>4. QED
  BY <1>2, <1>3 DEF IInv

\* A write(2) adds the bytes that follow those sent before.
LEMMA WriteToFdStep ==
  ASSUME IInv, NEW n \in 1 .. Size, WriteToFd(n)
  PROVE  IInv'
<1> USE DEF Holding, Taking
<1> DEFINE l == Len(sent)
<1>1. /\ l \in Nat /\ l + n =< rto /\ rto \in 0 .. Size
      /\ readIndex \in Raw /\ Slot(readIndex) \in Slots /\ data \in [Slots -> Byte]
      /\ Slot(readIndex) + rto =< Size /\ sent \in Seq(Byte)
  BY Bounds, SizeAssumption DEF IInv, Local, ReaderTakes, WriteToFd
<1>2. \A k \in 1 .. n : Slot(readIndex) + l + k - 1 \in Slots
  BY <1>1, SizeAssumption DEF Slots
<1>3. Upcoming(n) \in [1 .. n -> Byte]
  BY <1>1, <1>2 DEF Upcoming
<1>4. Upcoming(n) \in Seq(Byte) /\ Len(Upcoming(n)) = n
  <2> n \in Nat
    BY SizeAssumption
  <2> QED
    BY <1>3
<1>5. /\ sent' \in Seq(Byte) /\ Len(sent') = l + n
      /\ \A k \in 1 .. l + n : sent'[k] = IF k =< l THEN sent[k] ELSE Upcoming(n)[k - l]
  <2> HIDE DEF l
  <2>1. l = Len(sent) /\ sent' = sent \o Upcoming(n)
    BY DEF l, WriteToFd
  <2>2. /\ sent \o Upcoming(n) \in Seq(Byte)
        /\ Len(sent \o Upcoming(n)) = Len(sent) + Len(Upcoming(n))
        /\ \A k \in 1 .. Len(sent) + Len(Upcoming(n)) :
             (sent \o Upcoming(n))[k] = IF k =< Len(sent) THEN sent[k]
                                        ELSE Upcoming(n)[k - Len(sent)]
    BY <1>1, <1>4, ConcatProperties
  <2>3. QED
    BY <1>4, <2>1, <2>2, Zenon
<1>6. Local'
  <2>1. l + n =< Size /\ rpc' = IF l + n = rto THEN "commit_first_load" ELSE "write"
    BY <1>1, SizeAssumption DEF WriteToFd
  <2>2. TypeOK'
    BY <1>5, <2>1 DEF IInv, Local, TypeOK, WriteToFd, buffer, writer
  <2>3. IndexOK' /\ WriterHolds'
    BY <2>1 DEF IInv, Local, IndexOK, WriterHolds, WriteToFd, buffer, writer
  <2>4. ReaderTakes'
    <3>1. /\ rto > 0 /\ readIndex' = readIndex /\ rto' = rto
          /\ rpc' \in Taking /\ rpc' \in {"write", "commit_first_load"}
      BY <2>1 DEF IInv, Local, ReaderTakes, WriteToFd, buffer
    <3>2. CASE l + n = rto
      BY <1>1, <1>5, <2>1, <3>1, <3>2 DEF ReaderTakes
    <3>3. CASE l + n < rto
      BY <1>1, <1>5, <2>1, <3>1, <3>3 DEF ReaderTakes
    <3>4. QED
      BY <1>1, <3>2, <3>3, SizeAssumption
  <2>5. QED
    BY <2>2, <2>3, <2>4 DEF Local
<1>7. ~strayed' => RoomSeen' /\ DataSeen' /\ Owing'
  BY DEF IInv, Sound, RoomSeen, DataSeen, Owing, WriteToFd, buffer, writer
<1>8. ASSUME ~strayed' PROVE SentFront'
  <2> SUFFICES ASSUME ~blind PROVE SentFront'
    BY DEF SentFront, WriteToFd
  <2>1. /\ rto =< Used(readIndex, writeIndex)
        /\ \A k \in 1 .. l : sent[k] = data[Slot(readIndex + k - 1)]
    BY <1>8 DEF IInv, Sound, SentFront, WriteToFd
  <2>2. ASSUME NEW k \in 1 .. l + n PROVE sent'[k] = data[Slot(readIndex + k - 1)]
    <3>1. CASE k =< l
      BY <1>1, <1>5, <2>1, <3>1
    <3>2. CASE k > l
      <4>1. k - l \in 1 .. n /\ sent'[k] = Upcoming(n)[k - l]
        BY <1>1, <1>5, <3>2
      <4>2. sent'[k] = data[Slot(readIndex) + l + (k - l) - 1]
        BY <4>1 DEF Upcoming
      <4>3. k - 1 \in 0 .. Size /\ readIndex + k - 1 = readIndex + (k - 1)
            /\ Slot(readIndex) + (k - 1) < Size
        BY <1>1, SizeAssumption DEF Raw, Slots
      <4>4. Slot(readIndex + (k - 1)) = Slot(readIndex) + (k - 1)
        BY <1>1, <4>3, SlotFrom
      <4>5. Slot(readIndex) + l + (k - l) - 1 = Slot(readIndex) + (k - 1)
        BY <1>1, <4>1 DEF Slots
      <4>6. QED
        BY <4>2, <4>3, <4>4, <4>5
    <3>3. QED
      BY <1>1, <3>1, <3>2
  <2>3. QED
    BY <1>5, <2>1, <2>2 DEF SentFront, WriteToFd, buffer, writer
<1>9. QED
  BY <1>6, <1>7, <1>8 DEF IInv, Sound

\* commit_read refuses only bytes that were never promised.
LEMMA CommitReadGivesUpStep ==
  ASSUME IInv, CommitReadGivesUp
  PROVE  IInv'
<1> USE DEF Holding, Taking
<1>1. ASSUME ~strayed PROVE owed = 0
  <2>1. SUFFICES ASSUME owed > 0 PROVE FALSE
    BY Bounds DEF IInv
  <2>2. /\ rto =< Used(readIndex, rseen) /\ Slot(readIndex) + rto =< Size
        /\ owed =< Used(readIndex, rseen)
    BY <1>1, <2>1 DEF IInv, Local, Sound, Owing, ReaderTakes, DataSeen, CommitReadGivesUp
  <2>3. rto =< ReadLeft /\ ReadLeft \in Nat
    BY <1>1, <2>1, <2>2, Bounds, ReadLeftIsPiece, SizeAssumption DEF IInv, CommitReadGivesUp
  <2>4. QED
    BY <2>3, Bounds DEF IInv, CommitReadGivesUp
<1>2. /\ rpc' \in {"idle", "first_load"} /\ rpass' \in {0, 1}
      /\ sent' = << >> /\ blind' = FALSE /\ phantom' = FALSE
  BY DEF CommitReadGivesUp, NextPass
<1>3. Local'
  <2>1. /\ sent' \in Seq(Byte) /\ Len(sent') =< Size
        /\ blind' \in BOOLEAN /\ phantom' \in BOOLEAN
    <3>1. sent' \in Seq(Byte) /\ Len(sent') =< Size
      BY <1>2, NothingSent, SizeAssumption
    <3>2. QED
      BY <1>2, <3>1
  <2>2. TypeOK'
    BY <1>2, <2>1 DEF IInv, Local, TypeOK, CommitReadGivesUp, buffer, writer
  <2>3. IndexOK' /\ WriterHolds' /\ ReaderTakes'
    BY <1>2 DEF IInv, Local, IndexOK, WriterHolds, ReaderTakes, CommitReadGivesUp, buffer, writer
  <2>4. QED
    BY <2>2, <2>3 DEF Local
<1>4. ~strayed' => Sound'
  BY <1>1, <1>2, Bounds
  DEF IInv, Sound, RoomSeen, DataSeen, Owing, SentFront, CommitReadGivesUp, buffer, writer
<1>5. QED
  BY <1>3, <1>4 DEF IInv

\* Outside the two stores commit_read lets through only what is there.
LEMMA CommitReadChecksStep ==
  ASSUME IInv, CommitReadChecks
  PROVE  IInv'
<1> USE DEF Holding, Taking
<1>1. ASSUME ~strayed'
      PROVE  /\ ~strayed /\ ~phantom
             /\ rto =< Used(readIndex, writeIndex)
  <2>1. ~strayed /\ ~phantom
    BY <1>1 DEF CommitReadChecks
  <2>2. /\ Used(readIndex, rseen) > 0
        /\ Used(readIndex, rseen) =< Used(readIndex, writeIndex)
    BY <2>1 DEF IInv, Sound, DataSeen, CommitReadChecks
  <2>3. rto =< ReadLeft /\ ReadLeft \in Nat /\ ReadLeft =< Used(readIndex, rseen)
    BY <2>1, <2>2, ReadLeftIsPiece, SizeAssumption DEF CommitReadChecks
  <2>4. QED
    BY <2>1, <2>2, <2>3, Bounds DEF IInv
<1>2. strayed' \in BOOLEAN
  BY DEF CommitReadChecks
<1>3. TypeOK'
  BY <1>2 DEF IInv, Local, TypeOK, CommitReadChecks, buffer, writer
<1>4. IndexOK' /\ WriterHolds' /\ ReaderTakes'
  BY DEF IInv, Local, IndexOK, WriterHolds, ReaderTakes, CommitReadChecks, buffer, writer
<1>5. ~strayed' => Sound'
  BY <1>1, Bounds
  DEF IInv, Sound, RoomSeen, DataSeen, Owing, SentFront, CommitReadChecks, buffer, writer
<1>6. QED
  BY <1>3, <1>4, <1>5 DEF IInv, Local

\* The read index moves: there is more room than the writer has seen.
LEMMA AddToReadIndexStep ==
  ASSUME IInv, AddToReadIndex
  PROVE  IInv'
<1> USE DEF Holding, Taking
<1>1. /\ rto > 0 /\ rto \in Nat /\ readIndex \in Index /\ writeIndex \in Raw
      /\ Slot(readIndex) + rto =< Size /\ owed \in Nat
  BY Bounds, SizeAssumption DEF IInv, Local, ReaderTakes, AddToReadIndex
<1>2. /\ readIndex' = readIndex + rto /\ readIndex' \in Raw
      /\ Slot(readIndex) + rto = Size => Slot(readIndex') = 0
  BY <1>1, GrowIndex DEF AddToReadIndex
<1>3. Local'
  <2>1. /\ sent' = << >> /\ sent' \in Seq(Byte) /\ Len(sent') =< Size
        /\ blind' \in BOOLEAN /\ phantom' \in BOOLEAN
    <3>1. sent' = << >> /\ blind' = FALSE /\ phantom' = FALSE
      BY DEF AddToReadIndex
    <3>2. sent' \in Seq(Byte) /\ Len(sent') =< Size
      BY <3>1, NothingSent, SizeAssumption
    <3>3. QED
      BY <3>1, <3>2
  <2>2. owed' \in 0 .. 2 * Size
    <3>1. owed \in 0 .. 2 * Size /\ owed' = IF rto >= owed THEN 0 ELSE owed - rto
      BY DEF IInv, Local, TypeOK, AddToReadIndex
    <3>2. QED
      BY <1>1, <3>1, SizeAssumption
  <2>3. TypeOK'
    BY <1>2, <2>1, <2>2 DEF IInv, Local, TypeOK, AddToReadIndex, writer
  <2>4. IndexOK' /\ WriterHolds' /\ ReaderTakes'
    BY <2>1 DEF IInv, Local, IndexOK, WriterHolds, ReaderTakes, AddToReadIndex, writer
  <2>5. QED
    BY <2>3, <2>4 DEF Local
<1>4. ASSUME ~strayed' PROVE Sound'
  <2>1. /\ ~strayed /\ rto =< Used(readIndex, writeIndex) /\ Used(readIndex, writeIndex) =< Size
    BY <1>4 DEF IInv, Sound, RoomSeen, DataSeen, AddToReadIndex
  <2>2. Used(readIndex', writeIndex) = Used(readIndex, writeIndex) - rto
    BY <1>1, <1>2, <2>1, GrowRead
  <2>3. Used(readIndex, writeIndex) \in Nat /\ Used(wseen, writeIndex) \in Nat /\ wto \in Nat
    BY Bounds, SizeAssumption DEF IInv
  <2>4. RoomSeen'
    BY <1>1, <2>1, <2>2, <2>3, SizeAssumption
    DEF IInv, Sound, RoomSeen, AddToReadIndex, writer, Free
  <2>5. DataSeen' /\ SentFront'
    BY DEF DataSeen, SentFront, AddToReadIndex, writer
  <2>6. /\ owed =< Used(readIndex, writeIndex)
        /\ owed' = (IF rto >= owed THEN 0 ELSE owed - rto)
        /\ owed > rto => /\ Slot(readIndex) + rto = Size
                         /\ rpass = 1 => Slot(readIndex) = 0
    BY <1>1, <2>1 DEF IInv, Sound, Owing, AddToReadIndex
  <2>7. owed > rto => rpass = 0
    <3>1. rpass \in {0, 1} /\ Slot(readIndex) \in Nat
      BY Bounds, SizeAssumption DEF IInv, Local, TypeOK, Slots
    <3>2. SUFFICES ASSUME owed > rto, rpass = 1 PROVE FALSE
      BY <3>1
    <3>3. rto = Size
      BY <1>1, <2>6, <3>2, SizeAssumption
    <3>4. QED
      BY <1>1, <2>1, <2>3, <2>6, <3>2, <3>3, SizeAssumption
  <2>8. Owing'
    <3>1. rpc' = "reduce" /\ rpass' = rpass /\ writeIndex' = writeIndex
      BY DEF AddToReadIndex
    <3>2. owed' =< Used(readIndex', writeIndex)
      BY <1>1, <2>1, <2>2, <2>3, <2>6
    <3>3. owed' > 0 => owed > rto
      BY <1>1, <2>6
    <3>4. QED
      BY <1>2, <2>6, <2>7, <3>1, <3>2, <3>3 DEF Owing
  <2>9. QED
    BY <2>4, <2>5, <2>8 DEF Sound
<1>5. QED
  BY <1>3, <1>4 DEF IInv

LEMMA ReduceReadIndexStep ==
  ASSUME IInv, ReduceReadIndex
  PROVE  IInv'
<1> USE DEF Holding, Taking
<1>1. rpc' \in {"idle", "first_load"} /\ rpass' \in {0, 1}
      /\ (rpass = 1 => rpc' = "idle") /\ (rpc' = "idle" => rpass = 1)
  BY DEF IInv, Local, TypeOK, ReduceReadIndex, NextPass
<1>2. /\ readIndex' \in Index /\ readIndex' \in Raw
      /\ Used(readIndex', writeIndex) = Used(readIndex, writeIndex)
      /\ Slot(readIndex') = Slot(readIndex)
  <2>1. writeIndex \in Raw /\ readIndex \in Raw /\ readIndex' = Reduce(readIndex)
    BY Bounds DEF IInv, ReduceReadIndex
  <2>2. /\ readIndex' \in Index /\ Used(readIndex', writeIndex) = Used(readIndex, writeIndex)
        /\ Slot(readIndex') = Slot(readIndex)
    BY <2>1, RawReduce, RawUsed
  <2>3. QED
    BY <2>2, SizeAssumption DEF Index, Raw
<1>3. Local'
  BY <1>1, <1>2
  DEF IInv, Local, TypeOK, IndexOK, WriterHolds, ReaderTakes, ReduceReadIndex, writer
<1>4. ~strayed' => RoomSeen' /\ DataSeen' /\ SentFront'
  BY <1>1, <1>2 DEF IInv, Sound, RoomSeen, DataSeen, SentFront, ReduceReadIndex, writer, Free
<1>5. ~strayed' => Owing'
  BY <1>1, <1>2, Bounds DEF IInv, Sound, Owing, ReduceReadIndex, writer
<1>6. QED
  BY <1>3, <1>4, <1>5 DEF IInv, Sound

-----------------------------------------------------------------------------
(* The theorems *)

\* IInv is inductive.
LEMMA NextIInv == IInv /\ [Next]_vars => IInv'
<1> SUFFICES ASSUME IInv, [Next]_vars PROVE IInv'
  OBVIOUS
<1>1. ASSUME NEW n \in 1 .. MaxWrite, StartWrite(n) PROVE IInv'
  BY <1>1, StartWriteStep
<1>2. CASE WriterStep
  <2>1. CASE \/ LoadReadIndex("first_load", "second_load")
             \/ LoadReadIndex("commit_first_load", "commit_second_load")
    BY <2>1, LoadReadIndexStep
  <2>2. CASE NoSpace
    BY <2>2, NoSpaceStep
  <2>3. CASE FindSpace
    BY <2>3, FindSpaceStep
  <2>4. ASSUME NEW b \in Byte, CopyByte(b) PROVE IInv'
    BY <2>4, CopyByteStep
  <2>5. CASE CommitWriteGivesUp
    BY <2>5, CommitWriteGivesUpStep
  <2>6. CASE CommitWriteChecks
    BY <2>6, CommitWriteChecksStep
  <2>7. CASE AddToWriteIndex
    BY <2>7, AddToWriteIndexStep
  <2>8. CASE ReduceWriteIndex
    BY <2>8, ReduceWriteIndexStep
  <2>9. QED
    BY <1>2, <2>1, <2>2, <2>3, <2>4, <2>5, <2>6, <2>7, <2>8 DEF WriterStep
<1>3. CASE ReaderStep
  <2>1. CASE StartFlush
    BY <2>1, StartFlushStep
  <2>2. CASE \/ LoadWriteIndex("first_load", "second_load")
             \/ LoadWriteIndex("commit_first_load", "commit_second_load")
    BY <2>2, LoadWriteIndexStep
  <2>3. CASE NothingToRead
    BY <2>3, NothingToReadStep
  <2>4. CASE FindData
    BY <2>4, FindDataStep
  <2>5. ASSUME NEW n \in 1 .. Size, WriteToFd(n) PROVE IInv'
    BY <2>5, WriteToFdStep
  <2>6. CASE CommitReadGivesUp
    BY <2>6, CommitReadGivesUpStep
  <2>7. CASE CommitReadChecks
    BY <2>7, CommitReadChecksStep
  <2>8. CASE AddToReadIndex
    BY <2>8, AddToReadIndexStep
  <2>9. CASE ReduceReadIndex
    BY <2>9, ReduceReadIndexStep
  <2>10. QED
    BY <1>3, <2>1, <2>2, <2>3, <2>4, <2>5, <2>6, <2>7, <2>8, <2>9 DEF ReaderStep
<1>4. CASE UNCHANGED vars
  <2>1. Local'
    BY <1>4 DEF vars, buffer, writer, reader, IInv, Local, TypeOK, IndexOK,
                WriterHolds, ReaderTakes
  <2>2. ~strayed' => RoomSeen' /\ DataSeen'
    BY <1>4 DEF vars, buffer, writer, reader, IInv, Sound, RoomSeen, DataSeen
  <2>3. ~strayed' => Owing' /\ SentFront'
    BY <1>4 DEF vars, buffer, writer, reader, IInv, Sound, Owing, SentFront
  <2>4. QED
    BY <2>1, <2>2, <2>3 DEF IInv, Sound
<1>5. QED
  BY <1>1, <1>2, <1>3, <1>4 DEF Next

LEMMA InvariantHolds == Spec => []IInv
BY NextIInv, InitIInv, PTL DEF Spec

\* The indexes and locals of both threads keep their ranges.
THEOREM TypeCorrect == Spec => []TypeOK
<1>1. IInv => TypeOK
  BY DEF IInv, Local
<1>2. QED
  BY <1>1, InvariantHolds, PTL

\* Neither memcpy nor write(2) leaves data[], in any interleaving of the loads
\* and stores of the two sides.
THEOREM StaysWithinArray == Spec => []WithinArray
<1>1. IInv => WithinArray
  BY DEF IInv, Local, WriterHolds, ReaderTakes, WithinArray
<1>2. QED
  BY <1>1, InvariantHolds, PTL

\* The writer copies over a byte the reader has still to read only after a
\* commit_read has gone by an index between its two stores.
THEOREM WriterSafe == Spec => []NoOverwrite
<1>1. IInv => NoOverwrite
  BY DEF IInv, Sound, RoomSeen, NoOverwrite
<1>2. QED
  BY <1>1, InvariantHolds, PTL

\* The torn loads of get_read_size alone, which may report bytes that are not
\* there, do not take the read index past the write index.
THEOREM ReaderSafe == Spec => []ReaderStaysBehind
<1>1. IInv => ReaderStaysBehind
  BY DEF IInv, Sound, DataSeen, ReaderStaysBehind
<1>2. QED
  BY <1>1, InvariantHolds, PTL

\* commit_write drops what write_data has copied in one state only.
THEOREM WritesAreRecorded == Spec => []CommitWriteRecords
<1>1. IInv => CommitWriteRecords
  <2> SUFFICES ASSUME IInv, wpc = "commit_second_load", ~strayed,
                      ~(readIndex = 2 * Size /\ writeIndex = 0)
               PROVE  WriteLeft >= wto
    BY DEF CommitWriteRecords
  <2>1. /\ wto =< Free(wseen, writeIndex)
        /\ Slot(writeIndex) + wto =< Size
    BY DEF IInv, Local, Sound, RoomSeen, WriterHolds, Holding
  <2>2. wto \in Nat
    BY Bounds, SizeAssumption DEF IInv
  <2>3. wto =< WriteLeft /\ WriteLeft \in Nat
    BY <2>1, <2>2, WriteLeftIsFree, SizeAssumption
  <2>4. QED
    BY <2>2, <2>3
<1>2. QED
  BY <1>1, InvariantHolds, PTL

\* flush_thread takes out every byte that was in the buffer when it began.
THEOREM FlushIsComplete == Spec => []FlushDrains
<1>1. IInv => FlushDrains
  BY DEF IInv, Sound, Owing, FlushDrains
<1>2. QED
  BY <1>1, InvariantHolds, PTL

\* What write(2) is given is the front of the unread bytes, each once.
THEOREM FlushesTheFront == Spec => []FlushesFront
<1>1. IInv => FlushesFront
  <2> SUFFICES ASSUME IInv, rpc \in Taking, ~blind, ~strayed PROVE FlushesFront
    BY DEF FlushesFront
  <2>1. /\ rto =< Used(readIndex, writeIndex)
        /\ \A k \in 1 .. Len(sent) : sent[k] = data[Slot(readIndex + k - 1)]
        /\ Len(sent) =< rto
        /\ rpc # "write" => Len(sent) = rto
    BY Bounds DEF IInv, Local, Sound, SentFront, ReaderTakes
  <2>2. \A k \in 1 .. Len(sent) : k \in 1 .. Used(readIndex, writeIndex)
    BY <2>1, Bounds DEF IInv
  <2>3. QED
    BY <2>1, <2>2 DEF FlushesFront, Contents
<1>2. QED
  BY <1>1, InvariantHolds, PTL

-----------------------------------------------------------------------------
(* The shared buffer implements the queue of bytes *)

LEMMA ContentsType ==
  ASSUME NEW r \in Raw, NEW w \in Raw, NEW d \in [Slots -> Byte],
         Used(r, w) =< Size
  PROVE  /\ Contents(r, w, d) \in Seq(Byte)
         /\ Len(Contents(r, w, d)) = Used(r, w)
         /\ \A k \in 1 .. Used(r, w) : Slot(r + k - 1) \in Slots
<1>1. Used(r, w) \in Nat
  BY RawUsed, SizeAssumption
<1>2. ASSUME NEW k \in 1 .. Used(r, w) PROVE Slot(r + k - 1) \in Slots
  <2>1. k - 1 \in 0 .. Size /\ r + k - 1 = r + (k - 1)
    BY <1>1, SizeAssumption DEF Raw
  <2>2. Slot(r + (k - 1)) \in Slots
    BY <2>1, SlotFrom
  <2>3. QED
    BY <2>1, <2>2
<1>3. Contents(r, w, d) \in [1 .. Used(r, w) -> Byte]
  BY <1>2 DEF Contents
<1>4. QED
  BY <1>1, <1>2, <1>3

\* A concatenation as a function.
LEMMA Concatenation ==
  ASSUME NEW S, NEW q \in Seq(S), NEW s \in Seq(S)
  PROVE  q \o s = [k \in 1 .. Len(q) + Len(s) |->
                     IF k =< Len(q) THEN q[k] ELSE s[k - Len(q)]]
<1> DEFINE f == [k \in 1 .. Len(q) + Len(s) |->
                   IF k =< Len(q) THEN q[k] ELSE s[k - Len(q)]]
<1>1. Len(q) \in Nat /\ Len(s) \in Nat
  OBVIOUS
<1>2. f \in Seq(S) /\ Len(f) = Len(q) + Len(s)
  <2>1. \A k \in 1 .. Len(q) + Len(s) : f[k] \in S
    BY <1>1
  <2>2. f \in [1 .. Len(q) + Len(s) -> S]
    BY <2>1
  <2>3. QED
    BY <1>1, <2>2
<1>3. /\ q \o s \in Seq(S) /\ Len(q \o s) = Len(q) + Len(s)
      /\ \A k \in 1 .. Len(q) + Len(s) : (q \o s)[k] = f[k]
  BY ConcatProperties
<1>4. QED
  BY <1>2, <1>3, SeqEqual

\* memcpy leaves the queue as it is.
LEMMA CopyKeepsContents ==
  ASSUME IInv, ~strayed, NEW b \in Byte, CopyByte(b)
  PROVE  Contents(readIndex, writeIndex, data)' = Contents(readIndex, writeIndex, data)
<1>1. \A k \in 1 .. Used(readIndex, writeIndex) :
        data'[Slot(readIndex + k - 1)] = data[Slot(readIndex + k - 1)]
  BY CopyAvoidsUnread
<1>2. readIndex' = readIndex /\ writeIndex' = writeIndex
  BY DEF CopyByte
<1>3. QED
  BY <1>1, <1>2 DEF Contents

\* The second store of a commit leaves the queue as it is.
LEMMA ReduceKeepsContents ==
  ASSUME IInv, ~strayed, ReduceWriteIndex \/ ReduceReadIndex
  PROVE  Contents(readIndex, writeIndex, data)' = Contents(readIndex, writeIndex, data)
<1> DEFINE r == readIndex
           w == writeIndex
<1>1. /\ r \in Raw /\ w \in Raw /\ Used(r, w) =< Size /\ Used(r, w) \in Nat
  BY Bounds, SizeAssumption DEF IInv, Sound, RoomSeen
<1>2. CASE ReduceWriteIndex
  <2>1. /\ readIndex' = r /\ data' = data /\ writeIndex' = Reduce(w)
        /\ Used(r, Reduce(w)) = Used(r, w)
    BY <1>1, <1>2, RawUsed DEF ReduceWriteIndex
  <2>2. QED
    BY <2>1 DEF Contents
<1>3. CASE ReduceReadIndex
  <2>1. /\ readIndex' = Reduce(r) /\ data' = data /\ writeIndex' = w
        /\ Used(Reduce(r), w) = Used(r, w)
    BY <1>1, <1>3, RawUsed DEF ReduceReadIndex
  <2>2. ASSUME NEW k \in 1 .. Used(r, w)
        PROVE  Slot(Reduce(r) + k - 1) = Slot(r + k - 1)
    <3>1. Reduce(r) \in Nat /\ r \in Nat
      BY <1>1, RawReduce, SizeAssumption DEF Index, Raw
    <3>2. /\ k - 1 \in 0 .. Size
          /\ r + k - 1 = r + (k - 1) /\ Reduce(r) + k - 1 = Reduce(r) + (k - 1)
      BY <1>1, <3>1, SizeAssumption
    <3>3. QED
      BY <1>1, <3>2, SlotFrom
  <2>3. QED
    BY <2>1, <2>2 DEF Contents
<1>4. QED
  BY <1>2, <1>3

LEMMA CommitWritePuts ==
  ASSUME IInv, ~strayed, ~strayed', AddToWriteIndex
  PROVE  Queue!Put
<1> DEFINE r == readIndex
           w == writeIndex
           q == Contents(r, w, data)
           s == [k \in 1 .. wto |-> data[Slot(w + k - 1)]]
<1>1. /\ wto > 0 /\ wto \in Nat /\ wto =< Free(r, w) /\ wto =< Size
      /\ Slot(w) + wto =< Size /\ Used(r, w) =< Size
      /\ data \in [Slots -> Byte]
      /\ r \in Raw /\ w \in Index /\ w \in Raw /\ Used(r, w) \in Nat
  BY Bounds, SizeAssumption
  DEF IInv, Local, Sound, RoomSeen, WriterHolds, Holding, AddToWriteIndex
<1>2. /\ readIndex' = r /\ data' = data
      /\ Used(r, writeIndex') = Used(r, w) + wto
  <2>1. Used(r, w) + wto =< Size
    BY <1>1, SizeAssumption DEF Free
  <2>2. QED
    BY <1>1, <2>1, GrowWrite DEF AddToWriteIndex
<1>3. /\ q \in Seq(Byte) /\ Len(q) = Used(r, w)
  BY <1>1, ContentsType
<1>4. \A k \in 1 .. wto : Slot(w + k - 1) \in Slots /\ w + k - 1 \in Nat
  <2> TAKE k \in 1 .. wto
  <2>1. k - 1 \in 0 .. Size /\ w + k - 1 = w + (k - 1) /\ w + (k - 1) \in Nat
    BY <1>1, SizeAssumption DEF Index
  <2>2. Slot(w + (k - 1)) \in Slots
    BY <1>1, <2>1, SlotFrom
  <2>3. QED
    BY <2>1, <2>2
<1>5. s \in [1 .. wto -> Byte]
  BY <1>1, <1>4
<1>6. ASSUME NEW k \in 1 .. wto
      PROVE  Slot(r + (Used(r, w) + k) - 1) = Slot(w + k - 1)
  <2>1. Used(r, w) = IF w >= Reduce(r) THEN w - Reduce(r) ELSE w + 2 * Size - Reduce(r)
    <3>1. Reduce(w) = w
      BY <1>1, RawReduce, SizeAssumption DEF Index
    <3>2. QED
      BY <1>1, <3>1, RawUsed
  <2>2. Reduce(r) = IF r < 2 * Size THEN r ELSE 0
    BY <1>1, RawReduce
  <2>3. /\ Slot(w) = IF w < Size THEN w ELSE w - Size
        /\ w + k - 1 \in Nat /\ w + k - 1 < 2 * Size
    <3>1. Slot(w) = IF w < Size THEN w ELSE w - Size
      BY <1>1, SlotOf
    <3>2. QED
      BY <1>1, <3>1, SizeAssumption DEF Index
  <2>4. \/ r + (Used(r, w) + k) - 1 = w + k - 1
        \/ r + (Used(r, w) + k) - 1 = (w + k - 1) + 2 * Size
    BY <1>1, <2>1, <2>2, <2>3, SizeAssumption DEF Index, Raw
  <2>5. Slot((w + k - 1) + 2 * Size) = Slot(w + k - 1)
    <3>1. /\ (w + k - 1) + 2 * Size \in Nat /\ (w + k - 1) + 2 * Size < 4 * Size
          /\ w + k - 1 < 4 * Size
      BY <2>3, SizeAssumption
    <3>2. \A x \in Nat : x < 4 * Size =>
            Slot(x) = IF x < Size THEN x
                      ELSE IF x < 2 * Size THEN x - Size
                      ELSE IF x < 3 * Size THEN x - 2 * Size
                      ELSE x - 3 * Size
      BY SlotOfSum
    <3>3. QED
      BY <2>3, <3>1, <3>2, SizeAssumption
  <2>6. QED
    BY <2>4, <2>5
<1>7. Contents(readIndex', writeIndex', data') = q \o s
  <2>1. Contents(readIndex', writeIndex', data')
          = [k \in 1 .. Used(r, w) + wto |-> data[Slot(r + k - 1)]]
    BY <1>2 DEF Contents
  <2>2. q \o s = [k \in 1 .. Used(r, w) + wto |->
                    IF k =< Used(r, w) THEN q[k] ELSE s[k - Used(r, w)]]
    <3>1. s \in Seq(Byte) /\ Len(s) = wto
      BY <1>1, <1>5
    <3> HIDE DEF q, s
    <3>2. q \o s = [k \in 1 .. Len(q) + Len(s) |->
                      IF k =< Len(q) THEN q[k] ELSE s[k - Len(q)]]
      BY <3>1, <1>3, Concatenation, Zenon
    <3>3. QED
      BY <3>1, <3>2, <1>3, Zenon
  <2>3. ASSUME NEW k \in 1 .. Used(r, w) + wto
        PROVE  data[Slot(r + k - 1)]
                 = IF k =< Used(r, w) THEN q[k] ELSE s[k - Used(r, w)]
    <3>1. CASE k =< Used(r, w)
      BY <3>1, <1>1 DEF Contents
    <3>2. CASE k > Used(r, w)
      <4>1. k - Used(r, w) \in 1 .. wto
        BY <3>2, <1>1
      <4>2. Slot(r + (Used(r, w) + (k - Used(r, w))) - 1) = Slot(w + (k - Used(r, w)) - 1)
        BY <4>1, <1>6
      <4>3. Used(r, w) + (k - Used(r, w)) = k
        BY <1>1
      <4>4. QED
        BY <3>2, <4>1, <4>2, <4>3, <1>1
    <3>3. QED
      BY <3>1, <3>2, <1>1
  <2>4. QED
    BY <2>1, <2>2, <2>3
<1>8. wto \in 1 .. Size - Len(q)
  BY <1>1, <1>3, SizeAssumption DEF Free
<1>9. QED
  BY <1>5, <1>7, <1>8 DEF Queue!Put

LEMMA CommitReadGets ==
  ASSUME IInv, ~strayed, ~strayed', AddToReadIndex
  PROVE  Queue!Get
<1> DEFINE r == readIndex
           w == writeIndex
           q == Contents(r, w, data)
<1>1. /\ rto > 0 /\ rto \in Nat /\ rto =< Used(r, w) /\ Used(r, w) =< Size
      /\ Slot(r) + rto =< Size
      /\ data \in [Slots -> Byte] /\ Used(r, w) \in Nat
      /\ r \in Index /\ r \in Raw /\ w \in Raw
  BY Bounds, SizeAssumption
  DEF IInv, Local, Sound, RoomSeen, DataSeen, ReaderTakes, Taking, AddToReadIndex
<1>2. /\ readIndex' = r + rto
      /\ Used(readIndex', w) = Used(r, w) - rto
      /\ writeIndex' = w /\ data' = data
  BY <1>1, GrowRead DEF AddToReadIndex
<1>3. q \in Seq(Byte) /\ Len(q) = Used(r, w)
  BY <1>1, ContentsType
<1>4. ASSUME NEW k \in 1 .. Used(r, w) - rto
      PROVE  Slot(readIndex' + k - 1) = Slot(r + (rto + k) - 1)
  <2>1. readIndex' + k - 1 = r + (rto + k) - 1
    BY <1>1, <1>2, SizeAssumption DEF Index
  <2>2. QED
    BY <2>1
<1>5. Contents(readIndex', writeIndex', data') = SubSeq(q, rto + 1, Len(q))
  <2>1. Contents(readIndex', writeIndex', data')
          = [k \in 1 .. Used(r, w) - rto |-> data[Slot(readIndex' + k - 1)]]
    BY <1>2 DEF Contents
  <2>2. SubSeq(q, rto + 1, Len(q)) = [k \in 1 .. Used(r, w) - rto |-> q[rto + k]]
    <3>1. Len(q) - (rto + 1) + 1 = Used(r, w) - rto
      BY <1>1, <1>3
    <3>2. SubSeq(q, rto + 1, Len(q))
            = [k \in 1 .. Len(q) - (rto + 1) + 1 |-> q[k + (rto + 1) - 1]]
      BY <1>1, <1>3
    <3>3. \A k \in 1 .. Used(r, w) - rto : k + (rto + 1) - 1 = rto + k
      BY <1>1
    <3>4. QED
      BY <3>1, <3>2, <3>3
  <2>3. ASSUME NEW k \in 1 .. Used(r, w) - rto
        PROVE  data[Slot(readIndex' + k - 1)] = q[rto + k]
    <3>1. rto + k \in 1 .. Used(r, w)
      BY <1>1
    <3>2. QED
      BY <3>1, <1>4 DEF Contents
  <2>4. QED
    BY <2>1, <2>2, <2>3
<1>6. rto \in 1 .. Len(q)
  BY <1>1, <1>3
<1>7. QED
  BY <1>5, <1>6 DEF Queue!Get

\* Every step of the two threads is a put, a get, the straying or invisible.
LEMMA StepRefines ==
  ASSUME IInv, [Next]_vars
  PROVE  [Queue!Next]_(IF strayed THEN << >>
                       ELSE Contents(readIndex, writeIndex, data))
<1> DEFINE q == IF strayed THEN << >> ELSE Contents(readIndex, writeIndex, data)
<1>1. CASE strayed'
  BY <1>1 DEF Queue!Next, Queue!Clear
<1>2. SUFFICES ASSUME ~strayed' PROVE [Queue!Next]_q
  BY <1>1
<1>3. \/ UNCHANGED << buffer, strayed >> \/ (UNCHANGED buffer /\ CommitReadChecks)
      \/ \E b \in Byte : CopyByte(b)
      \/ AddToWriteIndex \/ ReduceWriteIndex \/ AddToReadIndex \/ ReduceReadIndex
  <2>1. CASE (\E n \in 1 .. MaxWrite : StartWrite(n)) \/ UNCHANGED vars
    BY <2>1 DEF StartWrite, vars, reader
  <2>2. CASE WriterStep
    BY <2>2 DEF WriterStep, LoadReadIndex, NoSpace, FindSpace,
                CommitWriteGivesUp, CommitWriteChecks, reader
  <2>3. CASE ReaderStep
    BY <2>3 DEF ReaderStep, StartFlush, LoadWriteIndex, NothingToRead,
                FindData, WriteToFd, CommitReadGivesUp, CommitReadChecks
  <2>4. QED
    BY <2>1, <2>2, <2>3 DEF Next
<1>4. ~strayed
  BY <1>2, <1>3 DEF CommitReadChecks, CopyByte, AddToWriteIndex, ReduceWriteIndex,
                    AddToReadIndex, ReduceReadIndex, reader
<1>5. CASE UNCHANGED buffer
  BY <1>2, <1>4, <1>5 DEF buffer, Contents
<1>6. CASE (\E b \in Byte : CopyByte(b)) \/ ReduceWriteIndex \/ ReduceReadIndex
  BY <1>2, <1>4, <1>6, CopyKeepsContents, ReduceKeepsContents
<1>7. CASE AddToWriteIndex
  BY <1>2, <1>4, <1>7, CommitWritePuts DEF Queue!Next
<1>8. CASE AddToReadIndex
  BY <1>2, <1>4, <1>8, CommitReadGets DEF Queue!Next
<1>9. QED
  BY <1>3, <1>5, <1>6, <1>7, <1>8

\* The two threads together behave like one queue of bytes, of any size, until
\* a commit_read goes by an index between its two stores.
THEOREM Implementation == Spec => ImplementsQueue
<1>1. Init => Queue!Init
  <2> SUFFICES ASSUME Init PROVE Contents(0, 0, data) = << >>
    BY DEF Init, Queue!Init
  <2>1. Used(0, 0) = 0
    BY UsedOf, SizeAssumption DEF Index
  <2>2. QED
    BY <2>1 DEF Contents
<1>2. IInv /\ [Next]_vars => [Queue!Next]_(IF strayed THEN << >>
                               ELSE Contents(readIndex, writeIndex, data))
  BY StepRefines
<1>3. QED
  BY <1>1, <1>2, InvariantHolds, PTL DEF Spec, ImplementsQueue, Queue!Spec
=============================================================================
