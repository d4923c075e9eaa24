--------------------------- MODULE RingIndexProofs ---------------------------
(***************************************************************************)
(* Facts about the index arithmetic of circular-buffer.c, for a buffer of  *)
(* any size.  The first three turn % into linear arithmetic; everything    *)
(* after them is a case analysis on which index is ahead.                  *)
(***************************************************************************)
EXTENDS RingIndex, TLAPS

\* An index below twice the size stands for itself or for itself minus Size.
LEMMA SlotOf ==
  ASSUME NEW x \in Index
  PROVE  Slot(x) = IF x < Size THEN x ELSE x - Size
<1>1. CASE x < Size
  BY <1>1, SizeAssumption, SMT DEF Slot, Index
<1>2. CASE x >= Size
  BY <1>2, SizeAssumption, SMT DEF Slot, Index
<1>3. QED
  BY <1>1, <1>2, SizeAssumption DEF Index

\* Reducing an index that has grown by at most one buffer.
LEMMA ReduceOf ==
  ASSUME NEW x \in Nat, x < 4 * Size
  PROVE  Reduce(x) = IF x < 2 * Size THEN x ELSE x - 2 * Size
<1>1. CASE x < 2 * Size
  BY <1>1, SizeAssumption, SMT DEF Reduce
<1>2. CASE x >= 2 * Size
  BY <1>2, SizeAssumption, SMT DEF Reduce
<1>3. QED
  BY <1>1, <1>2, SizeAssumption

\* The slot of a sum of an index and an offset, which may have passed the end of
\* the indexes, too.
LEMMA SlotOfSum ==
  ASSUME NEW x \in Nat, x < 4 * Size
  PROVE  Slot(x) = IF x < Size THEN x
                   ELSE IF x < 2 * Size THEN x - Size
                   ELSE IF x < 3 * Size THEN x - 2 * Size
                   ELSE x - 3 * Size
<1>1. CASE x < Size
  BY <1>1, SizeAssumption, SMT DEF Slot
<1>2. CASE x >= Size /\ x < 2 * Size
  BY <1>2, SizeAssumption, SMT DEF Slot
<1>3. CASE x >= 2 * Size /\ x < 3 * Size
  BY <1>3, SizeAssumption, SMT DEF Slot
<1>4. CASE x >= 3 * Size
  BY <1>4, SizeAssumption, SMT DEF Slot
<1> QED BY <1>1, <1>2, <1>3, <1>4, SizeAssumption

LEMMA SlotInRange == ASSUME NEW x \in Nat, x < 4 * Size PROVE Slot(x) \in Slots
BY SlotOfSum, SizeAssumption DEF Slots

\* The distance between two indexes in range.
LEMMA UsedOf ==
  ASSUME NEW r \in Index, NEW w \in Index
  PROVE  /\ Used(r, w) = IF w >= r THEN w - r ELSE w + 2 * Size - r
         /\ Used(r, w) \in Nat
<1>1. Reduce(r) = r /\ Reduce(w) = w
  BY ReduceOf, SizeAssumption DEF Index
<1>2. QED
  BY <1>1, SizeAssumption DEF Used, Index

\* get_write_size, even with two loads of a read index that moves from s to r
\* in between: the room it reports is in one piece, and it is free.
LEMMA WriteRoom ==
  ASSUME NEW s \in Index, NEW r \in Index, NEW w \in Index, NEW raw \in {s, r},
         Used(s, w) =< Size, Used(r, w) =< Used(s, w)
  PROVE  LET left == WriteSizeOf(Slot(s), raw, w)
         IN  /\ left \in 0 .. Size
             /\ Slot(w) + left =< Size
             /\ left =< Free(r, w)
             /\ \A n \in Nat : n =< Free(s, w) /\ Slot(w) + n =< Size => n =< left
<1>1. /\ Slot(s) = IF s < Size THEN s ELSE s - Size
      /\ Slot(w) = IF w < Size THEN w ELSE w - Size
  BY SlotOf
<1>2. /\ Used(s, w) = IF w >= s THEN w - s ELSE w + 2 * Size - s
      /\ Used(r, w) = IF w >= r THEN w - r ELSE w + 2 * Size - r
  BY UsedOf
<1>3. QED
  BY <1>1, <1>2, SizeAssumption, SMT DEF WriteSizeOf, Free, Index

\* get_read_size with two loads of a write index that moves from s to w: the
\* piece never leaves data[].  If the first load already saw bytes, it is made
\* of bytes seen then, and it is all of them or reaches the end of data[].
LEMMA ReadPiece ==
  ASSUME NEW r \in Index, NEW s \in Index, NEW w \in Index, NEW raw \in {s, w},
         Used(r, w) =< Size, Used(r, s) =< Used(r, w)
  PROVE  LET left == ReadSizeOf(Slot(s), raw, r)
         IN  /\ left \in 0 .. Size
             /\ Slot(r) + left =< Size
             /\ left > 0 => Used(r, w) > 0
             /\ Used(r, s) > 0 =>
                  /\ left > 0 /\ left =< Used(r, s)
                  /\ left = Used(r, s) \/ Slot(r) + left = Size
                  /\ \A n \in Nat : n =< Used(r, s) /\ Slot(r) + n =< Size
                                      => n =< left
<1>1. /\ Slot(s) = IF s < Size THEN s ELSE s - Size
      /\ Slot(r) = IF r < Size THEN r ELSE r - Size
  BY SlotOf
<1>2. /\ Used(r, s) = IF s >= r THEN s - r ELSE s + 2 * Size - r
      /\ Used(r, w) = IF w >= r THEN w - r ELSE w + 2 * Size - r
  BY UsedOf
<1>3. QED
  BY <1>1, <1>2, SizeAssumption, SMT DEF ReadSizeOf, Index

\* Committing n written bytes moves the write index n further away.
LEMMA AdvanceWrite ==
  ASSUME NEW r \in Index, NEW w \in Index, NEW n \in Nat,
         Used(r, w) + n =< Size
  PROVE  /\ Advance(w, n) \in Index
         /\ Used(r, Advance(w, n)) = Used(r, w) + n
<1>1. Used(r, w) = IF w >= r THEN w - r ELSE w + 2 * Size - r
  BY UsedOf
<1>2. w + n \in Nat /\ w + n < 4 * Size
  BY <1>1, SizeAssumption DEF Index
<1>3. Advance(w, n) = IF w + n < 2 * Size THEN w + n ELSE w + n - 2 * Size
  BY <1>2, ReduceOf, SizeAssumption, SMT DEF Advance, Index
<1>4. Advance(w, n) \in Index
  BY <1>2, <1>3, <1>1, SizeAssumption, SMT DEF Index
<1>5. Used(r, Advance(w, n)) = IF Advance(w, n) >= r THEN Advance(w, n) - r
                               ELSE Advance(w, n) + 2 * Size - r
  BY <1>4, UsedOf
<1>6. QED
  BY <1>1, <1>3, <1>4, <1>5, SizeAssumption, SMT DEF Index

\* Committing n read bytes moves the read index n closer, and a piece that
\* reaches the end of data[] takes it to the start.
LEMMA AdvanceRead ==
  ASSUME NEW r \in Index, NEW w \in Index, NEW n \in Nat,
         Used(r, w) =< Size, n =< Used(r, w)
  PROVE  /\ Advance(r, n) \in Index
         /\ Used(Advance(r, n), w) = Used(r, w) - n
         /\ Slot(r) + n = Size => Slot(Advance(r, n)) = 0
<1>1. Used(r, w) = IF w >= r THEN w - r ELSE w + 2 * Size - r
  BY UsedOf
<1>2. r + n \in Nat /\ r + n < 4 * Size
  BY <1>1, SizeAssumption DEF Index
<1>3. Advance(r, n) = IF r + n < 2 * Size THEN r + n ELSE r + n - 2 * Size
  BY <1>2, ReduceOf, SizeAssumption, SMT DEF Advance, Index
<1>4. Advance(r, n) \in Index
  BY <1>2, <1>3, <1>1, SizeAssumption, SMT DEF Index
<1>5. Used(Advance(r, n), w) = IF w >= Advance(r, n) THEN w - Advance(r, n)
                               ELSE w + 2 * Size - Advance(r, n)
  BY <1>4, UsedOf
<1>6. Used(Advance(r, n), w) = Used(r, w) - n
  BY <1>1, <1>3, <1>4, <1>5, SizeAssumption, SMT DEF Index
<1>7. ASSUME Slot(r) + n = Size PROVE Slot(Advance(r, n)) = 0
  <2>1. /\ Slot(r) = IF r < Size THEN r ELSE r - Size
        /\ Slot(Advance(r, n)) = IF Advance(r, n) < Size THEN Advance(r, n)
                                 ELSE Advance(r, n) - Size
    BY <1>4, SlotOf
  <2>2. QED
    BY <2>1, <1>3, <1>7, SizeAssumption, SMT DEF Index
<1>8. QED
  BY <1>4, <1>6, <1>7

\* The two iterations of flush_thread on a buffer nobody writes to leave it
\* empty: the second one starts at the start of data[] or finds nothing.
THEOREM TwoPassesDrain ==
  ASSUME NEW r \in Index, NEW w \in Index, Used(r, w) =< Size
  PROVE  LET r1 == Advance(r, ReadSize(r, w))
             r2 == Advance(r1, ReadSize(r1, w))
         IN  Used(r2, w) = 0
<1> DEFINE n1 == ReadSize(r, w)
           r1 == Advance(r, n1)
           n2 == ReadSize(r1, w)
           r2 == Advance(r1, n2)
<1>0. \A i \in Index : Used(i, w) = 0 => ReadSize(i, w) = 0
  <2> TAKE i \in Index
  <2>1. Used(i, w) = IF w >= i THEN w - i ELSE w + 2 * Size - i
    BY UsedOf
  <2>2. Used(i, w) = 0 => i = w
    BY <2>1, SizeAssumption, SMT DEF Index
  <2>3. QED
    BY <2>2 DEF ReadSize, ReadSizeOf
<1>1. /\ n1 \in 0 .. Size
      /\ Used(r, w) > 0 => /\ n1 =< Used(r, w)
                           /\ n1 = Used(r, w) \/ Slot(r) + n1 = Size
  BY ReadPiece, UsedOf, SizeAssumption, SMT DEF ReadSize
<1>2. n1 \in Nat /\ n1 =< Used(r, w)
  BY <1>0, <1>1, UsedOf, SizeAssumption
<1>3. /\ r1 \in Index
      /\ Used(r1, w) = Used(r, w) - n1
      /\ Slot(r) + n1 = Size => Slot(r1) = 0
  BY <1>2, AdvanceRead
<1>4. Used(r1, w) \in Nat /\ Used(r1, w) =< Size
  BY <1>2, <1>3, UsedOf, SizeAssumption
<1>5. /\ n2 \in 0 .. Size
      /\ Used(r1, w) > 0 => /\ n2 =< Used(r1, w)
                            /\ n2 = Used(r1, w) \/ Slot(r1) + n2 = Size
  BY <1>3, <1>4, ReadPiece DEF ReadSize
<1>6. n2 = Used(r1, w)
  <2>1. CASE Used(r1, w) = 0
    BY <2>1, <1>0, <1>3
  <2>2. CASE Used(r1, w) > 0
    <3>1. Slot(r1) = 0
      BY <2>2, <1>1, <1>2, <1>3, UsedOf, SizeAssumption
    <3>2. QED
      BY <2>2, <3>1, <1>4, <1>5, SizeAssumption
  <2>3. QED
    BY <2>1, <2>2, <1>4
<1>7. Used(r2, w) = Used(r1, w) - n2
  BY <1>3, <1>4, <1>6, AdvanceRead
<1>8. QED
  BY <1>4, <1>6, <1>7
=============================================================================
