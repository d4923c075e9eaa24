------------------------------ MODULE RingIndex ------------------------------
(***************************************************************************)
(* The index arithmetic of libdebug/circular-buffer.c.  A buffer of Size   *)
(* bytes is addressed by two indexes that vary in 0 .. 2*Size-1, so that   *)
(* equal indexes mean "empty" and indexes Size apart mean "full".          *)
(***************************************************************************)
EXTENDS Integers

CONSTANT Size           \* CIRCULAR_BUFFER_SIZE

ASSUME SizeAssumption == Size \in Nat \ {0}

Slots == 0 .. Size - 1
Index == 0 .. 2 * Size - 1

\* The values of an index that a commit has increased and not yet reduced.
Raw == 0 .. 2 * Size

\* The offset in data[] an index stands for.
Slot(i) == i % Size

\* What commit_read and commit_write do to an index they have increased.
Reduce(i) == i % (2 * Size)

Least(a, b) == IF a =< b THEN a ELSE b

\* Mutant of WriteSizeOf: a full buffer is not told from an empty one.
WriteSizeWhenFull(readSlot, readRaw, w) ==
  IF readSlot > Slot(w) THEN readSlot - Slot(w) ELSE Size - Slot(w)

\* Mutant of ReadSizeOf: a full buffer is not told from an empty one.
ReadSizeWhenFull(writeSlot, writeRaw, r) ==
  IF Slot(r) = writeSlot THEN 0
  ELSE IF Slot(r) < writeSlot THEN writeSlot - Slot(r)
  ELSE Size - Slot(r)

(***************************************************************************)
(* get_write_size and get_read_size, as functions of the values they load. *)
(* Each of them loads the index of the other side twice: once to reduce it *)
(* to a slot and once to compare it with its own index.                    *)
(***************************************************************************)
WriteSizeOf(readSlot, readRaw, w) ==
  IF readRaw = w THEN Size - Slot(w)
  ELSE IF readSlot = Slot(w) THEN 0
  ELSE IF readSlot > Slot(w) THEN readSlot - Slot(w)
  ELSE Size - Slot(w)

ReadSizeOf(writeSlot, writeRaw, r) ==
  IF r = writeRaw THEN 0
  ELSE IF Slot(r) = writeSlot THEN Size - Slot(r)
  ELSE IF Slot(r) < writeSlot THEN writeSlot - Slot(r)
  ELSE Size - Slot(r)

\* The same when nothing moves between the two loads.
WriteSize(r, w) == WriteSizeOf(Slot(r), r, w)
ReadSize(r, w)  == ReadSizeOf(Slot(w), w, r)

Advance(i, n) == Reduce(i + n)

(***************************************************************************)
(* How many bytes lie between the read and the write index.                *)
(***************************************************************************)
Used(r, w) ==
  IF Reduce(w) >= Reduce(r) THEN Reduce(w) - Reduce(r)
                            ELSE Reduce(w) + 2 * Size - Reduce(r)

Free(r, w) == Size - Used(r, w)

\* The unread bytes, oldest first.
Contents(r, w, d) == [k \in 1 .. Used(r, w) |-> d[Slot(r + k - 1)]]
=============================================================================
