---------------------------- MODULE CircularBuffer ----------------------------
(***************************************************************************)
(* libdebug/circular-buffer.c as its header offers it to one thread:       *)
(* bytes are stored behind the write pointer and then committed, read from *)
(* the read pointer and then committed; a commit of more than there is     *)
(* room for, or more than there is to read, is refused.                    *)
(***************************************************************************)
EXTENDS RingIndex, Sequences

CONSTANT Byte           \* the values a byte may have

VARIABLES readIndex, writeIndex, data

vars == << readIndex, writeIndex, data >>

Init ==
  /\ readIndex = 0 /\ writeIndex = 0
  /\ data \in [Slots -> Byte]

Initialize ==
  /\ readIndex' = 0 /\ writeIndex' = 0
  /\ UNCHANGED data

\* The client stores a byte behind peek_write_ptr, inside get_write_size.
Store(k, b) ==
  /\ k < WriteSize(readIndex, writeIndex)
  /\ data' = [data EXCEPT ![Slot(writeIndex) + k] = b]
  /\ UNCHANGED << readIndex, writeIndex >>

\* Mutant of CommitRead: more than there is to read is committed.
CommitReadUnchecked(n) ==
  /\ readIndex' = Advance(readIndex, n)
  /\ UNCHANGED << writeIndex, data >>

\* Both commits return without an effect when they are given too much.
CommitWrite(n) ==
  \/ WriteSize(readIndex, writeIndex) < n /\ UNCHANGED vars
  \/ /\ WriteSize(readIndex, writeIndex) >= n
     /\ writeIndex' = Advance(writeIndex, n)
     /\ UNCHANGED << readIndex, data >>

CommitRead(n) ==
  \/ ReadSize(readIndex, writeIndex) < n /\ UNCHANGED vars
  \/ /\ ReadSize(readIndex, writeIndex) >= n
     /\ readIndex' = Advance(readIndex, n)
     /\ UNCHANGED << writeIndex, data >>

(***************************************************************************)
(* flush_thread on the buffer of a thread that writes no more, as the      *)
(* destructor calls it: two iterations that each take one piece.           *)
(***************************************************************************)
Pass(r) == Advance(r, ReadSize(r, writeIndex))

FlushThread ==
  /\ readIndex' = Pass(Pass(readIndex))
  /\ UNCHANGED << writeIndex, data >>

Next ==
  \/ Initialize
  \/ \E k \in Slots, b \in Byte : Store(k, b)
  \/ \E n \in 1 .. Size + 1 : CommitWrite(n) \/ CommitRead(n)
  \/ FlushThread

Spec == Init /\ [][Next]_vars

-----------------------------------------------------------------------------
(* Properties *)

\* The buffer is a first-in first-out queue of Size bytes: the indexes up to 2n
\* tell a full buffer from an empty one (circular-buffer.c:25), a commit that
\* is refused loses nothing, and the two iterations of flush_thread take all
\* unread bytes in the order in which they were stored.
Queue == INSTANCE ByteQueue
           WITH Capacity <- Size,
                queue    <- Contents(readIndex, writeIndex, data)
ImplementsQueue == Queue!Spec
=============================================================================
