----------------------------- MODULE SharedBuffer -----------------------------
(***************************************************************************)
(* One profiled thread and the manager thread sharing a circular buffer    *)
(* without a lock: write_data (libprofiler/record.c) against flush_thread  *)
(* (libprofiler/manager.c), one step per access to the shared indexes, as  *)
(* the only build of the Makefile (-O0) performs them.  Both get_..._size  *)
(* functions load the index of the other side twice, and both commit       *)
(* functions store the increased index before they store the reduced one.  *)
(* write(2) is the output the outside sees, so the bytes it is given are   *)
(* kept in sent until flush_thread commits them or is refused.             *)
(***************************************************************************)
EXTENDS RingIndex, Sequences

CONSTANTS Byte,         \* the values a byte may have
          MaxWrite      \* longest piece of data given to write_data

ASSUME MaxWriteAssumption == MaxWrite \in Nat \ {0}

VARIABLES
  readIndex, writeIndex, data,   \* struct circular_buffer_t
  wpc,      \* where the writer is
  wsize,    \* size: bytes write_data still has to write
  wseen,    \* the read index the writer loaded first
  wto,      \* to_write
  wdone,    \* bytes memcpy has copied so far
  rpc,      \* where the reader is
  rpass,    \* i of flush_thread
  rseen,    \* the write index the reader loaded first
  rto,      \* to_write of flush_thread
  sent,     \* the bytes write_to_fd has passed to write(2) in this call
  owed,     \* ghost: bytes present when flush_thread began, still unread
  blind,    \* ghost: the piece was sized after a load that saw no bytes
  phantom,  \* ghost: the piece was sized by an index between its two stores
  strayed   \* ghost: a commit_read that went by such an index was let through

buffer == << readIndex, writeIndex, data >>
writer == << wpc, wsize, wseen, wto, wdone >>
reader == << rpc, rpass, rseen, rto, sent, owed, blind, phantom, strayed >>
vars   == << buffer, writer, reader >>

Init ==
  /\ readIndex = 0 /\ writeIndex = 0
  /\ data \in [Slots -> Byte]
  /\ wpc = "idle" /\ wsize = 0 /\ wseen = 0 /\ wto = 0 /\ wdone = 0
  /\ rpc = "idle" /\ rpass = 0 /\ rseen = 0 /\ rto = 0 /\ sent = << >>
  /\ owed = 0 /\ blind = FALSE /\ phantom = FALSE /\ strayed = FALSE

-----------------------------------------------------------------------------
(* The writer: write_data *)

StartWrite(n) ==
  /\ wpc = "idle"
  /\ wpc' = "first_load" /\ wsize' = n
  /\ UNCHANGED << buffer, reader, wseen, wto, wdone >>

\* get_write_size, first load; called by write_data and by commit_write.
LoadReadIndex(from, to) ==
  /\ wpc = from
  /\ wpc' = to /\ wseen' = readIndex
  /\ UNCHANGED << buffer, reader, wsize, wto, wdone >>

\* The rest of get_write_size, with its second load.
WriteLeft == WriteSizeOf(Slot(wseen), readIndex, writeIndex)

NoSpace ==
  /\ wpc = "second_load" /\ WriteLeft = 0
  /\ wpc' = "first_load"
  /\ UNCHANGED << buffer, reader, wsize, wseen, wto, wdone >>

\* Mutant of FindSpace: to_write is not limited to the room there is.
FindAnySpace ==
  /\ wpc = "second_load" /\ WriteLeft > 0
  /\ wpc' = "copy" /\ wto' = Least(wsize, Size) /\ wdone' = 0
  /\ UNCHANGED << buffer, reader, wsize, wseen >>

FindSpace ==
  /\ wpc = "second_load" /\ WriteLeft > 0
  /\ wpc' = "copy" /\ wto' = Least(WriteLeft, wsize) /\ wdone' = 0
  /\ UNCHANGED << buffer, reader, wsize, wseen >>

\* Mutant of CopyByte: memcpy to the read pointer.
CopyByteToRead(b) ==
  /\ wpc = "copy"
  /\ data' = [data EXCEPT ![Slot(readIndex) + wdone] = b]
  /\ wdone' = wdone + 1
  /\ wpc' = IF wdone + 1 = wto THEN "commit_first_load" ELSE "copy"
  /\ UNCHANGED << readIndex, writeIndex, reader, wsize, wseen, wto >>

CopyByte(b) ==
  /\ wpc = "copy"
  /\ data' = [data EXCEPT ![Slot(writeIndex) + wdone] = b]
  /\ wdone' = wdone + 1
  /\ wpc' = IF wdone + 1 = wto THEN "commit_first_load" ELSE "copy"
  /\ UNCHANGED << readIndex, writeIndex, reader, wsize, wseen, wto >>

\* write_data goes on behind the to_write bytes it has just handled.
NextPiece ==
  /\ wsize' = wsize - wto
  /\ wpc' = IF wsize = wto THEN "idle" ELSE "first_load"

\* commit_write finds less room than write_data did and returns.
CommitWriteGivesUp ==
  /\ wpc = "commit_second_load" /\ WriteLeft < wto
  /\ NextPiece
  /\ UNCHANGED << buffer, reader, wseen, wto, wdone >>

CommitWriteChecks ==
  /\ wpc = "commit_second_load" /\ WriteLeft >= wto
  /\ wpc' = "add"
  /\ UNCHANGED << buffer, reader, wsize, wseen, wto, wdone >>

AddToWriteIndex ==
  /\ wpc = "add"
  /\ writeIndex' = writeIndex + wto
  /\ wpc' = "reduce"
  /\ UNCHANGED << readIndex, data, reader, wsize, wseen, wto, wdone >>

\* Mutant of ReduceWriteIndex: the increased index stays as it is.
KeepWriteIndex ==
  /\ wpc = "reduce"
  /\ NextPiece
  /\ UNCHANGED << buffer, reader, wseen, wto, wdone >>

ReduceWriteIndex ==
  /\ wpc = "reduce"
  /\ writeIndex' = Reduce(writeIndex)
  /\ NextPiece
  /\ UNCHANGED << readIndex, data, reader, wseen, wto, wdone >>

WriterStep ==
  \/ LoadReadIndex("first_load", "second_load")
  \/ NoSpace
  \/ FindSpace
  \/ \E b \in Byte : CopyByte(b)
  \/ LoadReadIndex("commit_first_load", "commit_second_load")
  \/ CommitWriteGivesUp
  \/ CommitWriteChecks
  \/ AddToWriteIndex
  \/ ReduceWriteIndex

-----------------------------------------------------------------------------
(* The reader: flush_thread *)

StartFlush ==
  /\ rpc = "idle"
  /\ rpc' = "first_load" /\ rpass' = 0
  /\ owed' = Used(readIndex, writeIndex)
  /\ UNCHANGED << buffer, writer, rseen, rto, sent, blind, phantom, strayed >>

\* get_read_size, first load; called by flush_thread and by commit_read.
LoadWriteIndex(from, to) ==
  /\ rpc = from
  /\ rpc' = to /\ rseen' = writeIndex
  /\ UNCHANGED << buffer, writer, rpass, rto, sent, owed, blind, phantom, strayed >>

\* The rest of get_read_size, with its second load.
ReadLeft == ReadSizeOf(Slot(rseen), writeIndex, readIndex)

\* The comparison is one of indexes that are not reduced: against readIndex = 0
\* the value of writeIndex between its two stores looks like a full buffer.
BetweenStores == readIndex = 0 /\ writeIndex = 2 * Size

\* Mutant of NextPass: flush_thread without its loop.
NoNextPass == rpass' = 0 /\ rpc' = "idle"

\* The next of the two iterations of flush_thread, or its end.
NextPass ==
  IF rpass = 0 THEN rpass' = 1 /\ rpc' = "first_load"
               ELSE rpass' = 0 /\ rpc' = "idle"

NothingToRead ==
  /\ rpc = "second_load" /\ ReadLeft = 0
  /\ NextPass
  /\ UNCHANGED << buffer, writer, rseen, rto, sent, owed, blind, phantom, strayed >>

FindData ==
  /\ rpc = "second_load" /\ ReadLeft > 0
  /\ rpc' = "write" /\ rto' = ReadLeft
  /\ blind' = (Used(readIndex, rseen) = 0) /\ phantom' = BetweenStores
  /\ UNCHANGED << buffer, writer, rpass, rseen, sent, owed, strayed >>

\* The n bytes behind those sent, as they are in data[] now.
Upcoming(n) == [k \in 1 .. n |-> data[Slot(readIndex) + Len(sent) + k - 1]]

\* Mutant of WriteToFd: a short write is repeated from the start.
WriteAgain(n) ==
  /\ rpc = "write" /\ n =< rto - Len(sent)
  /\ sent' = sent \o [k \in 1 .. n |-> data[Slot(readIndex) + k - 1]]
  /\ rpc' = IF Len(sent) + n = rto THEN "commit_first_load" ELSE "write"
  /\ UNCHANGED << buffer, writer, rpass, rseen, rto, owed, blind, phantom, strayed >>

\* A write(2) of write_to_fd that takes n bytes; one that fails is repeated.
WriteToFd(n) ==
  /\ rpc = "write" /\ n =< rto - Len(sent)
  /\ sent' = sent \o Upcoming(n)
  /\ rpc' = IF Len(sent) + n = rto THEN "commit_first_load" ELSE "write"
  /\ UNCHANGED << buffer, writer, rpass, rseen, rto, owed, blind, phantom, strayed >>

\* commit_read finds less than flush_thread did and returns.
CommitReadGivesUp ==
  /\ rpc = "commit_second_load" /\ ReadLeft < rto
  /\ NextPass
  /\ sent' = << >> /\ blind' = FALSE /\ phantom' = FALSE
  /\ UNCHANGED << buffer, writer, rseen, rto, owed, strayed >>

\* Mutant of CommitReadChecks: commit_read without its check.
CommitReadUnchecked ==
  /\ rpc = "commit_second_load"
  /\ rpc' = "add"
  /\ strayed' = (strayed \/ phantom \/ BetweenStores)
  /\ UNCHANGED << buffer, writer, rpass, rseen, rto, sent, owed, blind, phantom >>

CommitReadChecks ==
  /\ rpc = "commit_second_load" /\ ReadLeft >= rto
  /\ rpc' = "add"
  /\ strayed' = (strayed \/ phantom \/ BetweenStores)
  /\ UNCHANGED << buffer, writer, rpass, rseen, rto, sent, owed, blind, phantom >>

AddToReadIndex ==
  /\ rpc = "add"
  /\ readIndex' = readIndex + rto
  /\ rpc' = "reduce"
  /\ owed' = IF rto >= owed THEN 0 ELSE owed - rto
  /\ sent' = << >> /\ blind' = FALSE /\ phantom' = FALSE
  /\ UNCHANGED << writeIndex, data, writer, rpass, rseen, rto, strayed >>

\* Mutant of ReduceReadIndex: the increased index stays as it is.
KeepReadIndex ==
  /\ rpc = "reduce"
  /\ NextPass
  /\ UNCHANGED << buffer, writer, rseen, rto, sent, owed, blind, phantom, strayed >>

ReduceReadIndex ==
  /\ rpc = "reduce"
  /\ readIndex' = Reduce(readIndex)
  /\ NextPass
  /\ UNCHANGED << writeIndex, data, writer, rseen, rto, sent, owed, blind, phantom, strayed >>

ReaderStep ==
  \/ StartFlush
  \/ LoadWriteIndex("first_load", "second_load")
  \/ NothingToRead
  \/ FindData
  \/ \E n \in 1 .. Size : WriteToFd(n)
  \/ LoadWriteIndex("commit_first_load", "commit_second_load")
  \/ CommitReadGivesUp
  \/ CommitReadChecks
  \/ AddToReadIndex
  \/ ReduceReadIndex

-----------------------------------------------------------------------------
Next == (\E n \in 1 .. MaxWrite : StartWrite(n)) \/ WriterStep \/ ReaderStep

Spec == Init /\ [][Next]_vars

\* Both threads are scheduled again and again, and write(2) does not fail
\* for ever: then each side takes the step it can take.
FairSpec == Spec /\ WF_vars(WriterStep) /\ WF_vars(ReaderStep)

-----------------------------------------------------------------------------
(* Properties *)

Holding == {"copy", "commit_first_load", "commit_second_load", "add"}
Taking  == {"write", "commit_first_load", "commit_second_load", "add"}

\* The indexes, the locals and the places of the two threads.
TypeOK ==
  /\ readIndex \in Raw /\ writeIndex \in Raw
  /\ data \in [Slots -> Byte]
  /\ wpc \in Holding \cup {"idle", "first_load", "second_load", "reduce"}
  /\ wsize \in 0 .. MaxWrite /\ wseen \in Raw
  /\ wto \in 0 .. Size /\ wdone \in 0 .. Size
  /\ rpc \in Taking \cup {"idle", "first_load", "second_load", "reduce"}
  /\ rpass \in {0, 1} /\ rseen \in Raw
  /\ rto \in 0 .. Size
  /\ sent \in Seq(Byte) /\ Len(sent) =< Size
  /\ owed \in 0 .. 2 * Size
  /\ blind \in BOOLEAN /\ phantom \in BOOLEAN /\ strayed \in BOOLEAN

\* memcpy in write_data and write(2) in write_to_fd stay inside data[], even
\* when the size they use was computed from two different index values.
WithinArray ==
  /\ wpc \in Holding => Slot(writeIndex) + wto =< Size
  /\ rpc \in Taking => Slot(readIndex) + rto =< Size

\* write_data copies only into room that holds no unread byte, however far
\* the reader has come meanwhile and between which two stores it is.
NoOverwrite == wpc \in Holding /\ ~strayed => wto =< Free(readIndex, writeIndex)

\* Torn loads alone never take the read index past the write index
\* (circular-buffer.c: "disambiguate the empty and full buffer conditions"):
\* it takes a query that met the write index between its two stores.
ReaderStaysBehind ==
  rpc = "add" /\ ~strayed => rto =< Used(readIndex, writeIndex)

\* commit_write drops what write_data has copied (circular-buffer.h: "record in
\* the buffer that size bytes have been written to") in one state only: the
\* buffer is empty and its read index is between its two stores.
CommitWriteRecords ==
  wpc = "commit_second_load" /\ ~strayed =>
    WriteLeft >= wto \/ (readIndex = 2 * Size /\ writeIndex = 0)

\* flush_thread passes only committed bytes to write(2) (circular-buffer.h:
\* "You can read up to n bytes in this buffer where n is the value returned").
FlushesCommitted == rpc \in Taking => rto =< Used(readIndex, writeIndex)

\* What a flush has passed to write(2) is the front of the unread bytes, and
\* commit_read takes out just that; only after a first load that saw an empty
\* buffer may flush_thread write what was not committed.
FlushesFront ==
  rpc \in Taking /\ ~blind /\ ~strayed =>
    /\ rto =< Used(readIndex, writeIndex)
    /\ \A k \in 1 .. Len(sent) : sent[k] = Contents(readIndex, writeIndex, data)[k]
    /\ rpc # "write" => Len(sent) = rto

\* Two iterations of flush_thread take out every byte that was in the buffer
\* when it began, also when the bytes wrap around and the writer is active.
FlushDrains == rpc = "idle" /\ ~strayed => owed = 0

\* Seen from outside the two threads run a first-in first-out queue of bytes,
\* up to the commit_read that goes by an index between its two stores.
Queue == INSTANCE ByteQueue
           WITH Capacity <- Size,
                queue    <- IF strayed THEN << >>
                            ELSE Contents(readIndex, writeIndex, data)
ImplementsQueue == Queue!Spec

\* Every call of write_data returns: the manager thread makes room for it.
WriteDataReturns == wpc # "idle" ~> wpc = "idle"

-----------------------------------------------------------------------------
(* The inductive invariant.  The parts on IndexOK, WriterHolds, ReaderTakes *)
(* hold in every state, the others until the read index strays.             *)

IndexOK ==
  /\ wpc # "reduce" => writeIndex \in Index
  /\ rpc # "reduce" => readIndex \in Index

WriterHolds ==
  /\ wpc # "idle" => wsize > 0
  /\ wpc \in Holding \cup {"reduce"} => wto > 0 /\ wto =< wsize
  /\ wpc \in Holding => Slot(writeIndex) + wto =< Size
  /\ wpc = "copy" => wdone < wto

ReaderTakes ==
  /\ rpc \in Taking => rto > 0 /\ Slot(readIndex) + rto =< Size
  /\ rpc = "write" => Len(sent) < rto
  /\ rpc \in Taking \ {"write"} => Len(sent) = rto
  /\ rpc \notin Taking => sent = << >>

\* The read index the writer loaded lies between one buffer behind the write
\* index and the read index of now; it allows for the bytes being committed.
RoomSeen ==
  /\ Used(readIndex, writeIndex) =< Size
  /\ wpc \in Holding => wto =< Free(readIndex, writeIndex)
  /\ wpc \in {"second_load", "commit_second_load"} =>
       /\ Used(wseen, writeIndex) =< Size
       /\ Used(readIndex, writeIndex) =< Used(wseen, writeIndex)
  /\ wpc = "commit_second_load" => wto =< Free(wseen, writeIndex)

\* The write index the reader loaded is not ahead of the write index of now,
\* and not behind the bytes the flush owes.
DataSeen ==
  /\ rpc \in {"second_load", "commit_second_load"} =>
       /\ Used(readIndex, rseen) =< Used(readIndex, writeIndex)
       /\ owed =< Used(readIndex, rseen)
  /\ rpc = "commit_second_load" => phantom \/ Used(readIndex, rseen) > 0
  /\ rpc \in {"write", "commit_first_load"} =>
       phantom \/ Used(readIndex, writeIndex) > 0
  /\ rpc \in Taking /\ phantom => owed = 0
  /\ rpc = "add" => rto =< Used(readIndex, writeIndex)

\* What a flush still owes is in the buffer; the first iteration leaves it
\* at the start of data[] and the second one takes it.
Owing ==
  /\ owed =< Used(readIndex, writeIndex)
  /\ rpc = "idle" => owed = 0
  /\ owed > 0 =>
       /\ rpass = 1 => Slot(readIndex) = 0
       /\ rpc = "reduce" => rpass = 0 /\ Slot(readIndex) = 0
       /\ rpc \in Taking => rto >= owed \/ Slot(readIndex) + rto = Size
       /\ rpc \in {"write", "commit_first_load"} => rto =< Used(readIndex, writeIndex)
       /\ rpc = "commit_second_load" => rto =< Used(readIndex, rseen)

\* The bytes sent are still where they were taken from.
SentFront ==
  rpc \in Taking /\ ~blind =>
    /\ rto =< Used(readIndex, writeIndex)
    /\ \A k \in 1 .. Len(sent) : sent[k] = data[Slot(readIndex + k - 1)]

Local == TypeOK /\ IndexOK /\ WriterHolds /\ ReaderTakes
Sound == RoomSeen /\ DataSeen /\ Owing /\ SentFront

IInv == Local /\ (~strayed => Sound)
=============================================================================
