------------------------------ MODULE ByteQueue ------------------------------
(***************************************************************************)
(* What a buffer between one writer and one reader promises: the bytes     *)
(* come out in the order in which they went in, none is lost, repeated or  *)
(* changed, and there are never more than Capacity of them.                *)
(***************************************************************************)
EXTENDS Integers, Sequences

CONSTANTS Capacity,     \* how many bytes the buffer holds
          Byte          \* the values a byte may have

VARIABLE queue

Init == queue = << >>

Put == \E n \in 1 .. Capacity - Len(queue) :
         \E s \in [1 .. n -> Byte] : queue' = queue \o s

Get == \E n \in 1 .. Len(queue) : queue' = SubSeq(queue, n + 1, Len(queue))

\* circular_buffer_initialize on a buffer that is in use.
Clear == queue' = << >>

Next == Put \/ Get \/ Clear

Spec == Init /\ [][Next]_queue
=============================================================================
