------------------------------ MODULE MemoryReader -----------------------------
(***************************************************************************)
(* libdebug/memory-reader.c: a cursor over the bytes of a mapped file.     *)
(*                                                                         *)
(* A byte is the set of its bits that are set, a number the set of the     *)
(* positions 0 .. 63.  A reader is [bytes, current, lsb, ok], with ok      *)
(* FALSE for the status -1; a read gives [value, reader].                  *)
(***************************************************************************)
EXTENDS Integers, Sequences, FiniteSetsExt

ReaderInitialize(bytes, lsb) == [bytes |-> bytes, current |-> 0, lsb |-> lsb, ok |-> TRUE]

Ones(width) == 0 .. width - 1
Number(bits) == SumSet({2 ^ b : b \in bits})

Left(r) == Len(r.bytes) - r.current
Ahead(r, k) == r.bytes[r.current + k]
Failed(r) == [r EXCEPT !.ok = FALSE]
Shift(bits, by) == {b + by : b \in bits} \cap Ones(64)

Seek(r, offset) == IF Len(r.bytes) < offset THEN Failed(r) ELSE [r EXCEPT !.current = offset]

SkipMutant(r, n) ==   \* too large a step stays where it is, unnoticed
  IF Left(r) < n THEN r ELSE [r EXCEPT !.current = @ + n]
Skip(r, n) == IF Left(r) < n THEN Failed(r) ELSE [r EXCEPT !.current = @ + n]

\* A count no buffer here is as long as fails like any other that is too large.
SkipCount(r, bits) == IF bits \subseteq Ones(16) THEN Skip(r, Number(bits)) ELSE Failed(r)

\* read_u8, read_u16, read_u32 and read_u64.
ReadFixed(r, n) ==
  IF Left(r) < n THEN [value |-> Ones(8 * n), reader |-> Failed(r)]
  ELSE [value  |-> UNION {Shift(Ahead(r, k), 8 * (IF r.lsb THEN k - 1 ELSE n - k)) : k \in 1 .. n},
        reader |-> [r EXCEPT !.current = @ + n]]

\* read_u: 32 bits of a number of "length" bytes.
ReadU(r, length) ==
  [ReadFixed(r, IF length \in {1, 2, 4} THEN length ELSE 8) EXCEPT !.value = @ \cap Ones(32)]

\* A shift of an int that is widened after it: the processor takes the count
\* modulo 32, and the sign is spread.
IntShift(bits, by) ==
  LET int == {b + (by % 32) : b \in bits} \cap Ones(32)
  IN int \cup (IF 31 \in int THEN 32 .. 63 ELSE {})

\* The places of bytes without the continuation bit.
Stops(r, most) == {k \in 1 .. Min({most, Left(r)}) : 7 \notin Ahead(r, k)}

ReadUleb128(r) ==
  LET stops == Stops(r, 9)
      n == Min(stops \cup {9, Left(r)})
  IN [value  |-> IF stops = {} /\ n < 9 THEN Ones(64)
                 ELSE UNION {IntShift(Ahead(r, k) \ {7}, 7 * (k - 1)) : k \in 1 .. n},
      reader |-> [r EXCEPT !.current = @ + n, !.ok = @ /\ stops # {}]]

\* Empty when it does not return: behind the last byte read_u8 gives 0xff, which
\* continues the number for ever.  The count of the shift has eight bits, of which
\* the processor takes six for a number of 64 bits and five for an int.
ReadSleb128(r) ==
  LET stops == Stops(r, Left(r))
      shift(n) == (7 * n) % 256
      sign(n)  == IF shift(n) < 64 /\ 6 \in Ahead(r, n) THEN shift(n) % 32 .. 63 ELSE {}
  IN {[value  |-> UNION {Shift(Ahead(r, k) \ {7}, shift(k - 1) % 64) : k \in 1 .. n} \cup sign(n),
       reader |-> [r EXCEPT !.current = @ + n]] : n \in {n \in stops : \A k \in stops : n <= k}}

\* The byte behind a string; empty when there is none, as above.
PastString(r) ==
  LET zeros == {k \in 1 .. Left(r) : Ahead(r, k) = {}}
  IN {[r EXCEPT !.current = @ + n] : n \in {n \in zeros : \A k \in zeros : n <= k}}
================================================================================
