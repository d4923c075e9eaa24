------------------------------- MODULE Dwarf2Line ------------------------------
(***************************************************************************)
(* libdebug/dwarf2-line.c: the line program of a unit.                     *)
(*                                                                         *)
(* A program is the sequence of the bytes of the unit from its             *)
(* include_directories on, with the numbers of the prologue in front of    *)
(* them: [min_inst, line_base, line_range, opcode_base, lengths, first],   *)
(* where "lengths" are the bytes of standard_opcode_lengths and "first" is *)
(* where the prologue ends.  Offset p of the code is byte p + 1 of the     *)
(* sequence here.  Bytes below 128 stand for themselves in a LEB128, which *)
(* is all that the programs here use; of the registers of the line machine *)
(* those are kept that a lookup reads.                                     *)
(***************************************************************************)
EXTENDS Integers, SequencesExt

Signed(b)        == IF b < 64 THEN b ELSE b - 128
LittleEndian(bs) == FoldRight(LAMBDA b, acc : b + 256 * acc, bs, 0)
Bytes(prog, p, n) == LittleEndian(SubSeq(prog.bytes, p, p + n - 1))

\* A string ends behind the next 0.
EndOfString(bs, p) == Min({i \in p .. Len(bs) : bs[i] = 0}) + 1

(* The prologue *)

\* The places of the strings from "first" on, "gap" bytes apart.
StringsAt(bs, first, gap) ==
  LET at[i \in 1 .. Len(bs)] == IF i = 1 THEN first ELSE EndOfString(bs, at[i - 1]) + gap
  IN at

\* parse_cuh.  The byte behind a string tells whether there is another one, of
\* which it is then the first byte: there is at least one string, which is what
\* an empty list of directories is not.
LastString(bs, first, gap) ==
  LET at == StringsAt(bs, first, gap)
      last(i) == bs[EndOfString(bs, at[i]) + gap] = 0
  IN CHOOSE i \in DOMAIN bs : last(i) /\ \A j \in 1 .. i - 1 : ~last(j)

\* Behind the name of a file are its directory, time and length.
NumbersOfFile == 3

NDirectories(bs)   == LastString(bs, 1, 0)
DirectoriesEnd(bs) == EndOfString(bs, StringsAt(bs, 1, 0)[NDirectories(bs)]) + 1
NFiles(bs)         == LastString(bs, DirectoriesEnd(bs), NumbersOfFile)

\* dwarf2_line_read_file_information and dwarf2_line_read_directory_name: the
\* offset of the name; the index of the directory is behind the name.
FileName(prog, file) ==
  IF file = 0 \/ file > NFiles(prog.bytes) THEN {}
  ELSE {StringsAt(prog.bytes, DirectoriesEnd(prog.bytes), NumbersOfFile)[file]}

DirectoryOf(prog, name) == prog.bytes[EndOfString(prog.bytes, name)]

DirectoryName(prog, dir) ==
  IF dir > NDirectories(prog.bytes) THEN {} ELSE {StringsAt(prog.bytes, 1, 0)[dir]}

(* The line machine *)

Registers == [address |-> 0, file |-> 1, line |-> 1]

\* "state" is what the instructions in front have left, "new" what this one
\* makes of it; state_for_address returns "state".
Machine(prog) ==
  [offset |-> prog.first, state |-> Registers, new |-> Registers,
   found |-> FALSE, stopped |-> FALSE]

\* The callback of state_for_address, on the row that is appended.
Row(m, target) ==
  IF m.found THEN [m EXCEPT !.stopped = TRUE]
  ELSE IF target = m.new.address THEN [m EXCEPT !.found = TRUE]
  ELSE [m EXCEPT !.stopped = target < m.new.address]

To(m, offset)     == [m EXCEPT !.offset = offset]
Advance(m, delta) == [m EXCEPT !.new.address = m.state.address + delta]

\* An operand is looked up one place behind the opcode's: the last opcode has
\* the first byte of the directories for it.
Operands(prog, opcode) == (prog.lengths \o prog.bytes)[opcode + 1]

Extended(prog, m, target) ==
  LET length == prog.bytes[m.offset + 1]
      opcode == prog.bytes[m.offset + 2]
      behind == m.offset + 3
  IN CASE opcode = 1 -> To([Row(m, target) EXCEPT !.new = Registers], behind)
       [] opcode = 2 -> To([m EXCEPT !.new.address = Bytes(prog, behind, length - 1)],
                           behind + length - 1)
       [] opcode = 3 -> To(m, EndOfString(prog.bytes, behind) + 3 * 8)
       [] OTHER      -> To(m, behind + length)   \* the opcode is counted twice

Standard(prog, m, target, opcode) ==
  LET operand == prog.bytes[m.offset + 1]
      after   == To(m, m.offset + 1)
      after1  == To(m, m.offset + 2)
  IN CASE opcode = 1 -> Row(after, target)
       [] opcode = 2 -> Advance(after1, prog.min_inst * operand)
       [] opcode = 3 -> [after1 EXCEPT !.new.line = m.state.line + Signed(operand)]
       [] opcode = 4 -> [after1 EXCEPT !.new.file = operand]
       [] opcode \in {5, 12} -> after1
       [] opcode \in {6, 7, 10, 11} -> after
       [] opcode = 8 -> Advance(after, ((255 - prog.opcode_base) \div prog.line_range)
                                         * prog.min_inst)
       [] opcode = 9 -> Advance(To(m, m.offset + 3), Bytes(prog, m.offset + 1, 2))
       [] OTHER      -> To(m, m.offset + 1 + Operands(prog, opcode))

SpecialMutant(prog, m, target, opcode) ==   \* the row goes out before the line moves
  LET adjusted == opcode - prog.opcode_base
      moved    == Advance(To(m, m.offset + 1), (adjusted \div prog.line_range) * prog.min_inst)
  IN [Row(moved, target) EXCEPT !.new.line = m.state.line + (adjusted % prog.line_range)]
Special(prog, m, target, opcode) ==
  LET adjusted == opcode - prog.opcode_base
      moved    == Advance(To(m, m.offset + 1), (adjusted \div prog.line_range) * prog.min_inst)
  IN Row([moved EXCEPT !.new.line =
            m.state.line + prog.line_base + (adjusted % prog.line_range)], target)

\* One turn of the loop of dwarf2_line_read_all_rows.  The opcodes up to 12 are
\* standard whatever the prologue says.
Execute(prog, m, target) ==
  LET opcode == prog.bytes[m.offset]
      n == IF opcode = 0 THEN Extended(prog, m, target)
           ELSE IF opcode <= 12 \/ opcode < prog.opcode_base
                THEN Standard(prog, m, target, opcode)
           ELSE Special(prog, m, target, opcode)
  IN IF n.stopped THEN n ELSE [n EXCEPT !.state = n.new]

AtEnd(prog, m) == m.stopped \/ m.offset > Len(prog.bytes)
================================================================================
