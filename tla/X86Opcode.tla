------------------------------- MODULE X86Opcode -------------------------------
(***************************************************************************)
(* libdebug/x86-opcode.c: the length of instructions.  The parser is given *)
(* the bytes of a program in pieces of any size and stops behind each      *)
(* instruction; its caller (test/test-opcode.c) asks what it was.          *)
(*                                                                         *)
(* A program is [mode, instrs, behind], and an instruction [prefixes,      *)
(* opcode, modrm, disp, rest, kind]: its bytes, and what it is; "behind"   *)
(* are the bytes of the file that follow its .text section.                *)
(***************************************************************************)
EXTENDS Integers, Sequences, FiniteSets, SequencesExt

CONSTANTS
  Programs,
  Pieces     \* the sizes of buffers

VARIABLES
  program,
  parser,
  total,     \* total_read
  found      \* what the caller was told of, with the places behind

vars == << program, parser, total, found >>

BytesOf(i) == i.prefixes \o i.opcode \o i.modrm \o i.disp \o i.rest
text   == FlattenSeq([k \in DOMAIN program.instrs |-> BytesOf(program.instrs[k])])
memory == text \o program.behind

(* The tables *)

PrefixBytes == {\hf0, \hf2, \hf3, \h2e, \h36, \h3e, \h26, \h64, \h65, \h66, \h67}
OpSize == \h66
AdSize == \h67

\* A bit for each opcode, eight to the byte.
ModrmBitmap0 ==
  << \h0f, \h0f, \h0f, \h0f, \h0f, \h0f, \h0f, \h0f, 0, 0, 0, 0, \h0c, \h0a, 0, 0,
     \hff, \hff, 0, 0, 0, 0, 0, 0, \hf3, 0, \h0f, \hff, 0, 0, \hc0, \hc0 >>
ModrmBitmap1 ==
  << \h0f, 0, \hff, 1, \hff, \hff, 0, 0, \hff, \hff, \hff, \hff, \hff, \hff, \h7f, \hff,
     0, 0, 0, 0, \h38, \hb8, \hff, \hfc, \hff, 0, \hfe, \hff, \hff, \hff, \hfe, \h7f >>
HasModrm(bitmap, opcode) == (bitmap[opcode \div 8 + 1] \div 2 ^ (opcode % 8)) % 2 = 1

Iv0 == {\h05, \h15, \h25, \h35, \h0d, \h1d, \h2d, \h3d, \h81, \hc7, \h68, \h69, \ha9, \he8,
        \he9, \ha3, \ha1} \cup \hb8 .. \hbf
Ib0 == {\h04, \h14, \h24, \h34, \h0c, \h1c, \h2c, \h3c, \h80, \h82, \h83, \h6a, \h6b, \hc0,
        \hc1, \hc6, \hd4, \hd5, \ha0, \hc8, \hcd, \heb, \ha2, \ha8}
       \cup \he0 .. \he7 \cup \h70 .. \h7f \cup \hb0 .. \hb7
Ib1 == \h70 .. \h73 \cup {\ha4, \hc2, \hc4, \hc5, \hc6, \hac, \hba}
Iv1 == \h80 .. \h87

(* The sizes of what follows an opcode *)

OperandSize(p) == IF (p.mode = 32) = (OpSize \in p.prefixes) THEN 2 ELSE 4

ImmediateSize(p) ==
  IF p.opcode0 = \h0f
  THEN IF p.opcode1 \in Ib1 THEN 1 ELSE IF p.opcode1 \in Iv1 THEN OperandSize(p) ELSE 0
  ELSE CASE p.opcode0 \in {\h9a, \hea} -> 4
         [] p.opcode0 \in {\hc2, \hca} -> 2
         [] p.opcode0 = \hc8           -> 3
         [] p.opcode0 \in Iv0          -> OperandSize(p)
         [] p.opcode0 \in Ib0 \ {\hc8} -> 1
         [] OTHER                      -> 0

Mod(p) == p.modrm \div 64
Reg(p) == (p.modrm \div 8) % 8
Rm(p)  == p.modrm % 8

HasSib(p) == p.mode = 32 /\ Mod(p) # 3 /\ Rm(p) = 4

DisplacementSizeMutant(p) ==   \* a missing base is not seen
  CASE Mod(p) = 2 \/ (Mod(p) = 0 /\ Rm(p) = IF p.mode = 32 THEN 5 ELSE 6) -> OperandSize(p)
    [] Mod(p) = 1 -> 1
    [] OTHER -> 0
DisplacementSize(p) ==
  CASE Mod(p) = 2 \/ (Mod(p) = 0 /\ Rm(p) = IF p.mode = 32 THEN 5 ELSE 6) -> OperandSize(p)
    [] Mod(p) = 1 -> 1
    [] Mod(p) = 0 /\ HasSib(p) /\ p.sib % 8 = 5 -> 4
    [] OTHER -> 0

(* The parser *)

ParserInitialize(mode) ==
  [mode |-> mode, state |-> "prefix_or_opcode0", prefixes |-> {}, opcode0 |-> 0, opcode1 |-> 0,
   modrm |-> 0, sib |-> 0, tmp |-> 0]

\* The opcode and the operands of the last instruction stay.
Reinit(p) == [p EXCEPT !.prefixes = {}, !.state = "prefix_or_opcode0"]

GoToImmediate(p) ==
  IF ImmediateSize(p) = 0 THEN [p EXCEPT !.state = "done"]
  ELSE [p EXCEPT !.state = "immediate", !.tmp = ImmediateSize(p)]
GoToDisplacement(p) ==
  IF DisplacementSize(p) = 0 THEN GoToImmediate(p)
  ELSE [p EXCEPT !.state = "displacement", !.tmp = DisplacementSize(p)]
GoToModrm(p, bitmap, opcode) ==
  IF HasModrm(bitmap, opcode) THEN [p EXCEPT !.state = "modrm"] ELSE GoToImmediate(p)

\* The last byte of a displacement or of an immediate goes on to "then".
Count(p, then(_)) ==
  IF p.tmp > 1 THEN [p EXCEPT !.tmp = @ - 1] ELSE then([p EXCEPT !.tmp = 0])
Done(p) == [p EXCEPT !.state = "done"]

Step(p, byte) ==
  CASE p.state = "prefix_or_opcode0" ->
         LET q == [p EXCEPT !.opcode0 = byte]
         IN IF byte \in PrefixBytes THEN [p EXCEPT !.prefixes = @ \cup {byte}]
            ELSE IF byte = \h0f THEN [q EXCEPT !.state = "opcode1"]
            ELSE GoToModrm(q, ModrmBitmap0, byte)
    [] p.state = "opcode1"      -> GoToModrm([p EXCEPT !.opcode1 = byte], ModrmBitmap1, byte)
    [] p.state = "modrm"        -> LET q == [p EXCEPT !.modrm = byte]
                                   IN IF HasSib(q) THEN [q EXCEPT !.state = "sib"]
                                      ELSE GoToDisplacement(q)
    [] p.state = "sib"          -> GoToDisplacement([p EXCEPT !.sib = byte])
    [] p.state = "displacement" -> Count(p, GoToImmediate)
    [] p.state = "immediate"    -> Count(p, Done)

(* What the last instruction was: valid when the parser is done *)

IsReturn(p) == p.opcode0 \in {\hc2, \hc3, \hca, \hcb, \hcf}
IsCall(p)   == p.opcode0 \in {\h9a, \he8} \/ (p.opcode0 = \hff /\ Reg(p) \in {2, 3})

IsJumpMutant(p) ==   \* takes the second opcode of an earlier instruction
  \/ p.opcode0 \in \h70 .. \h7f \cup \he0 .. \he3 \cup {\he9, \hea, \heb}
  \/ p.opcode0 = \hff /\ Reg(p) \in {4, 5}
  \/ p.opcode1 \in \h80 .. \h8f
IsJump(p) ==
  \/ p.opcode0 \in \h70 .. \h7f \cup \he0 .. \he3 \cup {\he9, \hea, \heb}
  \/ p.opcode0 = \hff /\ Reg(p) \in {4, 5}
  \/ p.opcode0 = \h0f /\ p.opcode1 \in \h80 .. \h8f

KindOf(p) == CASE IsCall(p)   -> "call"
               [] IsReturn(p) -> "return"
               [] IsJump(p)   -> "jump"
               [] OTHER       -> "other"

(* The caller *)

Init == /\ program \in Programs /\ parser = ParserInitialize(program.mode)
        /\ total = 0 /\ found = {}

\* x86_opcode_parse reads to the end of the buffer or of an instruction.  The
\* buffers are pieces of the text or, in test-opcode.c, as long as the whole text
\* wherever they start, so that the last one ends far behind it.
Parse(size) ==
  LET read(s, byte) == IF s.parser.state = "done" THEN s
                       ELSE [parser |-> Step(s.parser, byte), n |-> s.n + 1]
      start == [parser |-> IF parser.state = "done" THEN Reinit(parser) ELSE parser, n |-> 0]
      last == Min({total + size, Len(memory)})
      end == FoldLeft(read, start, SubSeq(memory, total + 1, last))
  IN /\ total < Len(text) /\ (size = Len(text) \/ total + size <= Len(text))
     /\ parser' = end.parser /\ total' = total + end.n
     /\ found' = IF end.parser.state # "done" THEN found
                 ELSE found \cup {<< total', KindOf(end.parser) >>}
     /\ UNCHANGED program

Next == \E size \in Pieces \cup {Len(text)} : Parse(size)

Spec == Init /\ [][Next]_vars

(* What the program is *)

\* The opcodes with 0f whose operand, or whose displacement from the instruction,
\* is not read: PREFETCHW, 3DNow, hints, half of Jcc, SETcc, FXSAVE and the other
\* ones of group 15, POPCNT, ADDSUB and LDDQU.
Unread == {\h0d, \h0f, \hae, \hb8, \hd0, \hf0} \cup \h19 .. \h1f \cup \h88 .. \h9f

\* An operand in memory is read for the mode's own addresses, and its displacement
\* as wide as an operand.
Misaddressed(i, operand_size) ==
  LET m == [mode |-> program.mode, modrm |-> i.modrm[1]]
      direct == Mod(m) = 0 /\ Rm(m) = IF m.mode = 32 THEN 5 ELSE 6
  IN /\ Mod(m) # 3
     /\ \/ AdSize \in Range(i.prefixes) /\ (Rm(m) = 4 \/ (Mod(m) = 0 /\ Rm(m) \in {5, 6}))
        \/ (direct \/ Mod(m) = 2) /\ Len(i.disp) # operand_size

\* The length is wrong for these, and for TEST with an immediate among the unary
\* groups, MOV between AL or AX and an absolute address, whose width is taken to be
\* one or that of an operand, and far pointers of 48 bits.
Misread(i) ==
  LET opcode0 == i.opcode[1]
      operand_size == OperandSize([mode |-> program.mode, prefixes |-> Range(i.prefixes)])
  IN \/ opcode0 = \h0f /\ i.opcode[2] \in Unread
     \/ opcode0 \in {\hf6, \hf7} /\ (i.modrm[1] \div 8) % 8 \in {0, 1}
     \/ opcode0 \in {\ha0, \ha2}
     \/ opcode0 \in {\ha1, \ha3} /\ Len(i.rest) # operand_size
     \/ opcode0 \in {\h9a, \hea} /\ operand_size = 4
     \/ i.modrm # << >> /\ Misaddressed(i, operand_size)

EndOf(k) == FoldLeft(LAMBDA n, i : n + Len(BytesOf(i)), 0, SubSeq(program.instrs, 1, k))
InFront == {k \in DOMAIN program.instrs :
              \A j \in 1 .. k : ~Misread(program.instrs[j]) /\ EndOf(j) <= total}
Reliable == \A k \in DOMAIN program.instrs : EndOf(k - 1) < total => ~Misread(program.instrs[k])

(* Properties *)

\* However the bytes are cut into buffers, and in buffers that end behind the text,
\* the parser stops behind each instruction and nowhere else (x86-opcode.c:577), as
\* long as it has met none that is misread.
StopsAtInstructions ==
  Reliable => /\ total <= Len(text)
              /\ (parser.state = "done") = (total \in {EndOf(k) : k \in InFront})

\* Calls, returns and jumps are told from other instructions, although fields of
\* an earlier instruction stay in the parser (x86-opcode.c:436).
KindsRight == Reliable => found = {<< EndOf(k), program.instrs[k].kind >> : k \in InFront}
================================================================================
