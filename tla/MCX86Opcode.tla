------------------------------ MODULE MCX86Opcode ------------------------------
(* Programs of instructions as the processor encodes them: the one-byte and    *)
(* two-byte opcodes of the IA-32 manual (volume 2, appendix A), with what      *)
(* follows each of them.                                                       *)
EXTENDS X86Opcode

Filling == << 15, 15, 15, 15, 15, 15, 15, 15, 15, 15, 15, 15, 15, 15, 15 >>
Bytes(n) == SubSeq(Filling, 1, n)

\* The width of an operand or of an address, where a prefix takes the other one.
Width(mode, other) == IF (mode = 32) = other THEN 2 ELSE 4

(* Operands: [modrm, disp] with r in the reg field *)

Operand(r, head, n) == [modrm |-> << head[1] + 8 * r >> \o Tail(head), disp |-> Bytes(n)]
Register(r) == Operand(r, << 192 + 3 >>, 0)
Bare == [modrm |-> << >>, disp |-> << >>]

\* Memory, with and without an index or a base and with displacements of each size.
Memory(r, width) ==
  IF width = 4
  THEN {Operand(r, << 0 >>, 0), Operand(r, << 6 >>, 0), Operand(r, << 5 >>, 4),
        Operand(r, << 64 + 1 >>, 1), Operand(r, << 128 + 2 >>, 4), Operand(r, << 4, \h24 >>, 0),
        Operand(r, << 4, \h95 >>, 4), Operand(r, << 64 + 4, \h24 >>, 1),
        Operand(r, << 64 + 4, \h2d >>, 1), Operand(r, << 128 + 4, \h95 >>, 4)}
  ELSE {Operand(r, << 4 >>, 0), Operand(r, << 5 >>, 0), Operand(r, << 6 >>, 2),
        Operand(r, << 64 + 6 >>, 1), Operand(r, << 64 + 4 >>, 1), Operand(r, << 128 + 4 >>, 2),
        Operand(r, << 128 + 1 >>, 2)}

Every(r, width) == {Register(r), Operand(r, << 192 + 4 >>, 0), Operand(r, << 192 + 5 >>, 0)}
                   \cup Memory(r, width)
Some(r, width)  == {Register(r), IF width = 4 THEN Operand(r, << 64 + 4, \h24 >>, 1)
                                 ELSE Operand(r, << 64 + 6 >>, 1),
                    Operand(r, << 128 + 1 >>, width)}

(* Opcodes of one byte *)

Opcodes1 == 0 .. 255 \ (PrefixBytes \cup {\h0f})
Operand1 == {o \in 0 .. 63 : o % 8 < 4} \cup \h80 .. \h8f \cup \hd8 .. \hdf \cup \hd0 .. \hd3
            \cup \hc4 .. \hc7 \cup {\h62, \h63, \h69, \h6b, \hc0, \hc1, \hf6, \hf7, \hfe, \hff}
Byte1 == {o \in 0 .. 63 : o % 8 = 4} \cup \h70 .. \h7f \cup \hb0 .. \hb7 \cup \he0 .. \he7
         \cup {\h6a, \h6b, \h80, \h82, \h83, \ha8, \hc0, \hc1, \hc6, \hcd, \hd4, \hd5, \heb}
Full1 == {o \in 0 .. 63 : o % 8 = 5} \cup \hb8 .. \hbf
         \cup {\h68, \h69, \h81, \ha9, \hc7, \he8, \he9}

Rest1(o, r, v, a) ==   \* v, a: the widths of operands and addresses
  CASE o \in Byte1 \/ (o = \hf6 /\ r < 2) -> 1
    [] o \in Full1 \/ (o = \hf7 /\ r < 2) -> v
    [] o \in {\hc2, \hca}                 -> 2
    [] o = \hc8                           -> 3
    [] o \in {\h9a, \hea}                 -> v + 2
    [] o \in \ha0 .. \ha3                 -> a
    [] OTHER                              -> 0

Kind1(o, r) ==
  CASE o \in {\hc2, \hc3, \hca, \hcb, \hcf}                         -> "return"
    [] o \in {\h9a, \he8} \/ (o = \hff /\ r \in {2, 3})             -> "call"
    [] o \in \h70 .. \h7f \cup \he0 .. \he3 \cup {\he9, \hea, \heb}
       \/ (o = \hff /\ r \in {4, 5})                                -> "jump"
    [] OTHER                                                        -> "other"

Groups == {\hf6, \hf7, \hff}   \* the reg field is a part of the opcode

(* Opcodes of two bytes *)

Undefined2 == {\h04, \h0a, \h0c, \h36, \h38, \h39, \h7a, \h7b, \ha6, \ha7, \hb9, \hff}
              \cup \h24 .. \h27 \cup \h3a .. \h3f
Opcodes2  == 0 .. 255 \ Undefined2
Bare2     == \h05 .. \h09 \cup \h30 .. \h37 \cup \h80 .. \h8f \cup \hc8 .. \hcf
             \cup {\h0b, \h0e, \h77, \ha0, \ha1, \ha2, \ha8, \ha9, \haa}
Control2  == \h20 .. \h23   \* with registers only
Byte2     == \h70 .. \h73 \cup {\h0f, \ha4, \hac, \hba, \hc2, \hc4, \hc5, \hc6}
Rest2(o, v) == IF o \in Byte2 THEN 1 ELSE IF o \in \h80 .. \h8f THEN v ELSE 0
Kind2(o)    == IF o \in \h80 .. \h8f THEN "jump" ELSE "other"

(* Instructions *)

I(prefixes, opcode, m, rest, kind) ==
  [prefixes |-> prefixes, opcode |-> opcode, modrm |-> m.modrm, disp |-> m.disp,
   rest |-> Bytes(rest), kind |-> kind]

Instructions(mode, prefixes, opcodes1, opcodes2, operands(_, _)) ==
  LET v == Width(mode, OpSize \in Range(prefixes))
      a == Width(mode, AdSize \in Range(prefixes))
      with(o, r) == IF o \in Operand1 THEN operands(r, a) ELSE {Bare}
      with2(o)   == IF o \in Bare2 THEN {Bare}
                    ELSE IF o \in Control2 THEN {Register(0)} ELSE operands(0, a)
  IN UNION {UNION {{I(prefixes, << o >>, m, Rest1(o, r, v, a), Kind1(o, r)) : m \in with(o, r)} :
                   r \in IF o \in Groups THEN 0 .. 6 ELSE {0}} : o \in opcodes1}
     \cup UNION {{I(prefixes, << \h0f, o >>, m, Rest2(o, v), Kind2(o)) : m \in with2(o)} :
                 o \in opcodes2}

Sizes == {<< >>, << OpSize >>, << AdSize >>}
Whole(mode) == UNION {Instructions(mode, p, Opcodes1, Opcodes2, Some) : p \in Sizes}

Sample1 == {\h01, \h52, \h69, \h75, \h83, \ha1, \hb8, \hc2, \hc8, \he8, \hff}
Sample2 == {\h84, \ha2, \hac}
Sample(mode, prefixes, operands(_, _)) ==
  UNION {Instructions(mode, p, Sample1, Sample2, operands) : p \in prefixes}
OtherPrefixes == {<< b >> : b \in PrefixBytes} \cup {<< b, OpSize >> : b \in PrefixBytes}

(* Programs *)

Program(mode, instrs) == [mode |-> mode, instrs |-> instrs, behind |-> Bytes(15)]
Ret     == I(<< >>, << \hc3 >>, Bare, 0, "return")
Jz(v)   == I(<< >>, << \h0f, \h84 >>, Bare, v, "jump")
Few(v)  == {Ret, Jz(v), I(<< OpSize >>, << \hb8 >>, Bare, 6 - v, "other"),
            I(<< >>, << \hff >>, IF v = 4 THEN Operand(2, << 4, \h95 >>, 4)
                                 ELSE Operand(2, << 6 >>, 2), 0, "call")}

MCPrograms ==
  UNION {LET v == Width(mode, FALSE)
         IN {Program(mode, << Jz(v), i >>) : i \in Whole(mode) \cup Sample(mode, OtherPrefixes, Some)}
            \cup {Program(mode, << f, i, f >>) : f \in Few(v), i \in Sample(mode, Sizes, Every)} :
         mode \in {16, 32}}
================================================================================
