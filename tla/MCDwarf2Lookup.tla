----------------------------- MODULE MCDwarf2Lookup ----------------------------
(* Files for the model checker: each tree of entries with some orders of its   *)
(* abbreviations and one line program, and one tree with many line programs.   *)
EXTENDS Dwarf2Lookup

(* Line programs: the instructions and their bytes *)

I(op, n)    == [op |-> op, n |-> n, line |-> 0]
Line(d, delta) == [op |-> "special", n |-> delta, line |-> d]

Lengths == << 0, 1, 1, 1, 1, 0, 0, 0, 1, 0, 0, 1 >>

Name(s) == Append(s, 0)
NameBytes(dirs)  == [i \in DOMAIN dirs |-> Name(dirs[i])]
FileBytes(files) == [i \in DOMAIN files |-> Name(files[i].name) \o << files[i].dir, 5, 6 >>]
TableBytes(dirs, files) ==
  FlattenSeq(NameBytes(dirs)) \o << 0 >> \o FlattenSeq(FileBytes(files)) \o << 0 >>

Encode(i, base, lengths) ==
  CASE i.op = "special"      -> << base + (i.line + 3) + 8 * i.n >>
    [] i.op = "copy"         -> << 1 >>
    [] i.op = "advance_pc"   -> << 2, i.n >>
    [] i.op = "advance_line" -> << 3, i.n % 128 >>
    [] i.op = "set_file"     -> << 4, i.n >>
    [] i.op = "set_other"    -> << i.n, 3 >>
    [] i.op = "set_flag"     -> << i.n >>
    [] i.op = "const_pc"     -> << 8 >>
    [] i.op = "fixed_pc"     -> << 9, i.n, 0 >>
    [] i.op = "end_sequence" -> << 0, 1, 1 >>
    [] i.op = "set_address"  -> << 0, 5, 2, i.n, 0, 0, 0 >>
    [] i.op = "define_file"  -> << 0, 6, 3, 70, 0, 0, 0, 0 >>
    [] i.op = "unknown_extended" -> << 0, 2, 4, 1 >>
    [] i.op = "unknown"      -> << i.n >> \o [k \in 1 .. lengths[i.n] |-> 1]

FilesOf(dirs) ==   \* the second one in the last directory
  << [name |-> << 65 >>, dir |-> 0], [name |-> << 66, 67 >>, dir |-> Len(dirs)] >>
TwoDirs == << << 100 >>, << 101, 102 >> >>

\* The places of pieces one after the other, and the one behind them.
Places(first, pieces) ==
  [k \in 1 .. Len(pieces) + 1 |-> first + Len(FlattenSeq(SubSeq(pieces, 1, k - 1)))]

\* Programs start at address 2 and end behind what they add.
Program(body, dirs, lengths) ==
  LET instrs == << I("set_address", 2) >> \o body
                \o << I("advance_pc", 2), I("end_sequence", 0) >>
      base   == Len(lengths) + 1
      coded  == [i \in DOMAIN instrs |-> Encode(instrs[i], base, lengths)]
      files  == FilesOf(dirs)
      tables == TableBytes(dirs, files)
      named  == NameBytes(dirs)
      listed == FileBytes(files)
  IN [min_inst |-> 1, line_base |-> -3, line_range |-> 8, opcode_base |-> base,
      lengths |-> lengths, dirs |-> dirs, files |-> files, instrs |-> instrs,
      first |-> Len(tables) + 1, bytes |-> tables \o FlattenSeq(coded),
      at |-> Places(Len(tables) + 1, coded), dirs_at |-> Places(1, named),
      files_at |-> Places(Len(FlattenSeq(named)) + 2, listed)]

Plain == Program(<< Line(0, 0), Line(2, 1), I("set_file", 2), Line(1, 2) >>, TwoDirs, Lengths)

Pieces == { << Line(0, 0) >>, << Line(2, 2) >>, << Line(-3, 1) >>,
            << I("advance_line", 9), I("advance_pc", 3), I("copy", 0) >>,
            << I("fixed_pc", 2), I("set_flag", 6) >>,
            << I("set_file", 2), I("set_other", 5) >>,
            << I("unknown", 13) >>, << I("unknown_extended", 0) >> }
Programs ==
  {Program(a \o b \o c, TwoDirs, Lengths \o << 1, 1 >>) : a, b, c \in Pieces}
  \cup {Program(<< Line(1, 1), I("unknown", 14), Line(1, 1) >>, TwoDirs, Lengths \o << 1, 1 >>),
        Program(<< Line(1, 1), I("define_file", 0), Line(1, 1) >>, TwoDirs, Lengths),
        Program(<< Line(1, 0), I("const_pc", 0), Line(1, 1), I("end_sequence", 0),
                   I("set_address", 9), Line(2, 1) >>, TwoDirs, Lengths),
        \* A sequence that starts where another one ends.
        Program(<< Line(1, 0), Line(2, 2), I("advance_pc", 2), I("end_sequence", 0),
                   I("set_address", 6), Line(3, 0), Line(1, 1) >>, TwoDirs, Lengths),
        Program(<< Line(1, 1), Line(1, 1) >>, << >>, Lengths)}

(* Entries *)

E(code, as) == [code |-> code, attrs |-> as]
End == E(0, << >>)
Pc(lo, hi) == [low_pc |-> lo, high_pc |-> hi]
Called(n) == [name |-> n]
CU == E(1, [stmt_list |-> 0, comp_dir |-> "/src"])

\* Codes: 1 and 7 a unit, 2 with children, 3 without, 5 and 9 have the key of 1.
Tag(code) == [tag |-> IF code \in {1, 7} THEN "compile_unit" ELSE "subprogram",
              children |-> code \in {1, 2, 5}]

Trees ==
  { << CU, E(3, Called("f") @@ Pc(2, 5)), E(9, Called("g") @@ Pc(5, 8)), End >>,
    << CU, E(2, Called("f") @@ Pc(2, 9)), E(3, Called("v")), E(5, Pc(3, 6)),
       E(9, Pc(4, 5)), End, End, E(3, Called("g") @@ Pc(9, 11)), End >>,
    \* A class: the function's name is with its declaration, two steps away.
    << CU, E(2, Called("C")), E(3, Called("C::f")), End,
       E(5, [specification |-> 3]), E(3, Called("this")), End,
       E(9, [origin |-> 5] @@ Pc(4, 9)), E(3, [specification |-> 3] @@ Pc(9, 10)), End >>,
    \* A function that comes before what it is an instance of, and an empty list.
    << CU, E(2, [origin |-> 5] @@ Pc(3, 6)), E(3, Pc(4, 5)), End,
       E(5, Called("i")), End, E(2, Pc(6, 9)), End, End >> }

Orders == { << 1, 2, 3, 5, 9, 0, 7 >>, << 9, 5, 3, 2, 1, 0, 2 >>, << 3, 1, 9, 2, 5, 0 >>,
            << 5, 9, 1, 3, 2, 0, 1 >> }

(* Files *)

Section(name) == [name |-> name, type |-> IF name = ".shstrtab" THEN "strtab" ELSE "progbits",
                  link |-> 0, size |-> 0, symbols |-> << >>]
AllNames == << "", ".debug_aranges", ".debug_info", ".debug_str", ".debug_abbrev",
               ".debug_line", ".shstrtab" >>

Set(address_size, segment_descriptor_size, tuples) ==
  [address_size |-> address_size, segment_descriptor_size |-> segment_descriptor_size,
   unit |-> 1, tuples |-> tuples]

Elf(names, table, entries, line) ==
  [readable |-> TRUE, ident |-> "elf32", e_type |-> 2, e_machine |-> EM_386,
   hasTable |-> TRUE, e_shnum |-> Len(names), e_shstrndx |-> Len(names) - 1,
   sections |-> [i \in DOMAIN names |-> Section(names[i])], programs |-> << >>,
   aranges |-> << Set(4, 0, << >>),
                  Set(4, 0, << [start |-> 2, size |-> 3], [start |-> 5, size |-> 9],
                               [start |-> 0, size |-> 0] >>),
                  Set(8, 0, << >>) >>,
   units |-> << [table |-> table, decl |-> [i \in DOMAIN table |-> Tag(table[i])],
                 entries |-> entries, line |-> line] >>]

Tree2 == << CU, E(3, Called("f") @@ Pc(2, 12)), End >>

MCLookups ==
  {[file |-> Elf(AllNames, order, tree, Plain), targets |-> 1 .. 12] :
     order \in Orders, tree \in Trees}
  \cup {[file |-> Elf(AllNames, << 1, 3, 0 >>, Tree2, p), targets |-> 2 .. 11] : p \in Programs}
  \cup {[file |-> Elf(SelectSeq(AllNames, LAMBDA n : n # gone), << 1, 3, 0 >>, Tree2, Plain),
         targets |-> {4, 14}] : gone \in {".debug_info", ".debug_line"}}
  \* Segments are too large in front of the set of the address.
  \cup {[file |-> [Elf(AllNames, << 1, 3, 0 >>, Tree2, Plain) EXCEPT
                    !.aranges = << Set(4, 8, << >>) >> \o @], targets |-> {4}]}
  \* A unit without a function, as assembler sources have.
  \cup {[file |-> Elf(AllNames, << 7, 0 >>, << E(7, [stmt_list |-> 0]) >>, Plain), targets |-> {4}]}

ASSUME MCUnitsWellFormed == UnitsWellFormed /\ UnitsNameNear /\ ProgramsWritten
================================================================================
