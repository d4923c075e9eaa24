------------------------------ MODULE Elf32Parser ------------------------------
(***************************************************************************)
(* What libdebug/elf32-parser.c answers about an ELF file: its sections by *)
(* number, type and name, its symbols one after the other, and the bounds  *)
(* of its image.                                                           *)
(*                                                                         *)
(* A file is a record of what its headers and tables say.  "sections" is   *)
(* what is read at the place of the section table, entry by entry, up to   *)
(* the end of the file: it may go on behind the last section.  Section n   *)
(* of the code is sections[n + 1].  A function of the code that can return *)
(* -1 is the set of its results: empty when it fails.                      *)
(***************************************************************************)
EXTENDS Integers, Sequences, FiniteSetsExt

CONSTANT AddressMod   \* addresses are unsigned and of this range: 2^32

ASSUME ElfAssumption == AddressMod \in Nat \ {0, 1}

LoReserve == 65280   \* SHN_LORESERVE
XIndex    == 65535   \* SHN_XINDEX
EM_386    == 3

(* Sections *)

\* ET_REL to ET_CORE; the classes of numbers above them are all refused.
HeaderRead(f) ==
  /\ f.readable /\ f.ident = "elf32"
  /\ f.e_type \in 1 .. 4 /\ f.e_machine = EM_386

NSections(f) ==
  IF ~f.hasTable THEN 0
  ELSE IF f.e_shnum = 0 THEN f.sections[1].size ELSE f.e_shnum

\* The test lets a number through that is one too large; what it names is
\* whatever the file has behind its table.
SectionByNumber(f, n) ==
  IF f.hasTable /\ n <= NSections(f) /\ n + 1 \in DOMAIN f.sections
  THEN {f.sections[n + 1]} ELSE {}

\* The loops stop at the first section that fits, and at one that cannot be read.
FirstSection(f, Fits(_)) ==
  LET stops == {i \in 0 .. NSections(f) - 1 : \A s \in SectionByNumber(f, i) : Fits(s)}
  IN IF stops = {} THEN {} ELSE SectionByNumber(f, Min(stops))

SectionByType(f, type) == FirstSection(f, LAMBDA s : s.type = type)

\* SHN_UNDEF is a number below SHN_LORESERVE, so that it is not refused.
NameSectionNumber(f) ==
  IF f.e_shstrndx < LoReserve THEN {f.e_shstrndx}
  ELSE IF f.e_shstrndx = XIndex THEN {s.link : s \in SectionByNumber(f, 0)}
  ELSE {}

\* The names are read in the section that the header says holds them.
CompareString(name, s, names) == names.type = "strtab" /\ s.name = name /\ name # ""

SectionByName(f, name) ==
  UNION { FirstSection(f, LAMBDA s : CompareString(name, s, names)) :
            names \in {s \in UNION {SectionByNumber(f, n) : n \in NameSectionNumber(f)} :
                         s.type # "nobits"} }

(* Symbols *)

\* The section the symbols are in, when the iterator can be initialised: its
\* names must be readable, and read_symbol must find a first one.
SymbolTable(f) ==
  LET symtab == SectionByType(f, "symtab")
      table  == IF symtab # {} THEN symtab ELSE SectionByType(f, "dynsym")
  IN {s \in table : SectionByNumber(f, s.link) # {} /\ s.symbols # << >>}

\* What a walk with elf32_symbol_iterator_next sees, in order.
Symbols(f) == IF HeaderRead(f) THEN {s.symbols : s \in SymbolTable(f)} ELSE {}

\* A symbol covers an address of its own file.
Covers(sym, offset) == sym.value <= offset /\ offset < sym.value + sym.size

(* Bounds *)

\* Every recognised type counts, not only what is loaded.
Counted == {"load", "dynamic", "interp", "note", "shlib", "phdr", "tls"}

Bounds(f) ==
  LET counted == {i \in DOMAIN f.programs : f.programs[i].type \in Counted}
      ends    == {(f.programs[i].vaddr + f.programs[i].memsz) % AddressMod : i \in counted}
  IN [start |-> Min({AddressMod - 1} \cup {f.programs[i].vaddr : i \in counted}),
      end   |-> Max({0} \cup ends)]
================================================================================
