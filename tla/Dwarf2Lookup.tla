------------------------------ MODULE Dwarf2Lookup -----------------------------
(***************************************************************************)
(* dwarf2_lookup (libdebug/dwarf2-parser.c): from an address to the name,  *)
(* line and file of its function.  The unit is found in .debug_aranges     *)
(* (dwarf2-aranges.c), its entries are walked (dwarf2-info.c) with their   *)
(* abbreviations (module Dwarf2Abbrev) to the one that covers the address, *)
(* and the unit's line program is run (module Dwarf2Line).                 *)
(*                                                                         *)
(* A unit is [table, decl, entries, line]: its abbreviations and, for each *)
(* of them, the tag and whether there are children; its entries one after  *)
(* the other, [code, attrs], with the code 0 where a list of children      *)
(* ends.  An offset into the unit is the place of an entry.                *)
(***************************************************************************)
EXTENDS Elf32Parser, Dwarf2Abbrev, Dwarf2Line

CONSTANT Lookups   \* files, and the addresses looked up in them

ASSUME LookupAssumption ==
  \A l \in Lookups :
    /\ l.targets \subseteq Nat
    /\ \A k \in DOMAIN l.file.aranges : l.file.aranges[k].unit \in DOMAIN l.file.units
    /\ \A u \in Range(l.file.units) :
         /\ u.table \in Seq(Nat) /\ Len(u.table) > 0
         /\ \A j \in DOMAIN u.entries : u.entries[j].code \in Nat

VARIABLES
  file, target,          \* reader and target_address
  pc,                    \* where dwarf2_lookup is
  unit,                  \* the number of the unit, cuh
  cache,                 \* cuh.abbrev_cu.cache
  entry, decl,           \* cuh_entry, and the declaration it was read with
  current,               \* the offset behind it
  level,                 \* child_level
  stmt_list,             \* found_stmt_list
  symbol,                \* the fields of symbol that are valid
  m                      \* the line machine

walk == << cache, entry, decl, current, level >>
vars == << file, target, pc, unit, walk, stmt_list, symbol, m >>

U     == file.units[unit]
attrs == U.entries[entry].attrs
Has(name) == name \in DOMAIN attrs
Found(section) == SectionByName(file, section) # {}

\* Fields that are set in addition to those of f.
With(f, g) == [x \in DOMAIN f \cup DOMAIN g |-> IF x \in DOMAIN f THEN f[x] ELSE g[x]]

Init ==
  /\ \E l \in Lookups : file = l.file /\ target \in l.targets
  /\ pc = "aranges" /\ unit = 0 /\ cache = CacheInitialize
  /\ entry = 0 /\ decl = 0 /\ current = 1 /\ level = 0
  /\ stmt_list = FALSE /\ symbol = << >> /\ m = << >>

(* The unit *)

InTuple(t) == t.start <= target /\ target < (t.start + t.size) % AddressMod

\* dwarf2_aranges_read_all stops at a set with a tuple for the address, and
\* gives up at one of a larger machine.
TooLarge(set) == set.address_size > 4 \/ set.segment_descriptor_size > 4
StopsAt(set)  == TooLarge(set) \/ \E t \in Range(set.tuples) : InTuple(t)

StopSets == {s \in DOMAIN file.aranges :
               StopsAt(file.aranges[s]) /\ \A r \in 1 .. s - 1 : ~StopsAt(file.aranges[r])}

Usable == /\ HeaderRead(file)
          /\ \A name \in {".debug_aranges", ".debug_info", ".debug_str", ".debug_abbrev"} :
               Found(name)
          /\ \E s \in StopSets : ~TooLarge(file.aranges[s])

FindUnit ==
  /\ pc = "aranges"
  /\ \/ Usable /\ pc' = "first" /\ \E s \in StopSets : unit' = file.aranges[s].unit
     \/ ~Usable /\ pc' = "failed" /\ UNCHANGED unit
  /\ UNCHANGED << file, target, walk, stmt_list, symbol, m >>

(* The entries *)

\* The entry at "start" or behind the ends of lists there; none when the unit
\* ends first.
EntryFrom(start) ==
  {j \in DOMAIN U.entries :
     /\ start <= j /\ U.entries[j].code # 0
     /\ \A i \in start .. j - 1 : U.entries[i].code = 0}

\* dwarf2_info_cuh_read_entry from "start", on the way to "then".  Behind the
\* entries of the unit, and with a code that is not declared, what is read next
\* is not an entry: the walk is lost.
ReadEntry(start, then) ==
  \/ /\ \E j \in EntryFrom(start) : \E d \in ReadDecl(U.table, U.entries[j].code, cache) :
          /\ entry' = j /\ decl' = d /\ current' = j + 1
          /\ level' = level - (j - start) + (IF U.decl[d].children THEN 1 ELSE 0)
          /\ cache' = AddIfSearched(U.table, U.entries[j].code, cache)
     /\ pc' \in then
  \/ /\ \A j \in EntryFrom(start) : ReadDecl(U.table, U.entries[j].code, cache) = {}
     /\ pc' = "astray" /\ UNCHANGED walk

FirstEntry ==
  /\ pc = "first" /\ ReadEntry(1, {"visit"})
  /\ UNCHANGED << file, target, unit, stmt_list, symbol, m >>

VisitUnit ==
  /\ pc = "visit" /\ U.decl[decl].tag = "compile_unit" /\ pc' = "next"
  /\ stmt_list' = (stmt_list \/ Has("stmt_list"))
  /\ symbol' = IF Has("comp_dir") THEN With(symbol, [comp_dirname |-> attrs.comp_dir])
               ELSE symbol
  /\ UNCHANGED << file, target, unit, walk, m >>

CoversTarget(a) == {"low_pc", "high_pc"} \subseteq DOMAIN a
                   /\ a.low_pc <= target /\ target < a.high_pc

VisitEntry ==
  /\ pc = "visit" /\ U.decl[decl].tag # "compile_unit"
  /\ pc' = IF CoversTarget(attrs) THEN "name" ELSE "next"
  /\ UNCHANGED << file, target, unit, walk, stmt_list, symbol, m >>

\* dwarf2_info_cuh_entry_is_last looks at the code behind the entry, which may
\* be anything behind the unit.
PerhapsLast ==
  \/ current' \notin DOMAIN U.entries
  \/ current' \in DOMAIN U.entries /\ U.entries[current'].code = 0
CertainlyLast == current' \in DOMAIN U.entries /\ PerhapsLast

NextEntryMutant ==   \* the first end of a list of children is taken for the last
  /\ pc = "next" /\ ReadEntry(current, {"visit", "not_found"})
  /\ pc' = "not_found" => PerhapsLast
  /\ pc' = "visit" => ~CertainlyLast
  /\ UNCHANGED << file, target, unit, stmt_list, symbol, m >>
NextEntry ==
  /\ pc = "next" /\ ReadEntry(current, {"visit", "not_found"})
  /\ pc' = "not_found" => level' = 0 /\ PerhapsLast
  /\ pc' = "visit" => ~(level' = 0 /\ CertainlyLast)
  /\ UNCHANGED << file, target, unit, stmt_list, symbol, m >>

(* The name *)

TakeName ==
  /\ pc \in {"name", "named"} /\ pc' = "line"
  /\ pc = "name" => Has("name")
  /\ symbol' = IF Has("name") THEN With(symbol, [name |-> attrs.name]) ELSE symbol
  /\ UNCHANGED << file, target, unit, walk, stmt_list, m >>

FollowOriginMutant ==   \* the specification of the origin is not looked at
  /\ pc = "name" /\ ~Has("name") /\ Has("origin") /\ ReadEntry(attrs.origin, {"named"})
  /\ UNCHANGED << file, target, unit, stmt_list, symbol, m >>
FollowOrigin ==
  /\ pc = "name" /\ ~Has("name") /\ Has("origin") /\ ReadEntry(attrs.origin, {"origin"})
  /\ UNCHANGED << file, target, unit, stmt_list, symbol, m >>

\* From the entry itself, or from its origin.
FollowSpecification ==
  /\ \/ pc = "name" /\ ~Has("name") /\ ~Has("origin")
     \/ pc = "origin"
  /\ IF Has("specification") THEN ReadEntry(attrs.specification, {"named"})
     ELSE pc' = "named" /\ UNCHANGED walk
  /\ UNCHANGED << file, target, unit, stmt_list, symbol, m >>

(* The line and the file *)

StartRows ==
  /\ pc = "line"
  /\ IF stmt_list /\ Found(".debug_line")
     THEN pc' = "rows" /\ m' = Machine(U.line)
     ELSE pc' = "done" /\ UNCHANGED m
  /\ UNCHANGED << file, target, unit, walk, stmt_list, symbol >>

ReadRow ==
  /\ pc = "rows" /\ ~AtEnd(U.line, m) /\ m' = Execute(U.line, m, target)
  /\ UNCHANGED << file, target, pc, unit, walk, stmt_list, symbol >>

\* update_file_and_directory_information: no directory is given for index 0.
FileFields(prog, name) ==
  LET dir == DirectoryOf(prog, name)
      fields == [filename |-> name]
  IN IF dir = 0 \/ DirectoryName(prog, dir) = {} THEN fields
     ELSE With(fields, [dirname |-> CHOOSE d \in DirectoryName(prog, dir) : TRUE])

TakeLineMutant ==   \* the file of the row that stopped the search
  /\ pc = "rows" /\ AtEnd(U.line, m) /\ pc' = "done"
  /\ LET fields == {FileFields(U.line, n) : n \in FileName(U.line, m.new.file)}
         line   == With(symbol, [line |-> m.state.line])
     IN symbol' = IF fields = {} THEN line ELSE With(line, CHOOSE f \in fields : TRUE)
  /\ UNCHANGED << file, target, unit, walk, stmt_list, m >>
TakeLine ==
  /\ pc = "rows" /\ AtEnd(U.line, m) /\ pc' = "done"
  /\ LET fields == {FileFields(U.line, n) : n \in FileName(U.line, m.state.file)}
         line   == With(symbol, [line |-> m.state.line])
     IN symbol' = IF fields = {} THEN line ELSE With(line, CHOOSE f \in fields : TRUE)
  /\ UNCHANGED << file, target, unit, walk, stmt_list, m >>

Next == \/ FindUnit \/ FirstEntry \/ VisitUnit \/ VisitEntry \/ NextEntry
        \/ TakeName \/ FollowOrigin \/ FollowSpecification
        \/ StartRows \/ ReadRow \/ TakeLine

Spec == Init /\ [][Next]_vars

(* What the entries and the line program of a unit mean *)

Entries(u) == {i \in DOMAIN u.entries : u.entries[i].code # 0}
DeclOf(u, i) == u.decl[CHOOSE d \in Declarations(u.table) : u.table[d] = u.entries[i].code]
Depth(u, i) == Cardinality({j \in Entries(u) : j < i /\ DeclOf(u, j).children})
               - Cardinality({j \in 1 .. i - 1 : u.entries[j].code = 0})
Within(i, j) == j < i /\ \A k \in j + 1 .. i : Depth(U, k) > Depth(U, j)

Functions == {i \in Entries(U) : i > 1 /\ CoversTarget(U.entries[i].attrs)}
Outermost == {i \in Functions : \A j \in Functions : ~Within(i, j)}

\* What compilers write: the first entry is the unit and all others are below
\* it, an entry's code is declared once, and it refers to entries.
References(a) == {"origin", "specification"} \cap DOMAIN a
WellFormed(u) ==
  /\ Len(u.entries) \in Nat /\ DOMAIN u.entries = 1 .. Len(u.entries)
  /\ \A i \in Entries(u) : \E d \in Declarations(u.table) : u.table[d] = u.entries[i].code
  /\ \A d, e \in Declarations(u.table) : u.table[d] = u.table[e] => d = e
  /\ \A i \in Entries(u) : /\ (DeclOf(u, i).tag = "compile_unit") = (i = 1)
                           /\ i > 1 => Depth(u, i) > 0
  /\ \A i \in Entries(u) : \A r \in References(u.entries[i].attrs) :
       u.entries[i].attrs[r] \in Entries(u)
UnitsWellFormed == \A l \in Lookups : \A u \in Range(l.file.units) : WellFormed(u)

\* A name is at most two references away, and that far only over an origin that
\* has neither a name nor an origin of its own.
Ends(a) == "name" \in DOMAIN a \/ References(a) = {}
NamesNear(u) ==
  \A i \in Entries(u) :
    LET a     == u.entries[i].attrs
        to(b) == u.entries[b].attrs
        via(b) == IF "specification" \in DOMAIN b
                  THEN DOMAIN b \cap {"name", "origin"} = {} /\ Ends(to(b.specification))
                  ELSE Ends(b)
    IN ~Ends(a) => IF "origin" \in DOMAIN a THEN via(to(a.origin))
                   ELSE Ends(to(a.specification))
UnitsNameNear == \A l \in Lookups : \A u \in Range(l.file.units) : NamesNear(u)

\* The name of an entry that has none is the one of what it refers to.
NameOf[i \in Entries(U)] ==
  LET a == U.entries[i].attrs
  IN IF "name" \in DOMAIN a THEN a.name
     ELSE IF "origin" \in DOMAIN a THEN NameOf[a.origin]
     ELSE IF "specification" \in DOMAIN a THEN NameOf[a.specification]
     ELSE "none"

\* A line program as instructions, [op, n, line]: n is the operand, or the code of
\* one that only the length matters of, and "line" what a special opcode adds to
\* the line.  What one makes of the registers:
Moved(prog, r, i) ==
  CASE i.op = "special"      -> [r EXCEPT !.address = @ + i.n * prog.min_inst,
                                          !.line = @ + i.line]
    [] i.op = "advance_pc"   -> [r EXCEPT !.address = @ + prog.min_inst * i.n]
    [] i.op = "fixed_pc"     -> [r EXCEPT !.address = @ + i.n]
    [] i.op = "const_pc"     -> [r EXCEPT !.address =
         @ + ((255 - prog.opcode_base) \div prog.line_range) * prog.min_inst]
    [] i.op = "set_address"  -> [r EXCEPT !.address = i.n]
    [] i.op = "advance_line" -> [r EXCEPT !.line = @ + i.n]
    [] i.op = "set_file"     -> [r EXCEPT !.file = i.n]
    [] OTHER                 -> r

\* The registers behind the first k instructions.
RegistersAfter(prog) ==
  LET after[k \in 0 .. Len(prog.instrs)] ==
        IF k = 0 \/ prog.instrs[k].op = "end_sequence" THEN Registers
        ELSE Moved(prog, after[k - 1], prog.instrs[k])
  IN after

\* The rows by the numbers of the instructions that append them.
Rows(prog)     == {k \in DOMAIN prog.instrs :
                     prog.instrs[k].op \in {"special", "copy", "end_sequence"}}
RowAt(prog, k) == Moved(prog, RegistersAfter(prog)[k - 1], prog.instrs[k])

\* The code keeps in step with a program whose extended opcodes it knows, and
\* whose other unknown opcodes have as many operands as the ones behind them.
InStep(prog) ==
  \A i \in Range(prog.instrs) :
    /\ i.op # "unknown_extended" /\ i.op # "define_file"
    /\ i.op = "unknown" => prog.lengths[i.n] = Operands(prog, i.n)

Ascending(prog) ==
  \A j, k \in Rows(prog) : j < k => RowAt(prog, j).address <= RowAt(prog, k).address

\* The rows of the target: the last ones that are not behind it, where there is
\* one behind it.
RowsOf(prog) ==
  {k \in Rows(prog) :
     /\ RowAt(prog, k).address <= target
     /\ \A j \in Rows(prog) : RowAt(prog, j).address <= target
                               => RowAt(prog, j).address <= RowAt(prog, k).address
     /\ \E j \in Rows(prog) : target < RowAt(prog, j).address}

Determined(prog) == InStep(prog) /\ Ascending(prog) /\ RowsOf(prog) # {}

\* The registers of a row of the target as the instructions behind it have left
\* them, those in front of the one that appends the next row.
RegistersLeft(prog) ==
  {RegistersAfter(prog)[q] : q \in
     {q \in DOMAIN prog.instrs :
        /\ q + 1 \in Rows(prog)
        /\ \E k \in RowsOf(prog) : k <= q /\ \A j \in Rows(prog) : j <= q => j <= k}}

\* How the instructions are written in bytes (DWARF 2, section 6.2.5): k is in
\* those from place at[k] up to at[k + 1].
WrittenAt(prog, k) ==
  LET i == prog.instrs[k]
      b(j) == prog.bytes[prog.at[k] + j]
      length == prog.at[k + 1] - prog.at[k]
      adjusted == b(0) - prog.opcode_base
  IN \/ /\ i.op = "special" /\ length = 1 /\ b(0) > 12 /\ b(0) >= prog.opcode_base
        /\ i.n = adjusted \div prog.line_range
        /\ i.line = prog.line_base + (adjusted % prog.line_range)
     \/ i.op = "copy"         /\ length = 1 /\ b(0) = 1
     \/ i.op = "advance_pc"   /\ length = 2 /\ b(0) = 2 /\ b(1) = i.n
     \/ i.op = "advance_line" /\ length = 2 /\ b(0) = 3 /\ Signed(b(1)) = i.n
     \/ i.op = "set_file"     /\ length = 2 /\ b(0) = 4 /\ b(1) = i.n
                              /\ i.n \in DOMAIN prog.files
     \/ i.op = "set_other"    /\ length = 2 /\ b(0) = i.n /\ i.n \in {5, 12}
     \/ i.op = "set_flag"     /\ length = 1 /\ b(0) = i.n /\ i.n \in {6, 7, 10, 11}
     \/ i.op = "const_pc"     /\ length = 1 /\ b(0) = 8
     \/ i.op = "fixed_pc"     /\ length = 3 /\ b(0) = 9 /\ Bytes(prog, prog.at[k] + 1, 2) = i.n
     \/ i.op = "unknown"      /\ length = 1 + prog.lengths[i.n] /\ b(0) = i.n
                              /\ i.n \in 13 .. prog.opcode_base - 1
     \/ i.op = "end_sequence" /\ length = 3 /\ b(0) = 0 /\ b(1) = 1 /\ b(2) = 1
     \/ /\ i.op = "set_address" /\ length = 2 + b(1) /\ b(0) = 0 /\ b(1) > 0 /\ b(2) = 2
        /\ prog.at[k] + 1 \in DOMAIN prog.bytes
        /\ Bytes(prog, prog.at[k] + 3, b(1) - 1) = i.n
     \/ i.op \in {"define_file", "unknown_extended"} /\ length = 2 + b(1) /\ b(0) = 0

ProgramWritten(prog) ==
  /\ prog.min_inst \in Nat /\ prog.line_base \in Int /\ prog.opcode_base \in Nat
  /\ prog.line_range \in Nat \ {0} /\ prog.bytes \in Seq(0 .. 255)
  /\ prog.lengths \in Seq(0 .. 255) /\ Len(prog.lengths) = prog.opcode_base - 1
  /\ prog.instrs \in Seq([op : STRING, n : Int, line : Int])
  /\ prog.at \in Seq(Nat) /\ Len(prog.at) = Len(prog.instrs) + 1
  /\ prog.at[1] = prog.first /\ prog.at[Len(prog.at)] = Len(prog.bytes) + 1
  /\ \A k \in DOMAIN prog.instrs : prog.at[k] \in DOMAIN prog.bytes /\ WrittenAt(prog, k)

\* The tables in front of it: name i is at places[i], with "gap" bytes behind it
\* and a 0 behind them all.
NameAt(prog, name, offset) ==
  SubSeq(prog.bytes, offset, offset + Len(name)) = Append(name, 0)

NamesWritten(prog, names, places, gap) ==
  /\ names \in Seq(Seq(1 .. 255)) /\ names # << >>
  /\ places \in Seq(Nat \ {0}) /\ Len(places) = Len(names) + 1
  /\ \A i \in DOMAIN names : /\ names[i] # << >> /\ NameAt(prog, names[i], places[i])
                             /\ places[i + 1] = places[i] + Len(names[i]) + 1 + gap
                             /\ places[i + 1] \in DOMAIN prog.bytes
  /\ prog.bytes[Last(places)] = 0

TablesWritten(prog) ==
  LET names == [f \in DOMAIN prog.files |-> prog.files[f].name]
  IN /\ NamesWritten(prog, names, prog.files_at, NumbersOfFile)
     /\ \A f \in DOMAIN prog.files :
          /\ prog.files[f].dir \in 0 .. Len(prog.dirs)
          /\ prog.bytes[prog.files_at[f] + Len(names[f]) + 1] = prog.files[f].dir
     /\ IF prog.dirs = << >> THEN prog.bytes[1] = 0 /\ prog.files_at[1] = 2
        ELSE /\ NamesWritten(prog, prog.dirs, prog.dirs_at, 0)
             /\ prog.dirs_at[1] = 1
             /\ prog.files_at[1] = Last(prog.dirs_at) + 1

ProgramsWritten ==
  \A l \in Lookups : \A u \in Range(l.file.units) :
    ProgramWritten(u.line) /\ TablesWritten(u.line)

(* Properties *)

\* A unit is given up only when none of its functions covers the address: the
\* count of child lists never ends the walk early and the reading over their
\* ends skips no entry (dwarf2_info_cuh_read_entry, entry_is_last).  When there
\* is none, the walk does leave the unit.
CompleteWalk == pc \in {"not_found", "astray"} => Functions = {}

\* The name is the one of an outermost function around the address, found over
\* its abstract origin and specification (dwarf2-parser.c:166).
NameRight ==
  pc = "done" => LET name == IF "name" \in DOMAIN symbol THEN symbol.name ELSE "none"
                 IN \E i \in Outermost : name = NameOf[i]

\* The entry was read with the declaration of its own code, wherever the cache
\* had the search start.
DeclIsAsked ==
  entry # 0 => decl \in Declarations(U.table) /\ U.table[decl] = U.entries[entry].code

\* The cache never points out of the table of the unit, nor to a declaration
\* with another key, through evictions and the wrapping of its times.
CacheSound == entry # 0 => Sound(U.table, cache)

\* The line is the one the registers hold when the next row is about to be
\* appended: what a lookup looks for is the row of the address, but it goes on to
\* the one behind it and executes what is in between, so that an advance_line
\* there is in the answer although it belongs to the next row, and a row that ends
\* a sequence leaves the registers reset (dwarf2-line.c:414).
LineRight ==
  pc = "done" /\ "line" \in DOMAIN symbol /\ Determined(U.line) =>
    \E r \in RegistersLeft(U.line) : symbol.line = r.line

\* The names are those of the file in the same registers, and of its directory,
\* in a unit that lists a directory.  An empty list is read as one that holds the
\* first file (dwarf2-line.c:67), and that file is never found then.
FileRight ==
  pc = "done" /\ "line" \in DOMAIN symbol /\ Determined(U.line) =>
    LET named(f) == /\ "filename" \in DOMAIN symbol
                    /\ NameAt(U.line, f.name, symbol.filename)
                    /\ ("dirname" \in DOMAIN symbol) = (f.dir # 0)
                    /\ f.dir # 0 => NameAt(U.line, U.line.dirs[f.dir], symbol.dirname)
        swallowed == "filename" \in DOMAIN symbol => symbol.filename # U.line.files_at[1]
    IN \E r \in RegistersLeft(U.line) :
         IF U.line.dirs # << >> THEN named(U.line.files[r.file])
         ELSE r.file = 1 => swallowed
================================================================================
