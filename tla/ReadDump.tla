-------------------------------- MODULE ReadDump -------------------------------
(***************************************************************************)
(* read-dump: the loop of dump_file over the records of a dump, the list   *)
(* of objects it keeps from the last MAP record (outside-map.c), the table *)
(* of addresses it has resolved (dwarf2-cache.c), the files it has mapped  *)
(* (utils.c and mmap-cache.c) and what it prints for a record.             *)
(*                                                                         *)
(* The dump is the environment: each step reads any record the recorder    *)
(* may have written there, or finds the end of the file, between two       *)
(* records or inside of one.  What dwarf2_lookup answers for a file is     *)
(* part of the file: an offset of its "dwarf" has the fields that are      *)
(* valid and the line; other offsets are not found (module Dwarf2Lookup).  *)
(***************************************************************************)
EXTENDS Elf32Parser, SequencesExt

CONSTANTS
  Files,        \* what is on the disk: a function from names to files
  Maps,         \* the lists of objects a MAP record can hold
  Functions,    \* the functions an ENTER or LEAVE record can name
  ReturnSites,  \* and the addresses they return to
  CacheLimit,   \* entries at which the table of addresses is emptied: 10000
  StaleFlags,   \* bits of valid_fields that may be set on the stack before
  MaxRecords    \* bound on the records of a dump

ASSUME ReadDumpAssumption ==
  /\ Maps \subseteq Seq([base : 0 .. AddressMod - 1, file : DOMAIN Files])
  /\ Functions \cup ReturnSites \subseteq 1 .. AddressMod - 1
  \* A call takes two bytes or more: in front of a return address there is
  \* the end of a call, never the start of a function.
  /\ \A call \in ReturnSites : call - 1 \notin Functions
  /\ CacheLimit \in Nat \ {0} /\ MaxRecords \in Nat

None     == "none"
Unknown  == [file |-> None]
NoLine   == -1
WildLine == -2
Modes   == {"dot", "all_dot", "mat"}
DotMode == {"dot", "all_dot"}

VARIABLES
  mode,      \* args->output_type
  pc,        \* where dump_file is
  left,      \* records the dump may still hold
  map,       \* the list of outside-map.c
  outMap,    \* out.map has been set
  g_hash,    \* the table of dwarf2-cache.c: None, or a function from addresses
  g_cache,   \* the names of the mapped files, the last one first
  tries,     \* ghost: how often the mapping of each file has been tried
  record,    \* the ENTER record that is being printed
  edge,      \* what is printed for it
  closed     \* out.end has been called

output == << record, edge, closed >>
files  == << g_cache, tries >>
vars == << mode, pc, left, map, outMap, g_hash, files, output >>

(* Resolving an address *)

\* utils_filename_to_memory_reader: a file that cannot be mapped takes the
\* whole cache with it.
OpenFileMutant(c, file) ==   \* looks at the first entry of the cache only
  IF c.names # << >> /\ Head(c.names) = file THEN c
  ELSE [names |-> IF Files[file].readable THEN << file >> \o c.names ELSE << >>,
        tries |-> [c.tries EXCEPT ![file] = @ + 1]]
OpenFile(c, file) ==
  IF Contains(c.names, file) THEN c
  ELSE [names |-> IF Files[file].readable THEN << file >> \o c.names ELSE << >>,
        tries |-> [c.tries EXCEPT ![file] = @ + 1]]

HoldsMutant(object, a) ==    \* no test against the start of the object
  a <= (Bounds(Files[object.file]).end + object.base) % AddressMod
Holds(object, a) ==
  LET b == Bounds(Files[object.file])
  IN /\ (b.start + object.base) % AddressMod <= a
     /\ a <= (b.end + object.base) % AddressMod

\* utils_goto_map_entry stops at the first object that holds the address, and
\* gives up at the first one that is not an ELF file it can read.
Stop(m, a) == SelectInSeq(m, LAMBDA o : ~HeaderRead(Files[o.file]) \/ Holds(o, a))
GotoMapEntry(m, a) ==
  {m[i] : i \in {i \in {Stop(m, a)} \cap DOMAIN m : HeaderRead(Files[m[i].file])}}
GotoOpens(m, a) ==
  [i \in 1 .. (IF Stop(m, a) = 0 THEN Len(m) ELSE Stop(m, a)) |-> m[i].file]

\* resolve_address_to_symbol: what dwarf2_lookup finds for the address.
DwarfOf(m, a) ==
  LET at(o) == Files[o.file].dwarf[a - o.base]
  IN {[file |-> o.file, name |-> at(o).name, line |-> at(o).line, valid |-> at(o).valid] :
        o \in {o \in GotoMapEntry(m, a) : a - o.base \in DOMAIN Files[o.file].dwarf}}

\* elf32_symbol_to_string: the first symbol there, or the address itself.
FirstSymbol(f, offset) ==
  LET at(syms) == SelectInSeq(syms, LAMBDA sym : Covers(sym, offset))
  IN UNION {{syms[i].name : i \in {at(syms)} \cap DOMAIN syms} : syms \in Symbols(f)}

ElfString(m, a) ==
  LET found   == GotoMapEntry(m, a)
      names   == UNION {{[file |-> o.file, name |-> n] :
                           n \in FirstSymbol(Files[o.file], a - o.base)} : o \in found}
      offsets == {[file |-> o.file, offset |-> a - o.base] : o \in found}
  IN CHOOSE n \in (IF names # {} THEN names
                   ELSE IF offsets # {} THEN offsets ELSE {Unknown}) : TRUE

\* symbol_to_string: the directories only in the verbose mode, which asserts
\* that there is one.  valid_fields is not initialised before the lookup sets
\* its bits: a field whose bit happened to be set is printed, or taken for the
\* line, whatever its value is.
Wanted(md) == {"filename", "name"} \cup
              (IF md = "all_dot" THEN {"comp_dirname", "dirname"} ELSE {})
DwarfString(md, d, stale) ==
  [file |-> d.file, dwarf |-> d.name, fields |-> Wanted(md) \cap (d.valid \cup stale)]
Asserts(md, d, stale) ==
  md = "all_dot" /\ (d.valid \cup stale) \cap {"comp_dirname", "dirname"} = {}

SymbolName(md, m, a, stale) ==
  IF DwarfOf(m, a) = {} THEN ElfString(m, a)
  ELSE DwarfString(md, CHOOSE d \in DwarfOf(m, a) : TRUE, stale)

LineOf(m, a, stale) ==
  LET of(d) == IF "line" \in d.valid THEN d.line
               ELSE IF "line" \in stale THEN WildLine ELSE NoLine
  IN IF DwarfOf(m, a) = {} THEN NoLine ELSE of(CHOOSE d \in DwarfOf(m, a) : TRUE)

\* Both resolutions walk the list; what the first one has mapped stays.
OpensFor(m, a) ==
  IF DwarfOf(m, a) # {} THEN GotoOpens(m, a)
  ELSE GotoOpens(m, a) \o GotoOpens(m, a)

\* symbol_iterate_names prints every symbol that covers the address.
NamesOf(m, a) ==
  UNION {UNION {{syms[i].name : i \in {i \in DOMAIN syms : Covers(syms[i], a - o.base)}} :
                  syms \in Symbols(Files[o.file])} : o \in GotoMapEntry(m, a)}

\* The cache after each of the files has been asked for.
Opened(names) ==
  LET c[i \in 0 .. Len(names)] ==
        IF i = 0 THEN [names |-> g_cache, tries |-> tries] ELSE OpenFile(c[i - 1], names[i])
  IN c[Len(names)]
AfterOpening(names) == g_cache' = Opened(names).names /\ tries' = Opened(names).tries

(* The table of resolved addresses *)

EmptyTable == [a \in {} |-> None]

\* dwarf2_cache_add, after renew_hash.
CacheAdd(a, symbol, line) ==
  LET kept == IF Cardinality(DOMAIN g_hash) >= CacheLimit THEN EmptyTable ELSE g_hash
  IN g_hash' = [k \in DOMAIN kept \cup {a} |->
                  IF k = a THEN [symbol |-> symbol, line |-> line] ELSE kept[k]]

(* dump_file *)

Init ==
  /\ mode \in Modes /\ pc = "record" /\ left = MaxRecords
  /\ map = << >> /\ outMap = FALSE
  /\ g_hash = IF mode \in DotMode THEN EmptyTable ELSE None
  /\ g_cache = << >> /\ tries = [f \in DOMAIN Files |-> 0]
  /\ record = None /\ edge = None /\ closed = FALSE

Next1 == pc = "record" /\ left > 0 /\ left' = left - 1

\* The list after outside_map_reset and n times outside_map_append.
Appended(m, n) == SubSeq(m, 1, n)

ReadMapMutant ==   \* the table survives the map it was filled under
  /\ Next1 /\ outMap' = TRUE /\ \E m \in Maps : map' = Appended(m, Len(m))
  /\ UNCHANGED << mode, pc, g_hash, files, output >>

\* A MAP record: the table is emptied, and made if there was none.
ReadMap ==
  /\ Next1 /\ outMap' = TRUE /\ \E m \in Maps : map' = Appended(m, Len(m))
  /\ g_hash' = EmptyTable
  /\ UNCHANGED << mode, pc, files, output >>

\* The end of the file inside of a MAP record, after some of its entries.
TruncatedMap ==
  /\ Next1 /\ \E m \in Maps : \E n \in 0 .. Len(m) - 1 : map' = Appended(m, n)
  /\ g_hash' = EmptyTable /\ pc' = "returned"
  /\ UNCHANGED << mode, outMap, files, output >>

Truncated ==
  /\ Next1 /\ pc' = "returned"
  /\ UNCHANGED << mode, map, outMap, g_hash, files, output >>

EndOfDump ==
  /\ pc = "record" /\ pc' = "returned" /\ closed' = TRUE
  /\ UNCHANGED << mode, left, map, outMap, g_hash, files, record, edge >>

\* An ENTER is never the first record of a dump (EnterUnlessRaced of MapChange).
ReadEnter ==
  /\ Next1 /\ outMap /\ mode \in DotMode
  /\ \E this \in Functions, call \in ReturnSites :
       record' = [this |-> this, call |-> call]
  /\ pc' = "caller" /\ edge' = None
  /\ UNCHANGED << mode, map, outMap, g_hash, files, closed >>

\* dot_enter takes the address in front of the return address for the caller.
Caller == record.call - 1
Hit(a) == a \in DOMAIN g_hash

HitCaller ==
  /\ pc = "caller" /\ Hit(Caller) /\ pc' = "callee"
  /\ edge' = [call |-> g_hash[Caller].symbol, line |-> g_hash[Caller].line, this |-> None]
  /\ UNCHANGED << mode, left, map, outMap, g_hash, files, record, closed >>

MissCaller ==
  /\ pc = "caller" /\ ~Hit(Caller) /\ AfterOpening(OpensFor(map, Caller))
  /\ \E stale \in SUBSET StaleFlags :
       IF \E d \in DwarfOf(map, Caller) : Asserts(mode, d, stale)
       THEN pc' = "aborted" /\ UNCHANGED << g_hash, edge >>
       ELSE LET symbol == SymbolName(mode, map, Caller, stale)
                line   == LineOf(map, Caller, stale)
            IN /\ CacheAdd(Caller, symbol, line)
               /\ edge' = [call |-> symbol, line |-> line, this |-> None]
               /\ pc' = "callee"
  /\ UNCHANGED << mode, left, map, outMap, record, closed >>

HitCallee ==
  /\ pc = "callee" /\ Hit(record.this) /\ pc' = "record"
  /\ edge' = [edge EXCEPT !.this = g_hash[record.this].symbol]
  /\ UNCHANGED << mode, left, map, outMap, g_hash, files, record, closed >>

\* The line that is kept with the function is the one of its caller.
MissCallee ==
  /\ pc = "callee" /\ ~Hit(record.this) /\ AfterOpening(OpensFor(map, record.this))
  /\ \E stale \in SUBSET StaleFlags :
       IF \E d \in DwarfOf(map, record.this) : Asserts(mode, d, stale)
       THEN pc' = "aborted" /\ UNCHANGED << g_hash, edge >>
       ELSE LET symbol == SymbolName(mode, map, record.this, stale)
            IN /\ CacheAdd(record.this, symbol, edge.line)
               /\ edge' = [edge EXCEPT !.this = symbol] /\ pc' = "record"
  /\ UNCHANGED << mode, left, map, outMap, record, closed >>

\* mat_enter and mat_leave resolve both addresses, as they are, every time.
PrintNames ==
  /\ Next1 /\ outMap /\ mode = "mat"
  /\ \E this \in Functions, call \in ReturnSites :
       /\ record' = [this |-> this, call |-> call]
       /\ edge' = [this |-> NamesOf(map, this), call |-> NamesOf(map, call), line |-> NoLine]
       /\ AfterOpening(GotoOpens(map, this) \o GotoOpens(map, call))
  /\ UNCHANGED << mode, pc, map, outMap, g_hash, closed >>

\* A LEAVE can be the first record of a dump; mat_leave follows out.map anyway.
ReadLeave ==
  /\ Next1 /\ ~(mode = "mat" /\ outMap)
  /\ pc' = IF mode = "mat" THEN "wild" ELSE pc
  /\ UNCHANGED << mode, map, outMap, g_hash, files, output >>

Next == \/ ReadMap \/ TruncatedMap \/ Truncated \/ EndOfDump
        \/ ReadEnter \/ HitCaller \/ MissCaller \/ HitCallee \/ MissCallee
        \/ PrintNames \/ ReadLeave

Spec == Init /\ [][Next]_vars

(* Properties *)

Printed == pc = "callee" /\ pc' = "record"

\* The line of a dot graph that an ENTER record becomes names what a fresh
\* resolution of its two addresses under the last MAP record gives, and its
\* label is the line of the call: neither the table, nor its being emptied
\* half way, nor the line of a caller that is kept with a function
\* (read-dump.c:331) shows in the output.
EdgeFaithful ==
  [][Printed => \E stale, stale2 \in SUBSET StaleFlags :
       /\ edge'.call = SymbolName(mode, map, Caller, stale)
       /\ edge'.line = LineOf(map, Caller, stale)
       /\ edge'.this = SymbolName(mode, map, record.this, stale2)]_vars

Inside(object, a) ==
  LET b == Bounds(Files[object.file])
  IN b.start + object.base <= a /\ a < b.end + object.base
EndsAt(object, a) == a = Bounds(Files[object.file]).end + object.base

\* The loader puts objects next to each other, below the end of the addresses.
LoadedApart ==
  \A m \in Maps : \A i, j \in DOMAIN m :
    LET b == Bounds(Files[m[i].file])
        c == Bounds(Files[m[j].file])
    IN HeaderRead(Files[m[i].file]) /\ HeaderRead(Files[m[j].file]) =>
         /\ b.start \in Nat /\ b.end \in Nat
         /\ b.start <= b.end /\ b.end + m[i].base < AddressMod
         /\ \/ i = j
            \/ b.end + m[i].base <= c.start + m[j].base
            \/ c.end + m[j].base <= b.start + m[i].base

\* An address is looked up in the object that was loaded over it.  The two
\* exceptions are the code's: an object in front of it in the list that ends
\* exactly there (the test is <=), and one that cannot be read, which ends the
\* walk of the list (utils_goto_map_entry).
RightObject ==
  [][Printed => \A x \in {<< Caller, edge'.call >>, << record.this, edge'.this >>} :
       \A i \in DOMAIN map :
         /\ Inside(map[i], x[1])
         /\ \A j \in 1 .. i : HeaderRead(Files[map[j].file])
         /\ \A j \in 1 .. i - 1 : ~EndsAt(map[j], x[1])
         => x[2].file = map[i].file]_vars

\* A file is mapped into memory once however often its objects are looked at,
\* as long as every file could be read: one that cannot be takes the cache of
\* the others with it, and they are mapped again (utils.c:105).
MappedOnce ==
  (\A f \in DOMAIN Files : tries[f] > 0 => Files[f].readable)
    => \A f \in DOMAIN Files : tries[f] <= 1
================================================================================
