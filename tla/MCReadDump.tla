------------------------------- MODULE MCReadDump ------------------------------
(* Files and maps for the model checker: "a" and "b" have code, "c" is gone    *)
(* from the disk.  "a" has line information for one function, "b" is stripped  *)
(* of it; one map has "b" where "a" ends, another one has them the other way   *)
(* round, a third one the file that cannot be read between them.               *)
EXTENDS ReadDump

Null(name) == [name |-> name, type |-> "null", link |-> 0, size |-> 0, symbols |-> << >>]

\* Loaded from 0 to end, with a section of names that the headers point to.
Object(end, symbols, dwarf) ==
  [readable |-> TRUE, ident |-> "elf32", e_type |-> 3, e_machine |-> EM_386,
   hasTable |-> TRUE, e_shnum |-> 3, e_shstrndx |-> 2,
   sections |-> << Null(""), [name |-> ".symtab", type |-> "symtab", link |-> 2,
                              size |-> 0, symbols |-> symbols],
                   [name |-> ".shstrtab", type |-> "strtab", link |-> 0,
                    size |-> 0, symbols |-> << >>] >>,
   programs |-> << [type |-> "load", vaddr |-> 0, memsz |-> end],
                   [type |-> "null", vaddr |-> 9, memsz |-> 9] >>,
   dwarf |-> dwarf]

Sym(name, value, size) == [name |-> name, value |-> value, size |-> size]

\* Offset 1 has all, 2 has a name only.
MCFiles ==
  [a |-> Object(3, << Sym("f", 0, 2), Sym("g", 2, 1) >>,
                1 :> [name |-> "f", line |-> 7, valid |-> {"filename", "name", "line", "dirname"}]
                @@ 2 :> [name |-> "g", line |-> 0, valid |-> {"name"}]),
   b |-> Object(4, << Sym("h", 0, 3), Sym("h2", 1, 2) >>, [o \in {} |-> {}]),
   c |-> [Object(4, << >>, [o \in {} |-> {}]) EXCEPT !.readable = FALSE]]

At(file, base) == [file |-> file, base |-> base]
MCMaps ==
  { << At("a", 1), At("b", 4) >>,
    << At("b", 6), At("a", 1) >>,
    << At("a", 1), At("c", 5), At("b", 9) >> }

ASSUME MCLoadedApart == LoadedApart
================================================================================
