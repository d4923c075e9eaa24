------------------------------ MODULE MCDwarf2Info -----------------------------
(* Units for the model checker: pairs of attributes in front of one that shows  *)
(* whether the reader is still in step, in both byte orders, whole and cut off. *)
EXTENDS Dwarf2Info

(* The sizes of the forms in DWARF 2, section 7.5.4. *)
DataBytes  == [data1 |-> 1, data2 |-> 2, data4 |-> 4, data8 |-> 8]
RefBytes   == [ref1 |-> 1, ref2 |-> 2, ref4 |-> 4, ref8 |-> 8]
BlockBytes == [block1 |-> 1, block2 |-> 2, block4 |-> 4]

Byte(n) == {b \in 0 .. 7 : (n \div 2 ^ b) % 2 = 1}

FixedBytes(bits, n, lsb) ==
  [k \in 1 .. n |-> LET i == 8 * (IF lsb THEN k - 1 ELSE n - k) IN {b \in 0 .. 7 : b + i \in bits}]
LebBytes(bits, n) ==
  [k \in 1 .. n |-> {b \in 0 .. 6 : b + 7 * (k - 1) \in bits} \cup (IF k < n THEN {7} ELSE {})]

Text == << Byte(65), Byte(128), {} >>
Filling(n) == [k \in 1 .. n |-> {7, 0}]

Code(form) == CHOOSE n \in DOMAIN Forms : Forms[n] = form

\* An attribute with a number, or a block of "size" bytes.
Attr(name, form, base, bits, bytes) ==
  [name |-> name, declared |-> form, form |-> form, value |-> << base, bits >>, bytes |-> bytes]
Indirect(a) ==
  [a EXCEPT !.declared = "indirect", !.bytes = << Byte(Code(a.form)) >> \o @,
            !.value = IF @[1] = "here" THEN << "here", 1 >> ELSE @]
String(name) == Attr(name, "string", "here", 0, Text)

Pool(lsb, size) ==
  {Attr("stmt_list", f, "none", {1, 6}, FixedBytes({1, 6}, DataBytes[f], lsb)) : f \in DOMAIN DataBytes}
  \cup {Attr("stmt_list", "data8", "none", {1, 31, 40}, FixedBytes({1, 31, 40}, 8, lsb))}
  \cup {Attr("stmt_list", "sdata", "none", v, LebBytes(v, n)) :
          << v, n >> \in {<< {0, 5}, 1 >>, << {1} \cup 6 .. 63, 1 >>, << {3, 6}, 2 >>,
                          << {40}, 6 >>, << 34 .. 63, 5 >>, << {2}, 11 >>}}
  \cup {Attr(nm, "udata", "none", v, LebBytes(v, n)) :
          nm \in {"stmt_list", "other"},
          << v, n >> \in {<< {6}, 1 >>, << {0, 13}, 2 >>, << {2, 30}, 5 >>, << {3}, 9 >>,
                          << {33}, 5 >>}}
  \cup {String("name"), String("comp_dir"), String("other")}
  \cup {Attr(nm, "strp", "str", {0, 9}, FixedBytes({0, 9}, 4, lsb)) : nm \in {"name", "other"}}
  \cup {Attr(nm, f, "unit", {2, 5}, FixedBytes({2, 5}, RefBytes[f], lsb)) :
          nm \in {"specification", "abstract_origin", "other"}, f \in DOMAIN RefBytes}
  \cup {Attr(nm, "ref_addr", "info", {2, 9}, FixedBytes({2, 9}, size, lsb)) :
          nm \in {"specification", "other"}}
  \cup {Attr(nm, "ref_udata", "unit", {8}, LebBytes({8}, 2)) : nm \in {"abstract_origin", "other"}}
  \cup {Attr(nm, "addr", "none", {0, 15}, FixedBytes({0, 15}, size, lsb)) :
          nm \in {"low_pc", "high_pc", "other"}}
  \cup {Attr("other", f, "none", {}, FixedBytes({1}, BlockBytes[f], lsb) \o Filling(2)) :
          f \in DOMAIN BlockBytes}
  \cup {Attr("other", "block", "none", {}, LebBytes({0}, 2) \o Filling(1)),
        Attr("other", "flag", "none", {}, << {0} >>),
        Attr("other", "sdata", "none", {}, << {7, 1}, {6} >>)}

Attributes(lsb, size) ==
  Pool(lsb, size) \cup {Indirect(a) : a \in Pool(lsb, size)}

Header(lsb, size) ==
  Filling(4) \o FixedBytes({1}, 2, lsb) \o FixedBytes({4}, 4, lsb) \o << Byte(size) >>

\* Each entry has an abbreviation of its own; the codes in front end lists.
Entry(codes, as) == [codes |-> codes, attrs |-> as]
EntryBytes(e) == e.codes \o FlattenSeq([i \in DOMAIN e.attrs |-> e.attrs[i].bytes])

Unit(lsb, size, first, second, cut) ==
  LET entries == << Entry(<< {0} >>, first), Entry(<< {}, {}, {7, 1}, {0} >>, second) >>
      bytes == Header(lsb, size) \o FlattenSeq([i \in 1 .. 2 |-> EntryBytes(entries[i])])
      decl(e) == [i \in DOMAIN e.attrs |->
                    [name |-> e.attrs[i].name, form |-> e.attrs[i].declared]]
  IN [lsb |-> lsb, cut |-> cut, entries |-> entries,
      decls |-> (1 :> decl(entries[1])) @@ (130 :> decl(entries[2])),
      bytes |-> SubSeq(bytes, 1, Len(bytes) - cut)]

Probe(lsb, size, a) == Attr(IF a.name = "low_pc" THEN "high_pc" ELSE "low_pc", "addr", "none",
                            {3}, FixedBytes({3}, size, lsb))

MCCases ==
  UNION {{Unit(lsb, size, << a >>, << b, Probe(lsb, size, b) >>, 0) :
            a \in Attributes(lsb, size), b \in Pool(lsb, size)} :
         << lsb, size >> \in {<< TRUE, 4 >>, << FALSE, 2 >>}}
  \cup {Unit(TRUE, 8, << a >>, << a, Probe(TRUE, 8, a) >>, 0) : a \in Attributes(TRUE, 8)}
  \cup UNION {LET whole == Unit(TRUE, 4, << a >>, << b >>, 0)
              IN {Unit(TRUE, 4, << a >>, << b >>, cut) : cut \in 1 .. Len(whole.bytes)} :
           << a, b >> \in {String("name")} \X Attributes(TRUE, 4)
                          \cup Attributes(TRUE, 4) \X {String("name")}}
================================================================================
