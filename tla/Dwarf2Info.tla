------------------------------- MODULE Dwarf2Info ------------------------------
(***************************************************************************)
(* libdebug/dwarf2-info.c: the header of a unit and its entries, byte by   *)
(* byte.  The abbreviation of an entry says in which form each attribute   *)
(* was written; the interesting ones are read, the others stepped over,    *)
(* and an entry starts where the attributes of the one in front end.       *)
(*                                                                         *)
(* A case is [lsb, decls, bytes, entries, cut]: decls gives the attributes *)
(* [name, form] of each abbreviation code, bytes is the section without    *)
(* its last "cut" bytes, and entries says what was written into it.        *)
(***************************************************************************)
EXTENDS MemoryReader, SequencesExt, TLC

CONSTANT Cases

VARIABLES
  case,     \* the unit
  pc,       \* where dwarf2_info_cuh_read_entry is
  reader,
  cuh,      \* the header: the offset of its abbreviations and the address size
  entry,    \* how many entries have been begun
  attrs,    \* the attributes of the entry still to read: attr_offset
  fields    \* entry->used, with the fields

vars == << case, pc, reader, cuh, entry, attrs, fields >>

(* The forms *)

Forms == << "addr", "?", "block2", "block4", "data2", "data4", "data8", "string", "block",
            "block1", "data1", "flag", "sdata", "strp", "udata", "ref_addr", "ref1", "ref2",
            "ref4", "ref8", "ref_udata", "indirect" >>

\* What the readers of values read, and what skip_form steps over.
DataSize  == [data1 |-> 1, data2 |-> 2, data4 |-> 4, data8 |-> 8]
RefSize   == [ref1 |-> 1, ref2 |-> 2, ref4 |-> 4, ref8 |-> 8]
BlockSize == [block1 |-> 1, block2 |-> 2, block4 |-> 4]

SkipSizeMutant ==   \* half of a ref8
  [data1 |-> 1, data2 |-> 2, data4 |-> 4, data8 |-> 8, strp |-> 4, flag |-> 1,
   ref1 |-> 1, ref2 |-> 2, ref4 |-> 4, ref8 |-> 4]
SkipSize ==
  [data1 |-> 1, data2 |-> 2, data4 |-> 4, data8 |-> 8, strp |-> 4, flag |-> 1,
   ref1 |-> 1, ref2 |-> 2, ref4 |-> 4, ref8 |-> 8]

\* What a form gives, << base, number >> with what the number is relative to;
\* no result when the program does not come back from it.
Given(base, read) == {[value |-> << base, x.value >>, reader |-> x.reader] : x \in read}

ReadConstantForm(form, r) ==
  CASE form \in DOMAIN DataSize -> Given("none", {ReadFixed(r, DataSize[form])})
    [] form = "sdata"           -> Given("none", ReadSleb128(r))
    [] form = "udata"           -> Given("none", {ReadUleb128(r)})
    [] OTHER                    -> Given("none", {[value |-> {}, reader |-> r]})

ReadRefFormMutant(form, r) ==   \* every reference is taken to stay in the unit
  CASE form = "ref_addr"        -> Given("unit", {ReadU(r, cuh.address_size)})
    [] form \in DOMAIN RefSize  -> Given("unit", {ReadFixed(r, RefSize[form])})
    [] form = "ref_udata"       -> Given("unit", {ReadUleb128(r)})
    [] OTHER                    -> Given("unit", {[value |-> {}, reader |-> r]})
ReadRefForm(form, r) ==
  CASE form = "ref_addr"        -> Given("info", {ReadU(r, cuh.address_size)})
    [] form \in DOMAIN RefSize  -> Given("unit", {ReadFixed(r, RefSize[form])})
    [] form = "ref_udata"       -> Given("unit", {ReadUleb128(r)})
    [] OTHER                    -> Given("unit", {[value |-> {}, reader |-> r]})

\* An address, whatever the form.
ReadAddressForm(r) == Given("none", {ReadU(r, cuh.address_size)})

ReadStringForm(form, r) ==
  CASE form = "string" -> {[value |-> << "here", r.current >>, reader |-> s] : s \in PastString(r)}
    [] form = "strp"   -> Given("str", {ReadFixed(r, 4)})
    [] OTHER           -> {}   \* an assertion

SkipForm(form, r) ==
  CASE form \in {"addr", "ref_addr"} -> {Skip(r, cuh.address_size)}
    [] form = "block"              -> LET n == ReadUleb128(r) IN {SkipCount(n.reader, n.value)}
    [] form \in DOMAIN BlockSize   -> LET n == ReadFixed(r, BlockSize[form])
                                      IN {SkipCount(n.reader, n.value)}
    [] form \in DOMAIN SkipSize    -> {Skip(r, SkipSize[form])}
    [] form \in {"udata", "ref_udata"} -> {ReadUleb128(r).reader}
    [] form = "sdata"              -> {x.reader : x \in ReadSleb128(r)}
    [] form = "string"             -> PastString(r)
    [] OTHER                       -> {r}

(* The attributes *)

Interesting == {"stmt_list", "comp_dir", "high_pc", "low_pc", "name", "specification",
                "abstract_origin"}

\* The form of an attribute, which may be written with it.
FormOf(a, r) ==
  IF a.form # "indirect" THEN [form |-> a.form, reader |-> r]
  ELSE LET code == ReadUleb128(r)
       IN [reader |-> code.reader,
           form |-> IF code.value \subseteq Ones(5) /\ Number(code.value) \in DOMAIN Forms
                    THEN Forms[Number(code.value)] ELSE "?"]

\* attr_read_entry: an interesting attribute with its value, or the reader behind
\* another one.
ReadAttribute(a, r) ==
  LET f == FormOf(a, r)
  IN CASE a.name = "stmt_list"                            -> ReadConstantForm(f.form, f.reader)
       [] a.name \in {"comp_dir", "name"}                 -> ReadStringForm(f.form, f.reader)
       [] a.name \in {"high_pc", "low_pc"}                -> ReadAddressForm(f.reader)
       [] a.name \in {"specification", "abstract_origin"} -> ReadRefForm(f.form, f.reader)
SkipAttribute(a, r) ==
  LET f == FormOf(a, r)
  IN IF f.form = "indirect" THEN {} ELSE SkipForm(f.form, f.reader)   \* an assertion

(* The unit *)

Init ==
  /\ case \in Cases /\ reader = ReaderInitialize(case.bytes, case.lsb)
  /\ pc = "header" /\ cuh = << >> /\ entry = 0 /\ attrs = << >> /\ fields = << >>

\* dwarf2_info_read_cuh: length, version, offset and address size.
ReadCuh ==
  /\ pc = "header" /\ pc' = "code"
  /\ LET offset == ReadFixed(Skip(Skip(reader, 4), 2), 4)
         size   == ReadFixed(offset.reader, 1)
     IN /\ cuh' = [offset |-> offset.value, address_size |-> Number(size.value)]
        /\ reader' = Seek(size.reader, 4 + 2 + 4 + 1)
  /\ UNCHANGED << case, entry, attrs, fields >>

\* The codes in front of an entry: zeros end lists of children.
ReadCode ==
  /\ pc = "code"
  /\ LET code == ReadUleb128(reader)
     IN /\ reader' = code.reader
        /\ IF code.value = {} THEN UNCHANGED << pc, entry, attrs, fields >>
           ELSE IF code.value \subseteq Ones(16) /\ Number(code.value) \in DOMAIN case.decls
           THEN /\ pc' = "attributes" /\ entry' = entry + 1 /\ fields' = << >>
                /\ attrs' = case.decls[Number(code.value)]
           ELSE pc' = "astray" /\ UNCHANGED << entry, attrs, fields >>
  /\ UNCHANGED << case, cuh >>

\* entry->stmt_list has 32 bits.
Stored(name, value) ==
  IF name = "stmt_list" THEN << value[1], value[2] \cap Ones(32) >> ELSE value

TakeAttribute ==
  /\ pc = "attributes" /\ attrs # << >> /\ attrs[1].name \in Interesting
  /\ \E x \in ReadAttribute(attrs[1], reader) :
       reader' = x.reader /\ fields' = (attrs[1].name :> Stored(attrs[1].name, x.value)) @@ fields
  /\ attrs' = Tail(attrs) /\ UNCHANGED << case, pc, cuh, entry >>

PassAttribute ==
  /\ pc = "attributes" /\ attrs # << >> /\ attrs[1].name \notin Interesting
  /\ reader' \in SkipAttribute(attrs[1], reader)
  /\ attrs' = Tail(attrs) /\ UNCHANGED << case, pc, cuh, entry, fields >>

\* The caller goes on at end_offset.
NextEntry ==
  /\ pc = "attributes" /\ attrs = << >>
  /\ IF entry < Len(case.entries) THEN pc' = "code" ELSE pc' = "done"
  /\ reader' = Seek(reader, reader.current)
  /\ UNCHANGED << case, cuh, entry, attrs, fields >>

Next == ReadCuh \/ ReadCode \/ TakeAttribute \/ PassAttribute \/ NextEntry

Spec == Init /\ [][Next]_vars

(* What was written: the entries, each with the bytes of its codes and its   *)
(* attributes, [name, form, bytes, value] with the form that was used.       *)

LengthOf(pieces) == FoldLeft(LAMBDA n, p : n + Len(p.bytes), 0, pieces)
Written == case.entries[entry].attrs

\* Where attribute k of the entry starts.
Start(k) ==
  11 + FoldLeft(LAMBDA n, e : n + Len(e.codes) + LengthOf(e.attrs), 0,
                SubSeq(case.entries, 1, entry - 1))
     + Len(case.entries[entry].codes) + LengthOf(SubSeq(Written, 1, k - 1))

\* Numbers that LEB128 readers get right (memory-reader.c:208, 243), and addresses.
Exact(a) ==
  CASE a.form \in {"udata", "ref_udata"} -> a.value[2] \subseteq Ones(31)
    [] a.form = "sdata"                  -> 63 \notin a.value[2] \/ 27 .. 63 \subseteq a.value[2]
    [] a.form \in {"addr", "ref_addr"}   -> a.value[2] \subseteq Ones(32)
    [] OTHER                             -> TRUE

ValueAt(k) ==
  LET a == Written[k]
  IN IF a.value[1] = "here" THEN << "here", Start(k) + a.value[2] >>
     ELSE IF a.name = "stmt_list" THEN << a.value[1], a.value[2] \ 32 .. 63 >>
     ELSE a.value

(* Properties *)

\* Each attribute is read from where it was written, whatever was read or stepped
\* over in front of it: the readers of values and skip_form agree on every form
\* (dwarf2-info.c:133).
InStep ==
  pc = "attributes" /\ reader.ok => reader.current = Start(Len(Written) - Len(attrs) + 1)

\* The fields of a whole entry are the ones that were written, with offsets and
\* references relative to the section or unit of their form: 64 bits of a reference,
\* 32 of a statement list, in either byte order (dwarf2-info.c:38-131).
FieldsRight ==
  pc = "attributes" /\ attrs = << >> /\ reader.ok =>
    /\ DOMAIN fields = {a.name : a \in Range(Written)} \cap Interesting
    /\ \A k \in DOMAIN Written :
         Written[k].name \in Interesting /\ Exact(Written[k]) => fields[Written[k].name] = ValueAt(k)

\* A unit that the file ends in is never walked to the end, nor to a code that is
\* not declared, without an error in the reader's status (memory-reader.c:34).  In a
\* number or a string without an end the code may also never come back.
TruncationSeen ==
  pc \in {"done", "astray"} =>
    reader.current <= Len(reader.bytes) /\ (case.cut > 0 => ~reader.ok)
================================================================================
