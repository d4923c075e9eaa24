----------------------------- MODULE ReadDumpProofs ----------------------------
(***************************************************************************)
(* What read-dump prints for an ENTER record is what its two addresses     *)
(* resolve to under the last map, they are looked up in the object that    *)
(* was loaded over them, and each file is mapped once: for every set of    *)
(* files, maps and addresses, every dump and every size of the table of    *)
(* resolved addresses.                                                     *)
(***************************************************************************)
EXTENDS ReadDump, SequenceTheorems, WellFoundedInduction, TLAPS

(* The inductive invariant *)

Printing == pc \in {"caller", "callee"}

\* What is known where an ENTER record is being printed.
Control ==
  /\ mode \in Modes
  /\ pc \in {"record", "caller", "callee", "returned", "aborted", "wild"}
  /\ Printing => /\ mode \in DotMode /\ outMap
                 /\ record \in [this : Functions, call : ReturnSites]
  /\ outMap /\ pc # "returned" => map \in Maps

\* What the table holds of an address is what a fresh resolution under the map
\* that is in force gives for it; the line, unless it is a function's.
Entry(a, symbol, line) ==
  \E stale \in SUBSET StaleFlags :
    /\ symbol = SymbolName(mode, map, a, stale)
    /\ a \notin Functions => line = LineOf(map, a, stale)

Table ==
  mode \in DotMode => \A a \in DOMAIN g_hash : Entry(a, g_hash[a].symbol, g_hash[a].line)

\* The half of an edge that has been printed.
Edge ==
  pc = "callee" => /\ Entry(Caller, edge.call, edge.line)
                   /\ edge = [call |-> edge.call, line |-> edge.line, this |-> None]

IInv == Control /\ Table /\ Edge

-----------------------------------------------------------------------------
\* The caller's address lies inside of a call, so that it is not a function's.
LEMMA CallerIsNoFunction ==
  ASSUME IInv, Printing PROVE Caller \notin Functions /\ record.this \in Functions
BY ReadDumpAssumption DEF IInv, Control, Caller

\* The list that is appended entry by entry is the one the record holds.
LEMMA AllAppended ==
  ASSUME NEW m \in Maps PROVE Appended(m, Len(m)) = m
<1> DEFINE O == [base : 0 .. AddressMod - 1, file : DOMAIN Files]
           r == SubSeq(m, 1, Len(m))
<1>1. m \in Seq(O) /\ Len(m) \in Nat /\ DOMAIN m = 1 .. Len(m)
      /\ \A i \in 1 .. Len(m) : m[i] \in O
  BY ReadDumpAssumption, ElementOfSeq, LenProperties
<1> HIDE DEF O
<1>2. /\ r \in Seq(O) /\ Len(r) = IF 1 <= Len(m) THEN Len(m) - 1 + 1 ELSE 0
      /\ \A i \in 1 .. Len(m) - 1 + 1 : r[i] = m[1 + i - 1]
  BY <1>1, SubSeqProperties
<1>3. Len(r) = Len(m) /\ \A i \in 1 .. Len(m) : r[i] = m[i]
  <2> DEFINE n == Len(m)
  <2>1. /\ n \in Nat /\ Len(r) = IF 1 <= n THEN n - 1 + 1 ELSE 0
        /\ \A i \in 1 .. n - 1 + 1 : r[i] = m[1 + i - 1]
    BY <1>1, <1>2
  <2> HIDE DEF n, r
  <2>2. Len(r) = n /\ n - 1 + 1 = n /\ \A i \in 1 .. n : 1 + i - 1 = i
    BY <2>1
  <2> QED BY <2>1, <2>2 DEF n
<1>4. r = m
  BY <1>1, <1>2, <1>3, SeqEqual
<1> QED BY <1>4 DEF Appended

\* A new entry of the table, whether it is emptied first or not.
LEMMA TableAdded ==
  ASSUME NEW a, NEW symbol, NEW line, mode \in DotMode, Table, UNCHANGED << mode, map >>,
         CacheAdd(a, symbol, line), Entry(a, symbol, line)
  PROVE  Table'
<1> DEFINE kept == IF Cardinality(DOMAIN g_hash) >= CacheLimit THEN EmptyTable ELSE g_hash
<1>1. \A k \in DOMAIN kept : Entry(k, kept[k].symbol, kept[k].line)
  BY DEF Table, EmptyTable
<1>2. g_hash' = [k \in DOMAIN kept \cup {a} |->
                   IF k = a THEN [symbol |-> symbol, line |-> line] ELSE kept[k]]
  BY DEF CacheAdd
<1> HIDE DEF kept
<1>3. \A k \in DOMAIN g_hash' : Entry(k, g_hash'[k].symbol, g_hash'[k].line)
  BY <1>1, <1>2
<1>4. \A k, s, l : Entry(k, s, l) <=> Entry(k, s, l)'
  BY DEF Entry
<1> QED BY <1>3, <1>4 DEF Table

LEMMA TableKept ==
  ASSUME Table, UNCHANGED << mode, map, g_hash >> PROVE Table'
BY DEF Table, Entry

-----------------------------------------------------------------------------
LEMMA InitInvariant == ASSUME Init PROVE IInv
BY DEF Init, IInv, Control, Printing, Table, Edge, EmptyTable

LEMMA NextInvariant == ASSUME IInv, [Next]_vars PROVE IInv'
<1> USE DEF IInv
<1>1. CASE ReadMap
  <2>1. map' \in Maps
    BY <1>1, AllAppended DEF ReadMap
  <2> QED BY <1>1, <2>1 DEF ReadMap, Next1, Control, Printing, Table, Edge, EmptyTable
<1>2. CASE TruncatedMap
  BY <1>2 DEF TruncatedMap, Next1, Control, Printing, Table, Edge, EmptyTable
<1>3. CASE Truncated \/ EndOfDump
  BY <1>3, TableKept DEF Truncated, EndOfDump, Next1, files, output, Control, Printing, Edge
<1>4. CASE ReadEnter
  BY <1>4, TableKept DEF ReadEnter, Next1, files, Control, Printing, Edge
<1>5. CASE HitCaller
  <2>1. mode \in DotMode /\ Entry(Caller, g_hash[Caller].symbol, g_hash[Caller].line)
    BY <1>5 DEF HitCaller, Hit, Control, Printing, Table
  <2>2. Edge'
    BY <1>5, <2>1 DEF HitCaller, Edge, Entry, Caller
  <2> QED BY <1>5, <2>2, TableKept DEF HitCaller, files, Control, Printing
<1>6. CASE MissCaller
  <2>1. mode \in DotMode /\ UNCHANGED << mode, map, outMap, record >>
    BY <1>6 DEF MissCaller, Control, Printing
  <2>2. PICK stale \in SUBSET StaleFlags :
          \/ pc' = "aborted" /\ UNCHANGED << g_hash, edge >>
          \/ /\ CacheAdd(Caller, SymbolName(mode, map, Caller, stale), LineOf(map, Caller, stale))
             /\ edge' = [call |-> SymbolName(mode, map, Caller, stale),
                         line |-> LineOf(map, Caller, stale), this |-> None]
             /\ pc' = "callee"
    BY <1>6 DEF MissCaller
  <2>3. Entry(Caller, SymbolName(mode, map, Caller, stale), LineOf(map, Caller, stale))
    BY DEF Entry
  <2>4. Table'
    BY <2>1, <2>2, <2>3, TableAdded, TableKept
  <2>5. Edge'
    BY <2>1, <2>2, <2>3 DEF Edge, Entry, Caller
  <2> QED BY <1>6, <2>1, <2>2, <2>4, <2>5 DEF MissCaller, Control, Printing
<1>7. CASE HitCallee
  BY <1>7, TableKept DEF HitCallee, files, Control, Printing, Edge
<1>8. CASE MissCallee
  <2>1. mode \in DotMode /\ UNCHANGED << mode, map, outMap, record >> /\ Printing
    BY <1>8 DEF MissCallee, Control, Printing
  <2>2. PICK stale \in SUBSET StaleFlags :
          \/ pc' = "aborted" /\ UNCHANGED << g_hash, edge >>
          \/ /\ CacheAdd(record.this, SymbolName(mode, map, record.this, stale), edge.line)
             /\ pc' = "record"
    BY <1>8 DEF MissCallee
  <2>3. Entry(record.this, SymbolName(mode, map, record.this, stale), edge.line)
    BY <2>1, CallerIsNoFunction DEF Entry
  <2>4. Table'
    BY <2>1, <2>2, <2>3, TableAdded, TableKept
  <2> QED BY <1>8, <2>1, <2>2, <2>4 DEF MissCallee, Control, Printing, Edge
<1>9. CASE PrintNames
  BY <1>9, TableKept DEF PrintNames, Next1, Control, Printing, Edge
<1>10. CASE ReadLeave
  BY <1>10, TableKept DEF ReadLeave, Next1, files, output, Control, Printing, Edge
<1>11. CASE UNCHANGED vars
  BY <1>11 DEF vars, files, output, Control, Printing, Table, Edge, Entry, Caller
<1> QED BY <1>1, <1>2, <1>3, <1>4, <1>5, <1>6, <1>7, <1>8, <1>9, <1>10, <1>11 DEF Next

\* What the table and the half printed edge hold is right in every state.
THEOREM Invariance == Spec => []IInv
<1>1. ASSUME IInv, [Next]_vars PROVE IInv'
  BY <1>1, NextInvariant
<1> QED BY <1>1, InitInvariant, PTL DEF Spec

-----------------------------------------------------------------------------
(* What is printed *)

Faithful ==
  \E stale, stale2 \in SUBSET StaleFlags :
    /\ edge'.call = SymbolName(mode, map, Caller, stale)
    /\ edge'.line = LineOf(map, Caller, stale)
    /\ edge'.this = SymbolName(mode, map, record.this, stale2)

LEMMA PrintedFaithfully == ASSUME IInv, [Next]_vars, Printed PROVE Faithful
<1> USE DEF IInv
<1>1. pc = "callee" /\ pc' = "record" /\ mode \in DotMode
  BY DEF Printed, Control, Printing
<1>2. PICK stale \in SUBSET StaleFlags :
        edge.call = SymbolName(mode, map, Caller, stale) /\ edge.line = LineOf(map, Caller, stale)
  BY <1>1, CallerIsNoFunction DEF Edge, Entry, Printing
<1>3. edge = [call |-> edge.call, line |-> edge.line, this |-> None]
  BY <1>1 DEF Edge
<1>4. CASE HitCallee
  <2>1. PICK stale2 \in SUBSET StaleFlags :
          g_hash[record.this].symbol = SymbolName(mode, map, record.this, stale2)
    BY <1>1, <1>4 DEF HitCallee, Hit, Table, Entry
  <2>2. /\ edge'.call = edge.call /\ edge'.line = edge.line
        /\ edge'.this = g_hash[record.this].symbol
    BY <1>3, <1>4 DEF HitCallee
  <2> QED BY <1>2, <2>1, <2>2 DEF Faithful
<1>5. CASE MissCallee
  <2>1. PICK stale2 \in SUBSET StaleFlags :
          edge' = [edge EXCEPT !.this = SymbolName(mode, map, record.this, stale2)]
    BY <1>1, <1>5 DEF MissCallee
  <2>2. /\ edge'.call = edge.call /\ edge'.line = edge.line
        /\ edge'.this = SymbolName(mode, map, record.this, stale2)
    BY <1>3, <2>1
  <2> QED BY <1>2, <2>2 DEF Faithful
<1> QED BY <1>1, <1>4, <1>5 DEF Next, ReadMap, TruncatedMap, Truncated, EndOfDump, ReadEnter,
           HitCaller, MissCaller, PrintNames, ReadLeave, Next1, vars

\* The line of a dot graph names what the two addresses of its ENTER record
\* resolve to under the last MAP record: neither the table nor its being emptied
\* nor the line that is kept with a function shows in it.
THEOREM EdgesAreFaithful == Spec => EdgeFaithful
<1>1. ASSUME IInv, [Next]_vars
      PROVE  [Printed => \E stale, stale2 \in SUBSET StaleFlags :
                /\ edge'.call = SymbolName(mode, map, Caller, stale)
                /\ edge'.line = LineOf(map, Caller, stale)
                /\ edge'.this = SymbolName(mode, map, record.this, stale2)]_vars
  BY <1>1, PrintedFaithfully DEF Faithful
<1> QED BY <1>1, Invariance, PTL DEF Spec, EdgeFaithful

-----------------------------------------------------------------------------
(* The object an address is looked up in *)

\* An address that object i holds, which nothing in front of it ends at and no
\* file that cannot be read stands before.
Found(m, i, a) ==
  /\ i \in DOMAIN m /\ Inside(m[i], a)
  /\ \A j \in 1 .. i : HeaderRead(Files[m[j].file])
  /\ \A j \in 1 .. i - 1 : ~EndsAt(m[j], a)

LEMMA Unwrapped == ASSUME NEW x \in Nat, x < AddressMod PROVE x % AddressMod = x
BY ElfAssumption

\* The loader's objects are apart, so that it is the first that holds it.
LEMMA FirstToHold ==
  ASSUME LoadedApart, NEW m \in Maps, NEW i, NEW a \in Int, Found(m, i, a)
  PROVE  Holds(m[i], a) /\ \A j \in 1 .. i - 1 : ~Holds(m[j], a)
<1> DEFINE start(j) == Bounds(Files[m[j].file]).start
           end(j)   == Bounds(Files[m[j].file]).end
<1>1. i \in 1 .. Len(m) /\ Len(m) \in Nat /\ DOMAIN m = 1 .. Len(m)
      /\ \A j \in 1 .. Len(m) : m[j].base \in Nat
  <2> DEFINE O == [base : 0 .. AddressMod - 1, file : DOMAIN Files]
  <2>1. m \in Seq(O)
    BY ReadDumpAssumption
  <2>2. \A o \in O : o.base \in Nat
    BY ElfAssumption
  <2> HIDE DEF O
  <2> QED BY <2>1, <2>2, ElementOfSeq, LenProperties DEF Found
<1>2. \A j \in 1 .. i : /\ j \in DOMAIN m /\ HeaderRead(Files[m[j].file])
                        /\ m[j].base \in Nat
  BY <1>1 DEF Found
<1>3. \A j \in 1 .. i :
        /\ start(j) \in Nat /\ end(j) \in Nat /\ start(j) <= end(j)
        /\ end(j) + m[j].base < AddressMod
        /\ \/ i = j
           \/ end(i) + m[i].base <= start(j) + m[j].base
           \/ end(j) + m[j].base <= start(i) + m[i].base
  <2>1. \A k, j \in DOMAIN m :
          HeaderRead(Files[m[k].file]) /\ HeaderRead(Files[m[j].file]) =>
            /\ start(k) \in Nat /\ end(k) \in Nat
            /\ start(k) <= end(k) /\ end(k) + m[k].base < AddressMod
            /\ \/ k = j
               \/ end(k) + m[k].base <= start(j) + m[j].base
               \/ end(j) + m[j].base <= start(k) + m[k].base
    BY DEF LoadedApart
  <2>2. i \in 1 .. i /\ i \in DOMAIN m
    BY <1>1
  <2> HIDE DEF start, end
  <2> QED BY <1>2, <2>1, <2>2
<1>4. \A j \in 1 .. i : Holds(m[j], a) <=> start(j) + m[j].base <= a /\ a <= end(j) + m[j].base
  <2> SUFFICES ASSUME NEW j \in 1 .. i
               PROVE  Holds(m[j], a) <=> start(j) + m[j].base <= a /\ a <= end(j) + m[j].base
    OBVIOUS
  <2>1. PICK s \in Nat, e \in Nat, b \in Nat :
          s = start(j) /\ e = end(j) /\ b = m[j].base /\ s <= e /\ e + b < AddressMod
    BY <1>2, <1>3
  <2>2. (s + b) % AddressMod = s + b /\ (e + b) % AddressMod = e + b
    <3>1. s + b \in Nat /\ e + b \in Nat /\ s + b < AddressMod /\ e + b < AddressMod
      BY <2>1, ElfAssumption
    <3> QED BY <3>1, Unwrapped
  <2> QED BY <2>1, <2>2 DEF Holds
<1>5. start(i) + m[i].base <= a /\ a < end(i) + m[i].base
      /\ \A j \in 1 .. i - 1 : a # end(j) + m[j].base
  BY DEF Found, Inside, EndsAt
<1> HIDE DEF start, end
<1>6. Holds(m[i], a)
  BY <1>1, <1>2, <1>3, <1>4, <1>5
<1>7. ASSUME NEW j \in 1 .. i - 1 PROVE ~Holds(m[j], a)
  <2>1. j \in 1 .. i /\ i # j
    BY <1>1
  <2>2. PICK si \in Nat, ei \in Nat, sj \in Nat, ej \in Nat :
          /\ si = start(i) + m[i].base /\ ei = end(i) + m[i].base
          /\ sj = start(j) + m[j].base /\ ej = end(j) + m[j].base
    <3>1. i \in 1 .. i
      BY <1>1
    <3>2. \A k \in 1 .. i : start(k) + m[k].base \in Nat /\ end(k) + m[k].base \in Nat
      BY <1>2, <1>3
    <3> QED BY <2>1, <3>1, <3>2
  <2>3. (ei <= sj \/ ej <= si) /\ si <= a /\ a < ei /\ a # ej
    BY <1>3, <1>5, <2>1, <2>2
  <2>4. Holds(m[j], a) <=> sj <= a /\ a <= ej
    BY <1>4, <2>1, <2>2
  <2> QED BY <2>3, <2>4
<1> QED BY <1>6, <1>7

LEMMA StopsThere ==
  ASSUME LoadedApart, NEW m \in Maps, NEW i, NEW a \in Int, Found(m, i, a)
  PROVE  GotoMapEntry(m, a) = {m[i]}
<1> DEFINE I == {j \in 1 .. Len(m) : ~HeaderRead(Files[m[j].file]) \/ Holds(m[j], a)}
<1>1. i \in 1 .. Len(m) /\ Len(m) \in Nat /\ DOMAIN m = 1 .. Len(m)
  BY ReadDumpAssumption, ElementOfSeq, LenProperties DEF Found
<1>2. i \in I /\ \A j \in I : i <= j
  <2>1. Holds(m[i], a) /\ \A j \in 1 .. i - 1 : ~Holds(m[j], a)
    BY FirstToHold
  <2>2. \A j \in 1 .. i : HeaderRead(Files[m[j].file])
    BY DEF Found
  <2>3. i \in I
    BY <1>1, <2>1
  <2>4. ASSUME NEW j \in I, j < i PROVE FALSE
    <3>1. j \in 1 .. Len(m) /\ (~HeaderRead(Files[m[j].file]) \/ Holds(m[j], a))
      BY <2>4
    <3>2. j \in 1 .. i /\ j \in 1 .. i - 1
      BY <1>1, <2>4, <3>1
    <3> QED BY <2>1, <2>2, <3>1, <3>2, Zenon
  <2>5. i \in Int /\ \A j \in I : j \in Int
    BY <1>1
  <2> HIDE DEF I
  <2> QED BY <2>3, <2>4, <2>5
<1>3. I \subseteq Int
  BY <1>1
<1>4. Stop(m, a) = IF I # {} THEN Min(I) ELSE 0
  BY DEF Stop, SelectInSeq
<1> HIDE DEF I
<1>5. Min(I) = i
  <2>1. Min(I) \in I /\ \A j \in I : Min(I) <= j
    BY <1>2 DEF Min
  <2> DEFINE least == Min(I)
  <2>2. i \in Int /\ least \in Int /\ least <= i /\ i <= least
    BY <1>2, <1>3, <2>1
  <2> HIDE DEF least
  <2>3. least = i
    BY <2>2
  <2> QED BY <2>3 DEF least
<1>6. Stop(m, a) = i /\ HeaderRead(Files[m[i].file])
  BY <1>1, <1>2, <1>4, <1>5 DEF Found
<1> QED BY <1>1, <1>6 DEF GotoMapEntry

LEMMA NamedAfterItsFile ==
  ASSUME LoadedApart, NEW m \in Maps, NEW i, NEW a \in Int, Found(m, i, a), NEW stale, NEW md
  PROVE  SymbolName(md, m, a, stale).file = m[i].file
<1>1. GotoMapEntry(m, a) = {m[i]}
  BY StopsThere
<1>2. CASE DwarfOf(m, a) = {}
  <2> DEFINE names   == UNION {{[file |-> o.file, name |-> n] :
                           n \in FirstSymbol(Files[o.file], a - o.base)} : o \in {m[i]}}
             offsets == {[file |-> o.file, offset |-> a - o.base] : o \in {m[i]}}
             all     == IF names # {} THEN names
                        ELSE IF offsets # {} THEN offsets ELSE {Unknown}
  <2>1. [file |-> m[i].file, offset |-> a - m[i].base] \in offsets
        /\ \A n \in offsets : n.file = m[i].file
    OBVIOUS
  <2>2. \A n \in names : n.file = m[i].file
    OBVIOUS
  <2>3. ElfString(m, a) = CHOOSE n \in all : TRUE
    BY <1>1 DEF ElfString
  <2> HIDE DEF names, offsets
  <2>4. all # {} /\ \A n \in all : n.file = m[i].file
    BY <2>1, <2>2
  <2> HIDE DEF all
  <2>5. ElfString(m, a).file = m[i].file
    BY <2>3, <2>4
  <2> QED BY <1>2, <2>5 DEF SymbolName
<1>3. CASE DwarfOf(m, a) # {}
  <2>1. \A d \in DwarfOf(m, a) : d.file = m[i].file
    BY <1>1 DEF DwarfOf
  <2>2. (CHOOSE d \in DwarfOf(m, a) : TRUE) \in DwarfOf(m, a)
    BY <1>3
  <2>3. PICK d \in DwarfOf(m, a) : SymbolName(md, m, a, stale) = DwarfString(md, d, stale)
    BY <1>3, <2>2 DEF SymbolName
  <2> QED BY <2>1, <2>3 DEF DwarfString
<1> QED BY <1>2, <1>3

\* An address that is printed is named after the object that was loaded over it,
\* if the loader has put the objects apart (LoadedApart): the first that fits
\* under the code's test is the one.
THEOREM ObjectsAreRight ==
  ASSUME LoadedApart PROVE Spec => RightObject
<1>1. ASSUME IInv, [Next]_vars
      PROVE  [Printed => \A x \in {<< Caller, edge'.call >>, << record.this, edge'.this >>} :
       \A i \in DOMAIN map :
         /\ Inside(map[i], x[1])
         /\ \A j \in 1 .. i : HeaderRead(Files[map[j].file])
         /\ \A j \in 1 .. i - 1 : ~EndsAt(map[j], x[1])
         => x[2].file = map[i].file]_vars
  <2> SUFFICES ASSUME Printed
               PROVE  \A i \in DOMAIN map :
                        /\ Found(map, i, Caller) => edge'.call.file = map[i].file
                        /\ Found(map, i, record.this) => edge'.this.file = map[i].file
    BY DEF Found
  <2>1. map \in Maps /\ Caller \in Int /\ record.this \in Int
    <3>1. map \in Maps /\ record \in [this : Functions, call : ReturnSites]
      BY <1>1 DEF IInv, Control, Printing, Printed
    <3>2. record.this \in Int /\ record.call \in Int
      BY <3>1, ReadDumpAssumption, ElfAssumption
    <3> QED BY <3>1, <3>2 DEF Caller
  <2>2. Faithful
    BY <1>1, PrintedFaithfully
  <2> QED BY <2>1, <2>2, NamedAfterItsFile DEF Faithful
<1> QED BY <1>1, Invariance, PTL DEF Spec, RightObject

-----------------------------------------------------------------------------
(* The files that are mapped *)

Names  == Seq(DOMAIN Files)
Caches == [names : Names, tries : [DOMAIN Files -> Nat]]

\* As long as no file has failed, those in the cache, and only they, have been
\* mapped, once each.
Once(c) ==
  (\A f \in DOMAIN Files : c.tries[f] > 0 => Files[f].readable)
    => \A f \in DOMAIN Files : c.tries[f] = IF Contains(c.names, f) THEN 1 ELSE 0

Good(c) == c \in Caches /\ Once(c)

Mapping == Good([names |-> g_cache, tries |-> tries])

LEMMA LeastMember ==
  ASSUME NEW T, T \subseteq Nat, T # {}
  PROVE  \E x \in T : \A y \in T : x <= y
<1>1. PICK x \in T : \A y \in T : ~ (<< y, x >> \in OpToRel(<, Nat))
  BY WFMin, NatLessThanWellFounded, Zenon
<1>2. ASSUME NEW y \in T PROVE x <= y
  <2>1. ~ (y < x)
    BY <1>1, Zenon DEF OpToRel
  <2> QED BY <2>1
<1> QED BY <1>2

\* Whether the file was in the cache, is mapped now or cannot be.
LEMMA OpenFileGood ==
  ASSUME NEW c, Good(c), NEW file \in DOMAIN Files PROVE Good(OpenFile(c, file))
<1> DEFINE d == OpenFile(c, file)
           n == << file >> \o c.names
<1>1. CASE Contains(c.names, file)
  BY <1>1 DEF OpenFile
<1>2. CASE ~Contains(c.names, file)
  <2>1. /\ c.names \in Names /\ c.tries \in [DOMAIN Files -> Nat]
        /\ d.tries = [c.tries EXCEPT ![file] = @ + 1]
        /\ d.names = IF Files[file].readable THEN n ELSE << >>
        /\ d = [names |-> d.names, tries |-> d.tries]
    BY <1>2 DEF OpenFile, Good, Caches
  <2>2. << file >> \in Names /\ Len(<< file >>) = 1 /\ << file >>[1] = file
    BY DEF Names
  <2>3. /\ Len(c.names) \in Nat /\ n \in Names /\ Len(n) = Len(c.names) + 1 /\ n[1] = file
        /\ \A i \in 1 .. Len(c.names) : n[i + 1] = c.names[i]
    BY <2>1, <2>2, LenProperties, ConcatProperties DEF Names
  <2> HIDE DEF n
  <2>4. << >> \in Names
    BY DEF Names
  <2>5. d \in Caches
    BY <2>1, <2>3, <2>4 DEF Caches
  <2>6. \A f \in DOMAIN Files : d.tries[f] = c.tries[f] + IF f = file THEN 1 ELSE 0
    BY <2>1
  <2> HIDE DEF d
  <2>7. ASSUME \A f \in DOMAIN Files : d.tries[f] > 0 => Files[f].readable,
               NEW f \in DOMAIN Files
        PROVE  d.tries[f] = IF Contains(d.names, f) THEN 1 ELSE 0
    <3>1. \A g \in DOMAIN Files : c.tries[g] \in Nat /\ (c.tries[g] > 0 => d.tries[g] > 0)
      BY <2>1, <2>6
    <3>2. \A g \in DOMAIN Files : c.tries[g] = IF Contains(c.names, g) THEN 1 ELSE 0
      BY <2>7, <3>1 DEF Good, Once
    <3>3. d.tries[file] = 1
      BY <1>2, <2>6, <3>2
    <3>4. d.names = n
      BY <2>1, <2>7, <3>3
    <3>5. Contains(n, f) <=> f = file \/ Contains(c.names, f)
      <4>1. 1 \in 1 .. Len(n) /\ \A i \in 1 .. Len(c.names) : i + 1 \in 1 .. Len(n)
        BY <2>3
      <4>2. \A i \in 1 .. Len(n) : i = 1 \/ (i - 1 \in 1 .. Len(c.names)
                                             /\ n[i] = c.names[i - 1])
        BY <2>3
      <4>3. f = file => Contains(n, f)
        BY <2>3, <4>1 DEF Contains
      <4>4. Contains(c.names, f) => Contains(n, f)
        BY <2>3, <4>1 DEF Contains
      <4>5. Contains(n, f) => f = file \/ Contains(c.names, f)
        BY <2>3, <4>2 DEF Contains
      <4> QED BY <4>3, <4>4, <4>5
    <3> QED BY <1>2, <2>6, <3>2, <3>4, <3>5
  <2> QED BY <2>5, <2>7 DEF Good, Once, d
<1> QED BY <1>1, <1>2

\* The equation of the cache after each file has a solution: the shortest
\* beginning of a list without one could be cut by its last file.
After(names, k, f) ==
  f = [i \in 0 .. k |-> IF i = 0 THEN [names |-> g_cache, tries |-> tries]
                        ELSE OpenFile(f[i - 1], names[i])]

LEMMA OpenedInTurn ==
  ASSUME NEW names \in Names PROVE \E f : After(names, Len(names), f)
<1> DEFINE Has(k) == \E f : After(names, k, f)
           T      == {k \in 0 .. Len(names) : ~Has(k)}
           first  == [names |-> g_cache, tries |-> tries]
<1>1. Len(names) \in Nat /\ \A i \in 1 .. Len(names) : names[i] \in DOMAIN Files
  BY ElementOfSeq, LenProperties DEF Names
<1>2. SUFFICES ASSUME T # {} PROVE FALSE
  BY <1>1
<1>3. PICK k \in T : \A j \in T : k <= j
  <2>1. T \subseteq Nat
    BY <1>1
  <2> QED BY <1>2, <2>1, LeastMember, Zenon
<1>4. k \in 0 .. Len(names) /\ ~Has(k)
  BY <1>3
<1>5. CASE k = 0
  <2> DEFINE f == [i \in 0 .. 0 |-> first]
  <2>1. After(names, 0, f)
    BY DEF After
  <2> QED BY <1>4, <1>5, <2>1
<1>6. CASE k # 0
  <2>1. k - 1 \in 0 .. Len(names) /\ k - 1 < k /\ k \in 1 .. Len(names) /\ k \in Nat
    BY <1>1, <1>4, <1>6
  <2>2. Has(k - 1)
    BY <1>3, <2>1
  <2>3. PICK f : After(names, k - 1, f)
    BY <2>2
  <2> DEFINE last == OpenFile(f[k - 1], names[k])
             g    == [i \in 0 .. k |-> IF i = k THEN last ELSE f[i]]
  <2>4. /\ \A i \in 0 .. k - 1 : g[i] = f[i]
        /\ g[k] = last
        /\ \A i \in 0 .. k : i = k \/ i \in 0 .. k - 1
    BY <2>1
  <2>5. \A i \in 0 .. k - 1 : f[i] = IF i = 0 THEN first ELSE OpenFile(f[i - 1], names[i])
    BY <2>3 DEF After
  <2>6. \A i \in 0 .. k : g[i] = IF i = 0 THEN first ELSE OpenFile(g[i - 1], names[i])
    <3> TAKE i \in 0 .. k
    <3>1. CASE i = k
      <4>1. i # 0 /\ i - 1 = k - 1 /\ k - 1 \in 0 .. k - 1
        BY <1>6, <2>1, <3>1
      <4> QED BY <2>4, <3>1, <4>1
    <3>2. CASE i # k
      <4>1. i \in 0 .. k - 1 /\ (i # 0 => i - 1 \in 0 .. k - 1)
        BY <2>1, <3>2
      <4> HIDE DEF g, first
      <4> QED BY <2>4, <2>5, <4>1
    <3> QED BY <3>1, <3>2
  <2>7. After(names, k, g)
    <3> DEFINE h == [i \in 0 .. k |-> IF i = 0 THEN first ELSE OpenFile(g[i - 1], names[i])]
    <3>1. \A i \in 0 .. k : g[i] = h[i]
      BY <2>6
    <3>2. g = h
      BY <3>1
    <3> QED BY <3>2 DEF After
  <2> QED BY <1>4, <2>7
<1> QED BY <1>5, <1>6

\* And each cache of it is good.
LEMMA GoodInTurn ==
  ASSUME Mapping, NEW names \in Names, NEW f, After(names, Len(names), f)
  PROVE  \A i \in 0 .. Len(names) : Good(f[i])
<1> DEFINE T == {k \in 0 .. Len(names) : ~Good(f[k])}
<1>1. Len(names) \in Nat /\ \A i \in 1 .. Len(names) : names[i] \in DOMAIN Files
  BY ElementOfSeq, LenProperties DEF Names
<1>2. SUFFICES ASSUME T # {} PROVE FALSE
  OBVIOUS
<1>3. PICK k \in T : \A j \in T : k <= j
  <2>1. T \subseteq Nat
    BY <1>1
  <2> QED BY <1>2, <2>1, LeastMember, Zenon
<1>4. k \in 0 .. Len(names) /\ ~Good(f[k])
  BY <1>3
<1>5. k # 0
  BY <1>4 DEF After, Mapping
<1>6. k - 1 \in 0 .. Len(names) /\ k - 1 < k /\ k \in 1 .. Len(names) /\ k \in Nat
  BY <1>1, <1>4, <1>5
<1>7. Good(f[k - 1])
  BY <1>3, <1>6
<1>8. f[k] = OpenFile(f[k - 1], names[k])
  BY <1>5, <1>6 DEF After
<1> QED BY <1>1, <1>4, <1>6, <1>7, <1>8, OpenFileGood

LEMMA OpenedGood ==
  ASSUME Mapping, NEW names \in Names PROVE Good(Opened(names))
<1> DEFINE n == Len(names)
           c == CHOOSE f : After(names, n, f)
<1>1. n \in Nat
  BY LenProperties DEF Names
<1>2. After(names, n, c)
  BY OpenedInTurn
<1>3. Opened(names) = c[n]
  BY DEF Opened, After
<1> HIDE DEF c
<1> QED BY <1>1, <1>2, <1>3, GoodInTurn

\* The files that are asked for while an address is looked up are files.
LEMMA GotoOpensNames == ASSUME NEW m \in Maps, NEW a PROVE GotoOpens(m, a) \in Names
<1> DEFINE I == {j \in 1 .. Len(m) : ~HeaderRead(Files[m[j].file]) \/ Holds(m[j], a)}
           O == [base : 0 .. AddressMod - 1, file : DOMAIN Files]
           n == IF Stop(m, a) = 0 THEN Len(m) ELSE Stop(m, a)
<1>1. m \in Seq(O)
  BY ReadDumpAssumption
<1>2. Len(m) \in Nat /\ \A i \in 1 .. Len(m) : m[i] \in O
  <2> HIDE DEF O
  <2> QED BY <1>1, ElementOfSeq, LenProperties
<1>3. \A i \in 1 .. Len(m) : m[i].file \in DOMAIN Files
  BY <1>2
<1>4. Stop(m, a) = IF I # {} THEN Min(I) ELSE 0
  BY DEF Stop, SelectInSeq
<1>5. I # {} => Min(I) \in I
  <2>1. I \subseteq Nat
    BY <1>2
  <2> HIDE DEF I
  <2>2. I # {} => \E x \in I : \A y \in I : x <= y
    BY <2>1, LeastMember, Zenon
  <2> QED BY <2>2, Zenon DEF Min
<1>6. n \in 0 .. Len(m)
  <2>1. I \subseteq 1 .. Len(m)
    OBVIOUS
  <2>2. Stop(m, a) = 0 \/ Stop(m, a) \in I
    <3> DEFINE least == Min(I)
    <3>1. /\ Stop(m, a) = IF I # {} THEN least ELSE 0
          /\ I # {} => least \in I
      BY <1>4, <1>5
    <3> HIDE DEF I, least
    <3> QED BY <3>1
  <2> HIDE DEF I
  <2>3. Len(m) \in Nat
    BY <1>2
  <2>4. Stop(m, a) \in I => Stop(m, a) \in 1 .. Len(m)
    BY <2>1, Zenon
  <2>5. Stop(m, a) \in 0 .. Len(m)
    BY <2>2, <2>3, <2>4
  <2> QED BY <2>3, <2>5
<1> HIDE DEF n
<1>7. GotoOpens(m, a) = [i \in 1 .. n |-> m[i].file]
  BY DEF GotoOpens, n
<1>8. \A i \in 1 .. n : m[i].file \in DOMAIN Files
  BY <1>2, <1>3, <1>6
<1> QED BY <1>6, <1>7, <1>8 DEF Names

LEMMA OpensForNames == ASSUME NEW m \in Maps, NEW a PROVE OpensFor(m, a) \in Names
BY GotoOpensNames, ConcatProperties DEF OpensFor, Names

\* A step maps the files of a lookup, or none.
LEMMA MappingKept == ASSUME IInv, Mapping, [Next]_vars PROVE Mapping'
<1>1. CASE UNCHANGED files
  BY <1>1 DEF files, Mapping, Good, Once
<1>2. ASSUME NEW names \in Names, AfterOpening(names) PROVE Mapping'
  <2>1. Good(Opened(names))
    BY OpenedGood
  <2>2. [names |-> g_cache', tries |-> tries'] = Opened(names)
    BY <1>2, <2>1 DEF AfterOpening, Good, Caches
  <2>3. Good([names |-> g_cache', tries |-> tries'])
    BY <2>1, <2>2
  <2> QED BY <2>3 DEF Mapping, Good, Once
<1>3. CASE MissCaller \/ MissCallee
  <2>1. map \in Maps
    BY <1>3 DEF IInv, Control, Printing, MissCaller, MissCallee
  <2>2. AfterOpening(OpensFor(map, Caller)) \/ AfterOpening(OpensFor(map, record.this))
    BY <1>3 DEF MissCaller, MissCallee
  <2> QED BY <1>2, <2>1, <2>2, OpensForNames
<1>4. CASE PrintNames
  <2>1. map \in Maps
    BY <1>4 DEF IInv, Control, PrintNames, Next1
  <2>2. PICK this \in Functions, call \in ReturnSites :
          AfterOpening(GotoOpens(map, this) \o GotoOpens(map, call))
    BY <1>4 DEF PrintNames
  <2>3. GotoOpens(map, this) \o GotoOpens(map, call) \in Names
    BY <2>1, GotoOpensNames, ConcatProperties DEF Names
  <2> QED BY <1>2, <2>2, <2>3
<1> QED BY <1>1, <1>3, <1>4 DEF Next, ReadMap, TruncatedMap, Truncated, EndOfDump, ReadEnter,
           HitCaller, HitCallee, ReadLeave, vars

\* A file is mapped once, however long the list of objects and however often it
\* is asked for, until one cannot be.
THEOREM FilesAreMappedOnce == Spec => []MappedOnce
<1>1. Init => Mapping
  <2> SUFFICES ASSUME Init PROVE Mapping
    OBVIOUS
  <2>1. /\ g_cache = << >> /\ g_cache \in Names /\ Len(g_cache) = 0
        /\ tries \in [DOMAIN Files -> Nat] /\ \A f \in DOMAIN Files : tries[f] = 0
    BY DEF Init, Names
  <2>2. \A f : ~Contains(g_cache, f)
    BY <2>1 DEF Contains
  <2> QED BY <2>1, <2>2 DEF Mapping, Good, Once, Caches
<1>2. Mapping => MappedOnce
  BY DEF Mapping, Good, Once, MappedOnce
<1>3. IInv /\ Mapping /\ [Next]_vars => Mapping'
  BY MappingKept
<1> QED BY <1>1, <1>2, <1>3, Invariance, PTL DEF Spec

================================================================================
