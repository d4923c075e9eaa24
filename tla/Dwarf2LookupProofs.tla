--------------------------- MODULE Dwarf2LookupProofs --------------------------
(***************************************************************************)
(* From an address to a function, for every file, address and cache: a     *)
(* sound cache only moves the place where the search for a declaration     *)
(* starts, every entry is read with the declaration of its own code, and   *)
(* where the entries of a unit are a tree the walk reaches each of them    *)
(* and finds the name of the function around the address.  Where the bytes *)
(* of a line program are those of instructions, the line machine ends with *)
(* the registers of the row of the address as they are in front of the     *)
(* next one.                                                               *)
(***************************************************************************)
EXTENDS Dwarf2Lookup, FiniteSetTheorems, SequenceTheorems, WellFoundedInduction, TLAPS

(* The search with the cache (Dwarf2Abbrev) *)

\* A new cache is sound for any table.
LEMMA InitializeSound ==
  ASSUME NEW table PROVE CacheInitialize \in Caches /\ Sound(table, CacheInitialize)
BY AbbrevAssumption DEF Sound, CacheInitialize, Caches, Free

\* The slot that answers a lookup is an occupied one.
LEMMA LookupSlotOccupied ==
  ASSUME NEW c, NEW code \in Nat, NEW i \in LookupSlot(c, code)
  PROVE  i \in Slots /\ c.keys[i] # Free
<1>1. code % KeyMod >= 0
  BY AbbrevAssumption
<1>2. i \in Slots /\ (c.keys[i] = code % KeyMod \/ c.keys[i] > 0)
  BY DEF LookupSlot, Nearest, Backups
<1> QED BY <1>1, <1>2 DEF Free

\* The search starts at the start of the table or at a declaration of the unit.
LEMMA StartOfKnown ==
  ASSUME NEW table, NEW c, NEW code \in Nat, Sound(table, c)
  PROVE  StartOf(c, code) = 1 \/ StartOf(c, code) \in Declarations(table)
<1>1. CASE LookupSlot(c, code) = {}
  BY <1>1 DEF StartOf
<1>2. CASE LookupSlot(c, code) # {}
  <2>1. PICK i : i \in LookupSlot(c, code) /\ StartOf(c, code) = c.values[i]
    BY <1>2 DEF StartOf
  <2>2. i \in Slots /\ c.keys[i] # Free
    BY <2>1, LookupSlotOccupied
  <2> QED BY <2>1, <2>2 DEF Sound
<1> QED BY <1>1, <1>2

\* dwarf2_abbrev_cu_read_decl returns a declaration of the unit with the code
\* it was asked for, wherever a sound cache has it start.
THEOREM ReadDeclCorrect ==
  ASSUME NEW table \in Seq(Nat), Len(table) > 0, NEW c, NEW code \in Nat \ {0},
         Sound(table, c), NEW d \in ReadDecl(table, code, c)
  PROVE  d \in Declarations(table) /\ table[d] = code
<1> DEFINE start == StartOf(c, code)
<1>1. start = 1 \/ start \in Declarations(table)
  BY StartOfKnown
<1>2. start \in 1 .. Len(table) /\ \A j \in 1 .. start - 1 : table[j] # 0
  BY <1>1 DEF Declarations
<1>3. \/ table[start] = code /\ d = start
      \/ d \in Search(table, code, start, Len(table) + 1) /\ table[start] # code
      \/ d \in Search(table, code, 1, start)
  BY DEF ReadDecl
<1> HIDE DEF start
<1>4. CASE table[start] = code /\ d = start
  BY <1>2, <1>4 DEF Declarations
<1>5. CASE d \in Search(table, code, start, Len(table) + 1) /\ table[start] # code
  <2>1. /\ d \in start .. Len(table) /\ table[d] = code
        /\ \A j \in start .. d - 1 : table[j] # 0
    BY <1>2, <1>5 DEF Search
  <2>2. \A j \in 1 .. d : table[j] # 0
    BY <1>2, <2>1
  <2> QED BY <1>2, <2>1, <2>2 DEF Declarations
<1>6. CASE d \in Search(table, code, 1, start)
  <2>1. /\ d \in 1 .. start - 1 /\ table[d] = code
        /\ \A j \in 1 .. d - 1 : table[j] # 0
    BY <1>2, <1>6 DEF Search
  <2> QED BY <1>2, <2>1 DEF Declarations
<1> QED BY <1>3, <1>4, <1>5, <1>6

\* A set of naturals has a least member.
LEMMA LeastMember ==
  ASSUME NEW T, T \subseteq Nat, T # {}
  PROVE  \E x \in T : \A y \in T : x <= y
<1>1. PICK x \in T : \A y \in T : ~ (<< y, x >> \in OpToRel(<, Nat))
  BY WFMin, NatLessThanWellFounded, Zenon
<1>2. ASSUME NEW y \in T PROVE x <= y
  <2>1. ~ (y < x)
    BY <1>1, Zenon DEF OpToRel
  <2> QED BY <2>1
<1> QED BY <1>2

\* Nor does the cache hide a declaration: where there is one with the code,
\* one is found, from a start in the middle also when it is in front of it.
THEOREM ReadDeclComplete ==
  ASSUME NEW table \in Seq(Nat), NEW c, NEW code \in Nat \ {0}, Sound(table, c),
         NEW e \in Declarations(table), table[e] = code
  PROVE  ReadDecl(table, code, c) # {}
<1> DEFINE start == StartOf(c, code)
           T == {i \in Declarations(table) : table[i] = code}
<1>1. T \subseteq Nat /\ T # {}
  BY DEF Declarations
<1>2. start \in 1 .. Len(table)
  BY StartOfKnown DEF Declarations
<1> HIDE DEF start
<1>3. PICK x \in T : \A y \in T : x <= y
  BY <1>1, LeastMember, Zenon
<1>4. /\ x \in 1 .. Len(table) /\ table[x] = code
      /\ \A j \in 1 .. x - 1 : table[j] # code /\ table[j] # 0
  BY SMTT(30), <1>3 DEF Declarations
<1> HIDE DEF T
<1>5. CASE x < start
  <2>1. x \in Search(table, code, 1, start)
    BY <1>2, <1>4, <1>5 DEF Search
  <2> QED BY <2>1 DEF ReadDecl, start
<1>6. CASE x >= start
  <2>1. x \in Search(table, code, start, Len(table) + 1)
    BY <1>2, <1>4, <1>6 DEF Search
  <2> QED BY <2>1 DEF ReadDecl, start
<1> QED BY <1>2, <1>4, <1>5, <1>6

\* A lookup changes the times of a cache only.
LEMMA CacheLookupKeeps ==
  ASSUME NEW c \in Caches, NEW code \in Nat
  PROVE  /\ CacheLookup(c, code) \in Caches
         /\ CacheLookup(c, code).keys = c.keys
         /\ CacheLookup(c, code).values = c.values
<1>1. (c.time + 1) % TimeMod \in 0 .. TimeMod - 1
  BY AbbrevAssumption DEF Caches
<1>2. Tick(c) \in Caches /\ Tick(c).keys = c.keys /\ Tick(c).values = c.values
  BY <1>1 DEF Tick, Caches
<1>3. /\ Tick(c).time \in 0 .. TimeMod - 1
      /\ c.last_used \in [Slots -> 0 .. TimeMod - 1]
  BY <1>2 DEF Caches
<1>4. DEFINE used == [i \in Slots |-> IF i \in LookupSlot(c, code)
                                    THEN Tick(c).time ELSE c.last_used[i]]
<1>5. used \in [Slots -> 0 .. TimeMod - 1]
  BY <1>3
<1>6. CacheLookup(c, code) = [Tick(c) EXCEPT !.last_used = used]
  BY DEF CacheLookup
<1> HIDE DEF used
<1> QED BY <1>2, <1>5, <1>6 DEF Caches

\* An addition leaves every slot as it is or puts the new key and value there.
LEMMA CacheAddPuts ==
  ASSUME NEW c \in Caches, NEW code \in Nat, NEW d \in Nat
  PROVE  /\ CacheAdd(c, code, d) \in Caches
         /\ \A i \in Slots :
              \/ /\ CacheAdd(c, code, d).keys[i] = code % KeyMod
                 /\ CacheAdd(c, code, d).values[i] = d
              \/ /\ CacheAdd(c, code, d).keys[i] = c.keys[i]
                 /\ CacheAdd(c, code, d).values[i] = c.values[i]
<1>1. code % KeyMod \in 0 .. KeyMod - 1 /\ (c.time + 1) % TimeMod \in 0 .. TimeMod - 1
  BY AbbrevAssumption DEF Caches
<1>2. Tick(c).time = (c.time + 1) % TimeMod
  BY DEF Tick, Caches
<1>3. /\ c.keys \in [Slots -> {Free} \cup 0 .. KeyMod - 1]
      /\ c.values \in [Slots -> Nat]
      /\ c.last_used \in [Slots -> 0 .. TimeMod - 1]
  BY DEF Caches
<1> QED BY <1>1, <1>2, <1>3 DEF CacheAdd, Caches

\* What the function adds to a sound cache leaves it sound, whichever slot it
\* takes and however the times have wrapped.
THEOREM AddIfSearchedSound ==
  ASSUME NEW table \in Seq(Nat), Len(table) > 0, NEW c, NEW code \in Nat \ {0},
         c \in Caches, Sound(table, c)
  PROVE  /\ AddIfSearched(table, code, c) \in Caches
         /\ Sound(table, AddIfSearched(table, code, c))
<1> DEFINE c1 == CacheLookup(c, code)
<1>1. c1 \in Caches /\ c1.keys = c.keys /\ c1.values = c.values
  BY CacheLookupKeeps
<1>2. Sound(table, c1)
  BY <1>1 DEF Sound
<1> HIDE DEF c1
<1>3. ASSUME NEW d \in ReadDecl(table, code, c)
      PROVE  CacheAdd(c1, code, d) \in Caches /\ Sound(table, CacheAdd(c1, code, d))
  <2>1. d \in Declarations(table) /\ table[d] = code /\ d \in Nat
    BY ReadDeclCorrect DEF Declarations
  <2>2. ASSUME NEW i \in Slots, CacheAdd(c1, code, d).keys[i] # Free
        PROVE  /\ CacheAdd(c1, code, d).values[i] \in Declarations(table)
               /\ table[CacheAdd(c1, code, d).values[i]] % KeyMod
                    = CacheAdd(c1, code, d).keys[i]
    <3>1. /\ code \in Nat
          /\ \/ /\ CacheAdd(c1, code, d).keys[i] = code % KeyMod
                /\ CacheAdd(c1, code, d).values[i] = d
             \/ /\ CacheAdd(c1, code, d).keys[i] = c1.keys[i]
                /\ CacheAdd(c1, code, d).values[i] = c1.values[i]
      <4> DEFINE c2 == CacheAdd(c1, code, d)
      <4>1. code \in Nat /\ d \in Nat /\ c1 \in Caches
        BY <1>1, <2>1
      <4>2. \/ c2.keys[i] = code % KeyMod /\ c2.values[i] = d
            \/ c2.keys[i] = c1.keys[i] /\ c2.values[i] = c1.values[i]
        BY <4>1, CacheAddPuts, Zenon
      <4> QED BY <4>1, <4>2
    <3> QED BY <1>2, <2>1, <2>2, <3>1, Zenon DEF Sound
  <2> QED BY <1>1, <2>1, <2>2, CacheAddPuts DEF Sound
<1>4. ReadDecl(table, code, c) # {} =>
        (CHOOSE i \in ReadDecl(table, code, c) : TRUE) \in ReadDecl(table, code, c)
  OBVIOUS
<1>5. CASE ReadDecl(table, code, c) = {} \/ table[StartOf(c, code)] = code
  BY <1>1, <1>2, <1>5 DEF AddIfSearched, c1
<1>6. CASE ~(ReadDecl(table, code, c) = {} \/ table[StartOf(c, code)] = code)
  BY <1>3, <1>4, <1>6 DEF AddIfSearched, c1
<1> QED BY <1>5, <1>6
-----------------------------------------------------------------------------
(* The walk of a unit *)

InUnit == pc \notin {"aranges", "failed"}

(* What is invariant: no entry is read before the unit is known, the cache  *)
(* is new until then, and it is sound for the table of that unit from then  *)
(* on, which is what the reading of the next entry relies on.               *)
IInv ==
  /\ \E l \in Lookups : file = l.file
  /\ cache \in Caches
  /\ ~InUnit => entry = 0
  /\ pc = "aranges" => cache = CacheInitialize
  /\ InUnit => unit \in DOMAIN file.units /\ Sound(U.table, cache)
  /\ DeclIsAsked

\* What is assumed of the files, said of the unit at hand.
LEMMA UnitFacts ==
  ASSUME IInv, InUnit
  PROVE  /\ U.table \in Seq(Nat) /\ Len(U.table) > 0
         /\ \A j \in DOMAIN U.entries : U.entries[j].code \in Nat
BY LookupAssumption DEF IInv, U, Range

LEMMA InitInvariant ==
  ASSUME Init PROVE IInv
<1>1. cache = CacheInitialize /\ CacheInitialize \in Caches
  BY InitializeSound DEF Init
<1> QED BY <1>1 DEF Init, IInv, InUnit, DeclIsAsked

\* The unit that is found has a number, and the cache is as good as new for it.
LEMMA FindUnitKeeps ==
  ASSUME IInv, FindUnit PROVE IInv'
<1>1. pc = "aranges" /\ entry' = 0 /\ cache' = CacheInitialize /\ file' = file
  BY DEF IInv, FindUnit, InUnit, walk
<1>2. Sound(U', cache') /\ cache' \in Caches /\ Sound(U'.table, cache')
  BY <1>1, InitializeSound
<1>3. pc' # "failed" => unit' \in DOMAIN file.units
  BY LookupAssumption DEF IInv, FindUnit, StopSets
<1> QED BY <1>1, <1>2, <1>3 DEF IInv, InUnit, DeclIsAsked, U

\* Reading an entry: its declaration is found, and its place kept.
LEMMA ReadEntryKeeps ==
  ASSUME IInv, InUnit, NEW STATE start, NEW then, {"aranges", "failed"} \cap then = {},
         ReadEntry(start, then), UNCHANGED << file, unit >>
  PROVE  IInv'
<1>1. U' = U
  BY DEF U
<1>2. CASE /\ pc' = "astray" /\ UNCHANGED walk
  BY <1>1, <1>2 DEF IInv, InUnit, DeclIsAsked, walk
<1>3. ASSUME NEW j \in EntryFrom(start), NEW d \in ReadDecl(U.table, U.entries[j].code, cache),
             entry' = j, decl' = d, pc' \in then,
             cache' = AddIfSearched(U.table, U.entries[j].code, cache)
      PROVE  IInv'
  <2>1. j \in DOMAIN U.entries /\ U.entries[j].code \in Nat \ {0}
    BY UnitFacts DEF EntryFrom
  <2>2. d \in Declarations(U.table) /\ U.table[d] = U.entries[j].code
    BY <2>1, UnitFacts, ReadDeclCorrect DEF IInv
  <2>3. cache' \in Caches /\ Sound(U.table, cache')
    BY <1>3, <2>1, UnitFacts, AddIfSearchedSound DEF IInv
  <2>4. InUnit'
    BY <1>3 DEF InUnit
  <2> QED BY <1>1, <1>3, <2>2, <2>3, <2>4 DEF IInv, InUnit, DeclIsAsked
<1> QED BY <1>2, <1>3 DEF ReadEntry

\* The steps that read no entry stay in the unit or stutter.
LEMMA OtherKeeps ==
  ASSUME IInv, UNCHANGED << file, unit, walk >>, InUnit <=> InUnit', pc' # "aranges" \/ UNCHANGED pc
  PROVE  IInv'
<1>1. U' = U
  BY DEF U
<1> QED BY <1>1 DEF IInv, DeclIsAsked, walk

LEMMA NextInvariant ==
  ASSUME IInv, [Next]_vars PROVE IInv'
<1>1. CASE FindUnit
  BY <1>1, FindUnitKeeps
<1>2. CASE FirstEntry
  BY <1>2, ReadEntryKeeps DEF FirstEntry, InUnit
<1>3. CASE VisitUnit \/ VisitEntry
  BY <1>3, OtherKeeps DEF VisitUnit, VisitEntry, InUnit, walk
<1>4. CASE NextEntry
  BY <1>4, ReadEntryKeeps DEF NextEntry, InUnit
<1>5. CASE FollowOrigin
  BY <1>5, ReadEntryKeeps DEF FollowOrigin, InUnit
<1>6. CASE FollowSpecification
  <2>1. InUnit /\ UNCHANGED << file, unit >>
    BY <1>6 DEF FollowSpecification, InUnit
  <2>2. CASE ReadEntry(attrs.specification, {"named"})
    BY <2>1, <2>2, ReadEntryKeeps
  <2>3. CASE pc' = "named" /\ UNCHANGED walk
    BY <2>1, <2>3, OtherKeeps DEF InUnit
  <2> QED BY <1>6, <2>2, <2>3 DEF FollowSpecification
<1>7. CASE TakeName \/ StartRows \/ ReadRow \/ TakeLine
  BY <1>7, OtherKeeps DEF TakeName, StartRows, ReadRow, TakeLine, InUnit, walk
<1>8. CASE UNCHANGED vars
  BY <1>8, OtherKeeps DEF vars, InUnit
<1> QED BY <1>1, <1>2, <1>3, <1>4, <1>5, <1>6, <1>7, <1>8 DEF Next

LEMMA Invariance == Spec => []IInv
BY InitInvariant, NextInvariant, PTL DEF Spec

\* Every entry is read with the declaration of its own code.
THEOREM DeclarationIsAsked == Spec => []DeclIsAsked
<1>1. IInv => DeclIsAsked
  BY DEF IInv
<1> QED BY <1>1, Invariance, PTL

\* The cache never points out of the unit's table or to another key.
THEOREM CacheStaysSound == Spec => []CacheSound
<1>1. IInv => CacheSound
  BY DEF IInv, CacheSound
<1> QED BY <1>1, Invariance, PTL

-----------------------------------------------------------------------------
(* Depths *)

Children(u, i)  == IF DeclOf(u, i).children THEN 1 ELSE 0
Parents(u, i)   == {j \in Entries(u) : j < i /\ DeclOf(u, j).children}
ListEnds(u, i)  == {j \in 1 .. i - 1 : u.entries[j].code = 0}

LEMMA DepthIs ==
  ASSUME NEW u, NEW i PROVE Depth(u, i) = Cardinality(Parents(u, i)) - Cardinality(ListEnds(u, i))
BY DEF Depth, Parents, ListEnds

LEMMA EntryPlaces ==
  ASSUME NEW u, WellFormed(u), NEW e \in Entries(u)
  PROVE  /\ Len(u.entries) \in Nat /\ DOMAIN u.entries = 1 .. Len(u.entries)
         /\ e \in 1 .. Len(u.entries) /\ e \in Nat /\ u.entries[e].code # 0
BY DEF WellFormed, Entries

LEMMA FiniteCounts ==
  ASSUME NEW u, WellFormed(u), NEW e \in Entries(u)
  PROVE  /\ IsFiniteSet(Parents(u, e)) /\ IsFiniteSet(ListEnds(u, e))
         /\ Cardinality(Parents(u, e)) \in Nat /\ Cardinality(ListEnds(u, e)) \in Nat
<1>1. /\ Len(u.entries) \in Nat /\ e \in Nat
      /\ Parents(u, e) \subseteq 1 .. Len(u.entries) /\ ListEnds(u, e) \subseteq 1 .. e - 1
  BY EntryPlaces DEF Parents, ListEnds, Entries, WellFormed
<1>2. IsFiniteSet(1 .. Len(u.entries)) /\ IsFiniteSet(1 .. e - 1)
  <2>1. 1 \in Int /\ Len(u.entries) \in Int /\ e - 1 \in Int
    BY <1>1
  <2> QED BY <2>1, FS_Interval, Zenon
<1>3. IsFiniteSet(Parents(u, e)) /\ IsFiniteSet(ListEnds(u, e))
  BY <1>1, <1>2, FS_Subset
<1> QED BY <1>3, FS_CardinalityType

\* From one entry to the next: down into its children, up at each end of a list.
LEMMA NextDepth ==
  ASSUME NEW u, WellFormed(u), NEW e \in Entries(u), NEW j \in Entries(u), e < j,
         \A k \in e + 1 .. j - 1 : u.entries[k].code = 0
  PROVE  /\ Depth(u, e) \in Int /\ Depth(u, j) \in Int
         /\ Depth(u, j) = Depth(u, e) + Children(u, e) - (j - (e + 1))
<1> DEFINE P(i) == Parents(u, i)
           Z(i) == ListEnds(u, i)
           between == e + 1 .. j - 1
<1>1. /\ e \in Nat /\ j \in Nat /\ e >= 1 /\ u.entries[e].code # 0
      /\ \A i \in Entries(u) : i \in Nat /\ u.entries[i].code # 0
  BY EntryPlaces
<1>2. /\ IsFiniteSet(P(e)) /\ IsFiniteSet(Z(e)) /\ Cardinality(P(e)) \in Nat
      /\ Cardinality(Z(e)) \in Nat /\ Cardinality(P(j)) \in Nat /\ Cardinality(Z(j)) \in Nat
  BY FiniteCounts
<1>3. P(j) = P(e) \cup (IF DeclOf(u, e).children THEN {e} ELSE {}) /\ e \notin P(e)
  <2>1. \A i \in Entries(u) : i < j <=> i < e \/ i = e
    <3>1. \A i \in Entries(u) : i \notin between
      BY <1>1
    <3> QED BY <1>1, <3>1
  <2>2. ~ (e < e)
    BY <1>1
  <2> QED BY <2>1, <2>2 DEF Parents
<1>4. Cardinality(P(j)) = Cardinality(P(e)) + Children(u, e)
  <2>1. CASE DeclOf(u, e).children
    <3>1. P(j) = P(e) \cup {e}
      BY <1>3, <2>1
    <3> QED BY <1>2, <1>3, <2>1, <3>1, FS_AddElement DEF Children
  <2>2. CASE ~DeclOf(u, e).children
    <3>1. P(j) = P(e)
      BY <1>3, <2>2
    <3> QED BY <1>2, <2>2, <3>1 DEF Children
  <2> QED BY <2>1, <2>2
<1>5. Z(j) = Z(e) \cup between /\ Z(e) \cap between = {}
  BY <1>1 DEF ListEnds
<1>6. IsFiniteSet(between) /\ Cardinality(between) = j - (e + 1)
  <2>1. /\ IsFiniteSet(e + 1 .. j - 1)
        /\ Cardinality(e + 1 .. j - 1) = IF e + 1 > j - 1 THEN 0 ELSE (j - 1) - (e + 1) + 1
    <3>1. e + 1 \in Int /\ j - 1 \in Int
      BY <1>1
    <3> QED BY <3>1, FS_Interval, Zenon
  <2> QED BY <1>1, <2>1
<1>7. Cardinality(Z(j)) = Cardinality(Z(e)) + (j - (e + 1))
  <2>1. Cardinality(Z(e) \cup between)
          = Cardinality(Z(e)) + Cardinality(between) - Cardinality(Z(e) \cap between)
    BY <1>2, <1>6, FS_Union
  <2>2. Cardinality(Z(e) \cap between) = 0
    BY <1>5, FS_EmptySet
  <2> HIDE DEF Z, between
  <2> QED BY <1>1, <1>2, <1>5, <1>6, <2>1, <2>2
<1>8. Depth(u, e) = Cardinality(P(e)) - Cardinality(Z(e))
      /\ Depth(u, j) = Cardinality(P(j)) - Cardinality(Z(j))
  BY DepthIs
<1>9. Children(u, e) \in {0, 1}
  BY DEF Children
<1> HIDE DEF P, Z
<1> QED BY <1>1, <1>2, <1>4, <1>7, <1>8, <1>9

\* The first entry is at depth 0, and no list has ended in front of it.
LEMMA FirstDepth ==
  ASSUME NEW u, WellFormed(u), NEW e \in Entries(u), \A k \in 1 .. e - 1 : u.entries[k].code = 0
  PROVE  e = 1 /\ Depth(u, e) = 0
<1>1. e \in Nat /\ e >= 1 /\ \A i \in Entries(u) : i \in Nat /\ i >= 1 /\ u.entries[i].code # 0
  BY EntryPlaces
<1>2. Parents(u, e) = {}
  <2>1. ASSUME NEW k \in Entries(u), k < e PROVE FALSE
    <3>1. k \in 1 .. e - 1 /\ u.entries[k].code # 0
      BY <1>1, <2>1
    <3> QED BY <3>1
  <2> QED BY <2>1 DEF Parents
<1>3. ListEnds(u, e) = 1 .. e - 1
  BY DEF ListEnds
<1>4. Cardinality(1 .. e - 1) = IF 1 > e - 1 THEN 0 ELSE e - 1 - 1 + 1
  BY <1>1, FS_Interval
<1>5. Depth(u, e) = 0 - (e - 1)
  <2>1. Depth(u, e) = 0 - Cardinality(1 .. e - 1)
    BY <1>2, <1>3, DepthIs, FS_EmptySet
  <2> QED BY <1>1, <1>4, <2>1
<1>6. ~ (e > 1)
  <2>1. e > 1 => Depth(u, e) > 0
    BY DEF WellFormed
  <2> QED BY <1>1, <1>5, <2>1
<1> QED BY <1>1, <1>5, <1>6

\* The declaration an entry is read with is the one of its code.
LEMMA DeclIsDeclOf ==
  ASSUME NEW u, WellFormed(u), NEW e, NEW d \in Declarations(u.table),
         u.table[d] = u.entries[e].code
  PROVE  DeclOf(u, e) = u.decl[d]
BY DEF DeclOf, WellFormed

-----------------------------------------------------------------------------
(* The walk leaves no entry out *)

\* The functions of the unit lie at or behind the entry that is visited, behind
\* the one that was, and the level is how deep the children of the last entry
\* are: that, and every entry's being below the first, is why it is never 0.
First(i) == i \in Functions /\ \A j \in Functions : i <= j

Walk ==
  /\ pc \in {"aranges", "first"} => level = 0
  /\ pc \in {"visit", "next"} => /\ entry \in Entries(U) /\ current = entry + 1
                                 /\ level = Depth(U, entry) + Children(U, entry)
                                 /\ Depth(U, entry) \in Int
  /\ pc = "visit" => \A i \in Functions : entry <= i
  /\ pc = "next"  => \A i \in Functions : entry < i
  /\ pc \in {"name", "origin"} => entry \in Entries(U) /\ Functions # {}
  /\ pc = "name" => First(entry)
  /\ pc \in {"not_found", "astray"} => Functions = {}

LEMMA UnitIsWellFormed ==
  ASSUME UnitsWellFormed, IInv, InUnit PROVE WellFormed(U)
BY DEF UnitsWellFormed, IInv, U, Range

LEMMA FunctionsAreEntries ==
  ASSUME WellFormed(U), NEW i \in Functions
  PROVE  /\ i \in Entries(U) /\ i \in Nat /\ i > 1 /\ U.entries[i].code # 0
         /\ CoversTarget(U.entries[i].attrs)
BY EntryPlaces DEF Functions

\* Where the unit has an entry from some place on, the next one is read.
LEMMA ThereIsANext ==
  ASSUME WellFormed(U), NEW start \in Nat \ {0}, EntryFrom(start) = {}, NEW i \in Entries(U)
  PROVE  i < start
<1> DEFINE T == {j \in Entries(U) : j >= start}
<1> SUFFICES ASSUME ~(i < start) PROVE FALSE
  OBVIOUS
<1>1. i \in Nat /\ T \subseteq Nat
  BY EntryPlaces
<1>2. i \in T
  BY <1>1
<1> HIDE DEF T
<1>3. PICK x \in T : \A y \in T : x <= y
  BY <1>1, <1>2, LeastMember, Zenon
<1>4. /\ x \in Entries(U) /\ x >= start /\ x \in 1 .. Len(U.entries) /\ x \in DOMAIN U.entries
      /\ U.entries[x].code # 0 /\ Len(U.entries) \in Nat /\ DOMAIN U.entries = 1 .. Len(U.entries)
  BY <1>3, EntryPlaces DEF T
<1>5. ASSUME NEW k \in start .. x - 1 PROVE U.entries[k].code = 0
  <2>1. k \in DOMAIN U.entries /\ k >= start /\ k < x /\ k \in Nat
    BY <1>4, <1>5
  <2>2. k \notin T
    BY <1>3, <2>1, <1>4
  <2> QED BY <2>1, <2>2 DEF T, Entries
<1>6. x \in EntryFrom(start)
  BY <1>4, <1>5 DEF EntryFrom
<1> QED BY <1>6

LEMMA EntryAtIsRead ==
  ASSUME WellFormed(U), NEW start \in Entries(U) PROVE EntryFrom(start) = {start}
<1>1. start \in Nat /\ start \in DOMAIN U.entries /\ U.entries[start].code # 0
      /\ DOMAIN U.entries = 1 .. Len(U.entries) /\ Len(U.entries) \in Nat
  BY EntryPlaces
<1>2. \A i \in start .. start - 1 : FALSE
  BY <1>1
<1>3. start \in EntryFrom(start)
  BY <1>1, <1>2 DEF EntryFrom
<1>4. ASSUME NEW j \in EntryFrom(start) PROVE j = start
  <2>1. /\ j \in Nat /\ start <= j
        /\ \A i \in start .. j - 1 : U.entries[i].code = 0
    BY <1>1 DEF EntryFrom
  <2> SUFFICES ASSUME j # start PROVE FALSE
    OBVIOUS
  <2>2. start \in start .. j - 1
    BY <1>1, <2>1
  <2> QED BY <1>1, <2>1, <2>2
<1> QED BY <1>3, <1>4

\* An entry is read if there is one, with its declaration; the codes of a unit
\* are declared and the cache hides none.
LEMMA EntryIsRead ==
  ASSUME UnitsWellFormed, IInv, InUnit, NEW start \in Nat \ {0}, NEW then, ReadEntry(start, then)
  PROVE  \/ /\ entry' \in EntryFrom(start) /\ entry' \in Entries(U)
            /\ DeclOf(U, entry') = U.decl[decl'] /\ current' = entry' + 1
            /\ level' = level - (entry' - start) + Children(U, entry') /\ pc' \in then
         \/ EntryFrom(start) = {} /\ pc' = "astray" /\ UNCHANGED walk
<1>1. WellFormed(U)
  BY UnitIsWellFormed
<1>2. ASSUME NEW j \in EntryFrom(start)
      PROVE  /\ j \in Entries(U)
             /\ ReadDecl(U.table, U.entries[j].code, cache) # {}
             /\ \A d \in ReadDecl(U.table, U.entries[j].code, cache) :
                  DeclOf(U, j) = U.decl[d]
  <2>1. j \in DOMAIN U.entries /\ U.entries[j].code \in Nat \ {0} /\ j \in Entries(U)
    BY UnitFacts DEF EntryFrom, Entries
  <2>2. PICK e \in Declarations(U.table) : U.table[e] = U.entries[j].code
    BY <1>1, <2>1 DEF WellFormed
  <2>3. U.table \in Seq(Nat) /\ Len(U.table) > 0 /\ Sound(U.table, cache)
    BY UnitFacts DEF IInv
  <2>4. ReadDecl(U.table, U.entries[j].code, cache) # {}
    BY <2>1, <2>2, <2>3, ReadDeclComplete
  <2>5. \A d \in ReadDecl(U.table, U.entries[j].code, cache) :
          d \in Declarations(U.table) /\ U.table[d] = U.entries[j].code
    BY <2>1, <2>3, ReadDeclCorrect
  <2> QED BY <1>1, <2>1, <2>4, <2>5, DeclIsDeclOf
<1>3. CASE \E j \in EntryFrom(start) : \E d \in ReadDecl(U.table, U.entries[j].code, cache) :
              /\ entry' = j /\ decl' = d /\ current' = j + 1
              /\ level' = level - (j - start) + (IF U.decl[d].children THEN 1 ELSE 0)
              /\ pc' \in then
  BY <1>2, <1>3 DEF Children
<1>4. CASE /\ \A j \in EntryFrom(start) : ReadDecl(U.table, U.entries[j].code, cache) = {}
           /\ pc' = "astray" /\ UNCHANGED walk
  BY <1>2, <1>4
<1> QED BY <1>3, <1>4 DEF ReadEntry

LEMMA SameUnit ==
  ASSUME UNCHANGED << file, unit, target >>
  PROVE  U' = U /\ Functions' = Functions /\ \A i : First(i)' <=> First(i)
<1>1. U' = U
  BY DEF U
<1>2. Functions' = Functions
  BY <1>1 DEF Functions, Entries, CoversTarget
<1> QED BY <1>1, <1>2 DEF First

LEMMA VisitedDecl ==
  ASSUME UnitsWellFormed, IInv, InUnit, entry \in Entries(U)
  PROVE  DeclOf(U, entry) = U.decl[decl]
<1>1. entry # 0 /\ WellFormed(U)
  BY UnitIsWellFormed, EntryPlaces
<1> QED BY <1>1, DeclIsDeclOf DEF IInv, DeclIsAsked

LEMMA FirstEntryWalks ==
  ASSUME UnitsWellFormed, IInv, Walk, FirstEntry PROVE Walk'
<1>1. /\ pc = "first" /\ InUnit /\ level = 0 /\ UNCHANGED << file, unit, target >>
      /\ WellFormed(U) /\ ReadEntry(1, {"visit"})
  BY UnitIsWellFormed DEF FirstEntry, InUnit, Walk
<1>2. U' = U /\ Functions' = Functions
  BY <1>1, SameUnit
<1>3. CASE /\ entry' \in EntryFrom(1) /\ entry' \in Entries(U) /\ current' = entry' + 1
           /\ level' = level - (entry' - 1) + Children(U, entry') /\ pc' = "visit"
  <2>1. entry' = 1 /\ Depth(U, entry') = 0
    <3>1. \A i \in 1 .. entry' - 1 : U.entries[i].code = 0
      BY <1>3 DEF EntryFrom
    <3> QED BY <1>1, <1>3, <3>1, FirstDepth
  <2>2. level' = Depth(U, entry') + Children(U, entry')
    <3>1. Children(U, 1) \in {0, 1}
      BY DEF Children
    <3> QED BY <1>1, <1>3, <2>1, <3>1
  <2>3. \A i \in Functions : 1 <= i
    BY <1>1, FunctionsAreEntries
  <2>4. Depth(U, entry)' = Depth(U, entry') /\ Children(U, entry)' = Children(U, entry')
        /\ Entries(U)' = Entries(U)
    BY <1>2 DEF Depth, Children, Entries, DeclOf
  <2> QED BY <1>2, <1>3, <2>1, <2>2, <2>3, <2>4 DEF Walk
<1>4. CASE EntryFrom(1) = {} /\ pc' = "astray"
  <2>1. \A i \in Functions : i < 1 /\ i \in Nat /\ i > 1
    BY <1>1, <1>4, FunctionsAreEntries, ThereIsANext
  <2>2. Functions = {}
    BY <2>1
  <2> QED BY <1>2, <1>4, <2>2 DEF Walk
<1> QED BY <1>1, <1>3, <1>4, EntryIsRead

\* The unit's own entry is not a function, any other one is below it.
LEMMA VisitWalks ==
  ASSUME UnitsWellFormed, IInv, Walk, VisitUnit \/ VisitEntry PROVE Walk'
<1>1. /\ pc = "visit" /\ InUnit /\ UNCHANGED << file, unit, target, walk >> /\ WellFormed(U)
      /\ entry \in Entries(U)
  BY UnitIsWellFormed DEF VisitUnit, VisitEntry, InUnit, Walk
<1>2. U' = U /\ Functions' = Functions /\ \A i : First(i)' <=> First(i)
  BY <1>1, SameUnit
<1>3. /\ (U.decl[decl].tag = "compile_unit") = (entry = 1) /\ entry \in Nat /\ entry >= 1
      /\ \A i \in Functions : i \in Nat /\ i > 1 /\ entry <= i
      /\ \A i \in Functions : CoversTarget(U.entries[i].attrs)
  BY <1>1, VisitedDecl, EntryPlaces, FunctionsAreEntries DEF WellFormed, Walk
<1>4. UNCHANGED << entry, current, level >>
      /\ Depth(U, entry)' = Depth(U, entry) /\ Children(U, entry)' = Children(U, entry)
      /\ Entries(U)' = Entries(U)
  BY <1>1, <1>2 DEF walk, Depth, Children, Entries, DeclOf
<1>5. CASE VisitUnit
  <2>1. \A i \in Functions : entry < i
    BY <1>3, <1>5 DEF VisitUnit
  <2> QED BY <1>1, <1>2, <1>4, <1>5, <2>1 DEF VisitUnit, Walk
<1>6. CASE VisitEntry /\ CoversTarget(attrs)
  <2>1. entry \in Functions
    BY <1>1, <1>3, <1>6 DEF VisitEntry, Functions, attrs
  <2>2. First(entry) /\ Functions # {}
    BY <1>3, <2>1 DEF First
  <2>3. First(entry)'
    BY <1>2, <1>4, <2>2
  <2> QED BY <1>1, <1>2, <1>4, <1>6, <2>2, <2>3 DEF VisitEntry, Walk
<1>7. CASE VisitEntry /\ ~CoversTarget(attrs)
  <2>1. \A i \in Functions : entry < i
    BY <1>3, <1>7 DEF attrs
  <2> QED BY <1>1, <1>2, <1>4, <1>7, <2>1 DEF VisitEntry, Walk
<1> QED BY <1>5, <1>6, <1>7

\* The next entry is the one behind the ends of lists that follow; its level is
\* not 0, so that the walk goes on.
LEMMA NextEntryWalks ==
  ASSUME UnitsWellFormed, IInv, Walk, NextEntry PROVE Walk'
<1>1. /\ pc = "next" /\ InUnit /\ UNCHANGED << file, unit, target >> /\ WellFormed(U)
      /\ entry \in Entries(U) /\ current = entry + 1
      /\ level = Depth(U, entry) + Children(U, entry) /\ Depth(U, entry) \in Int
      /\ \A i \in Functions : entry < i
      /\ ReadEntry(current, {"visit", "not_found"})
  BY UnitIsWellFormed DEF NextEntry, InUnit, Walk
<1>2. U' = U /\ Functions' = Functions
  BY <1>1, SameUnit
<1>3. entry \in Nat /\ entry >= 1 /\ current \in Nat \ {0} /\ current > entry
  BY <1>1, EntryPlaces
<1>4. CASE /\ entry' \in EntryFrom(current) /\ entry' \in Entries(U) /\ current' = entry' + 1
           /\ level' = level - (entry' - current) + Children(U, entry')
           /\ pc' \in {"visit", "not_found"}
  <2> DEFINE j == entry'
  <2>1. /\ j \in Nat /\ current <= j /\ entry < j
        /\ \A i \in entry + 1 .. j - 1 : U.entries[i].code = 0
    BY <1>1, <1>3, <1>4, EntryPlaces DEF EntryFrom
  <2>2. /\ Depth(U, j) \in Int
        /\ Depth(U, j) = Depth(U, entry) + Children(U, entry) - (j - (entry + 1))
    BY <1>1, <1>4, <2>1, NextDepth
  <2>3. Depth(U, j) > 0
    BY <1>1, <1>3, <1>4, <2>1 DEF WellFormed
  <2>4. Children(U, entry) \in {0, 1} /\ Children(U, j) \in {0, 1}
    BY DEF Children
  <2>5. level' = Depth(U, j) + Children(U, j) /\ level' > 0
    BY <1>1, <1>3, <1>4, <2>1, <2>2, <2>3, <2>4
  <2>6. pc' = "visit"
    BY <1>4, <2>5 DEF NextEntry
  <2>7. \A i \in Functions : j <= i
    <3>1. ASSUME NEW i \in Functions, i < j PROVE FALSE
      <4>1. i \in entry + 1 .. j - 1 /\ U.entries[i].code # 0
        BY <1>1, <1>3, <2>1, <3>1, FunctionsAreEntries
      <4> QED BY <2>1, <4>1
    <3>2. \A i \in Functions : i \in Nat
      BY <1>1, FunctionsAreEntries
    <3> QED BY <2>1, <3>1, <3>2
  <2>8. Depth(U, entry)' = Depth(U, j) /\ Children(U, entry)' = Children(U, j)
        /\ Entries(U)' = Entries(U)
    BY <1>2 DEF Depth, Children, Entries, DeclOf
  <2> QED BY <1>2, <1>4, <2>2, <2>5, <2>6, <2>7, <2>8 DEF Walk
<1>5. CASE EntryFrom(current) = {} /\ pc' = "astray"
  <2>1. \A i \in Functions : i < current /\ i \in Nat /\ entry < i
    BY <1>1, <1>3, <1>5, FunctionsAreEntries, ThereIsANext
  <2>2. Functions = {}
    BY <1>1, <1>3, <2>1
  <2> QED BY <1>2, <1>5, <2>2 DEF Walk
<1> QED BY <1>1, <1>3, <1>4, <1>5, EntryIsRead

\* What an entry refers to is there.
LEMMA ReferenceIsRead ==
  ASSUME UnitsWellFormed, IInv, InUnit, entry \in Entries(U), NEW r \in References(attrs),
         NEW then, ReadEntry(attrs[r], then)
  PROVE  entry' = attrs[r] /\ entry' \in Entries(U) /\ pc' \in then
<1>1. WellFormed(U) /\ attrs[r] \in Entries(U)
  BY UnitIsWellFormed DEF WellFormed, attrs
<1>2. EntryFrom(attrs[r]) = {attrs[r]} /\ attrs[r] \in Nat \ {0}
  BY <1>1, EntryAtIsRead, EntryPlaces
<1> QED BY <1>2, EntryIsRead

LEMMA FollowWalks ==
  ASSUME UnitsWellFormed, IInv, Walk, FollowOrigin \/ FollowSpecification PROVE Walk'
<1>1. /\ pc \in {"name", "origin"} /\ InUnit /\ UNCHANGED << file, unit, target >>
      /\ entry \in Entries(U) /\ Functions # {}
  BY DEF FollowOrigin, FollowSpecification, InUnit, Walk
<1>2. U' = U /\ Functions' = Functions
  BY <1>1, SameUnit
<1>3. CASE FollowOrigin
  <2>1. "origin" \in References(attrs) /\ ReadEntry(attrs["origin"], {"origin"})
    BY <1>3 DEF FollowOrigin, References, Has
  <2>2. entry' \in Entries(U) /\ pc' = "origin"
    BY <1>1, <2>1, ReferenceIsRead
  <2>3. Entries(U)' = Entries(U)
    BY <1>2 DEF Entries
  <2> QED BY <1>1, <1>2, <2>2, <2>3 DEF Walk
<1>4. CASE FollowSpecification
  <2>1. pc' = "named"
    <3>1. CASE Has("specification")
      <4>1. "specification" \in References(attrs)
            /\ ReadEntry(attrs["specification"], {"named"})
        BY <1>4, <3>1 DEF FollowSpecification, References, Has
      <4> QED BY <1>1, <4>1, ReferenceIsRead
    <3> QED BY <1>4, <3>1 DEF FollowSpecification
  <2> QED BY <2>1 DEF Walk
<1> QED BY <1>3, <1>4

LEMMA NextWalks ==
  ASSUME UnitsWellFormed, IInv, Walk, [Next]_vars PROVE Walk'
<1>1. CASE FindUnit
  BY <1>1 DEF FindUnit, Walk, walk
<1>2. CASE TakeName \/ StartRows \/ ReadRow \/ TakeLine
  BY <1>2 DEF TakeName, StartRows, ReadRow, TakeLine, Walk
<1>3. CASE UNCHANGED vars
  <2>1. /\ U' = U /\ Functions' = Functions /\ \A i : First(i)' <=> First(i)
        /\ UNCHANGED << pc, entry, current, level >>
    BY <1>3, SameUnit DEF vars, walk
  <2>2. /\ Depth(U, entry)' = Depth(U, entry) /\ Children(U, entry)' = Children(U, entry)
        /\ Entries(U)' = Entries(U) /\ First(entry)' = First(entry)
    BY <2>1 DEF Depth, Children, Entries, DeclOf, First
  <2> QED BY <2>1, <2>2 DEF Walk
<1> QED BY <1>1, <1>2, <1>3, FirstEntryWalks, VisitWalks, NextEntryWalks, FollowWalks DEF Next

LEMMA WalkInvariance == ASSUME UnitsWellFormed PROVE Spec => []Walk
<1>1. Init => Walk
  BY DEF Init, Walk
<1>2. ASSUME IInv, Walk, [Next]_vars PROVE Walk'
  BY <1>2, NextWalks
<1> QED BY <1>1, <1>2, Invariance, PTL DEF Spec

\* A unit is given up only when none of its functions covers the address, if its
\* entries are nested below its first one and their codes are declared: the
\* level of the walk, which reads over the ends of lists, is the depth of the
\* entry it is at and what is below it.
THEOREM WalkIsComplete ==
  ASSUME UnitsWellFormed PROVE Spec => []CompleteWalk
<1>1. Walk => CompleteWalk
  BY DEF Walk, CompleteWalk
<1> QED BY <1>1, WalkInvariance, PTL

-----------------------------------------------------------------------------
(* The name is the one of the first function, over what it refers to *)

Attrs(u, i) == u.entries[i].attrs
OwnName(a)  == IF "name" \in DOMAIN a THEN a.name ELSE "none"

\* What the walk of the references comes to.
NearName(u, i) ==
  LET a == Attrs(u, i)
      b == Attrs(u, a.origin)
  IN IF Ends(a) THEN OwnName(a)
     ELSE IF "origin" \in DOMAIN a
          THEN IF "specification" \in DOMAIN b THEN OwnName(Attrs(u, b.specification))
               ELSE OwnName(b)
          ELSE OwnName(Attrs(u, a.specification))

Naming ==
  /\ pc \notin {"line", "rows", "done"} => "name" \notin DOMAIN symbol
  /\ pc = "origin" => \E i : /\ First(i) /\ "name" \notin DOMAIN Attrs(U, i)
                             /\ "origin" \in DOMAIN Attrs(U, i) /\ entry = Attrs(U, i).origin
  /\ pc = "named" => \E i : First(i) /\ OwnName(attrs) = NearName(U, i)
  /\ pc \in {"line", "rows", "done"} => \E i : First(i) /\ OwnName(symbol) = NearName(U, i)

LEMMA SameNames ==
  ASSUME UNCHANGED << file, unit, target >>
  PROVE  \A i : Attrs(U, i)' = Attrs(U, i) /\ NearName(U, i)' = NearName(U, i)
BY SameUnit DEF Attrs, NearName, OwnName, Ends, References

LEMMA FollowNames ==
  ASSUME UnitsWellFormed, IInv, Walk, Naming, FollowOrigin \/ FollowSpecification PROVE Naming'
<1>1. /\ pc \in {"name", "origin"} /\ InUnit /\ UNCHANGED << file, unit, target, symbol >>
      /\ entry \in Entries(U) /\ "name" \notin DOMAIN symbol
  BY DEF FollowOrigin, FollowSpecification, InUnit, Walk, Naming
<1>2. /\ U' = U /\ \A i : First(i)' <=> First(i)
      /\ \A i : Attrs(U, i)' = Attrs(U, i) /\ NearName(U, i)' = NearName(U, i)
  BY <1>1, SameUnit, SameNames
<1>3. attrs = Attrs(U, entry) /\ attrs' = Attrs(U, entry')
  BY <1>2 DEF attrs, Attrs
<1>4. CASE FollowOrigin
  <2>1. /\ pc = "name" /\ "name" \notin DOMAIN attrs
        /\ "origin" \in References(attrs) /\ ReadEntry(attrs["origin"], {"origin"})
    BY <1>4 DEF FollowOrigin, References, Has
  <2>2. entry' = attrs.origin /\ pc' = "origin" /\ First(entry) /\ "origin" \in DOMAIN attrs
    BY <1>1, <2>1, ReferenceIsRead DEF Walk, References
  <2>3. \E i : /\ First(i)' /\ "name" \notin DOMAIN Attrs(U, i)'
               /\ "origin" \in DOMAIN Attrs(U, i)' /\ entry' = Attrs(U, i)'.origin
    BY <1>2, <1>3, <2>1, <2>2
  <2> QED BY <1>1, <2>2, <2>3 DEF Naming
<1>5. CASE FollowSpecification
  <2>1. PICK i : /\ First(i) /\ ("name" \in DOMAIN Attrs(U, i) => FALSE)
                 /\ \/ pc = "name" /\ i = entry /\ "origin" \notin DOMAIN Attrs(U, i)
                    \/ pc = "origin" /\ "origin" \in DOMAIN Attrs(U, i)
                       /\ entry = Attrs(U, i).origin
    BY <1>3, <1>5 DEF FollowSpecification, Has, Naming, Walk
  <2>2. CASE Has("specification")
    <3>1. "specification" \in References(attrs) /\ ReadEntry(attrs["specification"], {"named"})
          /\ "specification" \in DOMAIN attrs
      BY <1>5, <2>2 DEF FollowSpecification, References, Has
    <3>2. entry' = attrs.specification /\ pc' = "named"
      BY <1>1, <3>1, ReferenceIsRead
    <3>3. NearName(U, i) = OwnName(Attrs(U, attrs.specification))
      BY <1>3, <2>1, <3>1 DEF NearName, Ends, References
    <3>4. \E k : First(k)' /\ OwnName(attrs)' = NearName(U, k)'
      BY <1>2, <1>3, <2>1, <3>2, <3>3 DEF OwnName
    <3> QED BY <1>1, <3>2, <3>4 DEF Naming
  <2>3. CASE ~Has("specification")
    <3>1. pc' = "named" /\ entry' = entry /\ "specification" \notin DOMAIN attrs
      BY <1>5, <2>3 DEF FollowSpecification, walk, Has
    <3>2. NearName(U, i) = OwnName(attrs)
      BY <1>3, <2>1, <3>1 DEF NearName, Ends, References
    <3>3. \E k : First(k)' /\ OwnName(attrs)' = NearName(U, k)'
      BY <1>2, <1>3, <2>1, <3>1, <3>2 DEF OwnName
    <3> QED BY <1>1, <3>1, <3>3 DEF Naming
  <2> QED BY <2>2, <2>3
<1> QED BY <1>4, <1>5

LEMMA TakeNameNames ==
  ASSUME IInv, Walk, Naming, TakeName PROVE Naming'
<1>1. /\ pc \in {"name", "named"} /\ pc' = "line" /\ UNCHANGED << file, unit, target, entry >>
      /\ "name" \notin DOMAIN symbol
  BY DEF TakeName, Naming, walk
<1>2. /\ \A i : First(i)' <=> First(i)
      /\ \A i : NearName(U, i)' = NearName(U, i)
  BY <1>1, SameUnit, SameNames
<1>3. PICK i : First(i) /\ OwnName(attrs) = NearName(U, i)
  <2>1. CASE pc = "name"
    <3>1. "name" \in DOMAIN attrs /\ First(entry) /\ attrs = Attrs(U, entry)
      BY <2>1 DEF TakeName, Has, Walk, attrs, Attrs
    <3> QED BY <3>1 DEF NearName, Ends
  <2> QED BY <1>1, <2>1 DEF Naming
<1>4. OwnName(symbol') = OwnName(attrs)
  BY <1>1 DEF TakeName, Has, OwnName, With
<1>5. \E k : First(k)' /\ OwnName(symbol)' = NearName(U, k)'
  BY <1>2, <1>3, <1>4 DEF OwnName
<1> QED BY <1>1, <1>5 DEF Naming

\* The line and the file add fields and change none.
LEMMA LineNames ==
  ASSUME Naming, StartRows \/ ReadRow \/ TakeLine PROVE Naming'
<1>1. /\ pc \in {"line", "rows"} /\ pc' \in {"line", "rows", "done"}
      /\ UNCHANGED << file, unit, target >>
  BY DEF StartRows, ReadRow, TakeLine
<1>2. /\ \A i : First(i)' <=> First(i)
      /\ \A i : NearName(U, i)' = NearName(U, i)
  BY <1>1, SameUnit, SameNames
<1>3. PICK i : First(i) /\ OwnName(symbol) = NearName(U, i)
  BY <1>1 DEF Naming
<1>4. OwnName(symbol') = OwnName(symbol)
  <2>1. CASE TakeLine
    <3> DEFINE fields == {FileFields(U.line, n) : n \in FileName(U.line, m.state.file)}
               line   == With(symbol, [line |-> m.state.line])
    <3>1. OwnName(line) = OwnName(symbol) /\ ("name" \in DOMAIN line <=> "name" \in DOMAIN symbol)
      BY DEF OwnName, With
    <3>2. \A f \in fields : "name" \notin DOMAIN f
      <4> SUFFICES ASSUME NEW n PROVE "name" \notin DOMAIN FileFields(U.line, n)
        OBVIOUS
      <4>1. \/ FileFields(U.line, n) = [filename |-> n]
            \/ \E v : FileFields(U.line, n) = With([filename |-> n], [dirname |-> v])
        BY Zenon DEF FileFields
      <4>2. \A v : "name" \notin DOMAIN With([filename |-> n], [dirname |-> v])
        BY DEF With
      <4>3. "name" \notin DOMAIN [filename |-> n]
        OBVIOUS
      <4> QED BY <4>1, <4>2, <4>3, Zenon
    <3>3. symbol' = IF fields = {} THEN line ELSE With(line, CHOOSE f \in fields : TRUE)
      BY <2>1 DEF TakeLine
    <3> HIDE DEF fields, line
    <3>4. CASE fields = {}
      BY <3>1, <3>3, <3>4
    <3>5. CASE fields # {}
      <4>1. PICK f \in fields : symbol' = With(line, f)
        BY <3>3, <3>5
      <4>2. "name" \notin DOMAIN f
        BY <3>2
      <4>3. OwnName(With(line, f)) = OwnName(line)
        BY <4>2 DEF OwnName, With
      <4> QED BY <3>1, <4>1, <4>3
    <3> QED BY <3>4, <3>5
  <2> QED BY <2>1 DEF StartRows, ReadRow
<1>5. \E k : First(k)' /\ OwnName(symbol)' = NearName(U, k)'
  BY <1>2, <1>3, <1>4 DEF OwnName
<1> QED BY <1>1, <1>5 DEF Naming

LEMMA NextNames ==
  ASSUME UnitsWellFormed, IInv, Walk, Naming, [Next]_vars PROVE Naming'
<1>1. CASE FindUnit \/ VisitEntry
  BY <1>1 DEF FindUnit, VisitEntry, Naming
<1>2. CASE VisitUnit
  BY <1>2 DEF VisitUnit, Naming, With
<1>3. CASE FirstEntry \/ NextEntry
  BY <1>3 DEF FirstEntry, NextEntry, ReadEntry, Naming
<1>4. CASE UNCHANGED vars
  <2>1. /\ U' = U /\ \A i : First(i)' <=> First(i)
        /\ \A i : Attrs(U, i)' = Attrs(U, i) /\ NearName(U, i)' = NearName(U, i)
        /\ UNCHANGED << pc, entry, symbol >>
    BY <1>4, SameUnit, SameNames DEF vars, walk
  <2>2. OwnName(attrs)' = OwnName(attrs) /\ OwnName(symbol)' = OwnName(symbol)
    BY <2>1 DEF OwnName, attrs
  <2> QED BY <2>1, <2>2 DEF Naming
<1> QED BY <1>1, <1>2, <1>3, <1>4, FollowNames, TakeNameNames, LineNames DEF Next

\* Names that end after two references are what following all of them gives.
LEMMA NameIsNear ==
  ASSUME WellFormed(U), NamesNear(U), NEW i \in Entries(U)
  PROVE  NameOf[i] = NearName(U, i)
<1> DEFINE f == [k \in Entries(U) |-> NearName(U, k)]
           rule(g) == [k \in Entries(U) |->
             LET a == U.entries[k].attrs
             IN IF "name" \in DOMAIN a THEN a.name
                ELSE IF "origin" \in DOMAIN a THEN g[a.origin]
                ELSE IF "specification" \in DOMAIN a THEN g[a.specification]
                ELSE "none"]
<1>1. f = rule(f)
  <2> SUFFICES ASSUME NEW k \in Entries(U)
               PROVE  f[k] = LET a == Attrs(U, k)
                             IN IF "name" \in DOMAIN a THEN a.name
                                ELSE IF "origin" \in DOMAIN a THEN f[a.origin]
                                ELSE IF "specification" \in DOMAIN a THEN f[a.specification]
                                ELSE "none"
    BY DEF Attrs
  <2> DEFINE a == Attrs(U, k)
  <2>1. \A r \in References(a) : a[r] \in Entries(U)
    BY DEF WellFormed, Attrs
  <2>2. \A r \in References(a) : f[a[r]] = NearName(U, a[r])
    BY <2>1
  <2>3. f[k] = NearName(U, k)
    OBVIOUS
  <2> HIDE DEF f
  <2>4. CASE Ends(a)
    BY <2>3, <2>4 DEF NearName, OwnName, Ends, References
  <2>5. CASE ~Ends(a) /\ "origin" \in DOMAIN a
    <3> DEFINE b == Attrs(U, a.origin)
    <3>1. IF "specification" \in DOMAIN b
          THEN DOMAIN b \cap {"name", "origin"} = {} /\ Ends(Attrs(U, b.specification))
          ELSE Ends(b)
      BY <2>5 DEF NamesNear, Attrs
    <3>2. f[a.origin] = NearName(U, a.origin) /\ "name" \notin DOMAIN a
      BY <2>2, <2>5 DEF References, Ends
    <3>3. NearName(U, a.origin) = IF "specification" \in DOMAIN b
                                  THEN OwnName(Attrs(U, b.specification)) ELSE OwnName(b)
      BY <3>1 DEF NearName, Ends, References
    <3> QED BY <2>3, <2>5, <3>2, <3>3 DEF NearName
  <2>6. CASE ~Ends(a) /\ "origin" \notin DOMAIN a
    <3>1. "specification" \in DOMAIN a /\ "name" \notin DOMAIN a
      BY <2>6 DEF Ends, References
    <3>2. Ends(Attrs(U, a.specification))
      BY <2>6 DEF NamesNear, Attrs
    <3>3. f[a.specification] = NearName(U, a.specification)
      BY <2>2, <3>1 DEF References
    <3>4. NearName(U, a.specification) = OwnName(Attrs(U, a.specification))
      BY <3>2 DEF NearName
    <3> QED BY <2>3, <2>6, <3>1, <3>3, <3>4 DEF NearName
  <2> QED BY <2>4, <2>5, <2>6
<1>2. NameOf = rule(NameOf)
  BY <1>1, Zenon DEF NameOf
<1>3. \A k \in Entries(U) :
        NameOf[k] = LET a == Attrs(U, k)
                    IN IF "name" \in DOMAIN a THEN a.name
                       ELSE IF "origin" \in DOMAIN a THEN NameOf[a.origin]
                       ELSE IF "specification" \in DOMAIN a THEN NameOf[a.specification]
                       ELSE "none"
  BY <1>2 DEF Attrs
<1> HIDE DEF rule, f
<1>4. \A k \in Entries(U) : \A r \in References(Attrs(U, k)) : Attrs(U, k)[r] \in Entries(U)
  BY DEF WellFormed, Attrs
<1>5. \A k \in Entries(U) : Ends(Attrs(U, k)) => NameOf[k] = OwnName(Attrs(U, k))
  BY <1>3 DEF Ends, References, OwnName
<1> DEFINE a == Attrs(U, i)
<1>6. CASE Ends(a)
  BY <1>5, <1>6 DEF NearName
<1>7. CASE ~Ends(a) /\ "origin" \in DOMAIN a
  <2> DEFINE b == Attrs(U, a.origin)
  <2>1. IF "specification" \in DOMAIN b
        THEN DOMAIN b \cap {"name", "origin"} = {} /\ Ends(Attrs(U, b.specification))
        ELSE Ends(b)
    BY <1>7 DEF NamesNear, Attrs
  <2>2. a.origin \in Entries(U) /\ NameOf[i] = NameOf[a.origin]
    BY <1>3, <1>4, <1>7 DEF References, Ends
  <2>3. CASE "specification" \in DOMAIN b
    <3>1. b.specification \in Entries(U) /\ NameOf[a.origin] = NameOf[b.specification]
      BY <1>3, <1>4, <2>1, <2>2, <2>3 DEF References
    <3>2. NameOf[b.specification] = OwnName(Attrs(U, b.specification))
      BY <1>5, <2>1, <2>3, <3>1
    <3> QED BY <1>7, <2>2, <2>3, <3>1, <3>2 DEF NearName
  <2>4. CASE "specification" \notin DOMAIN b
    BY <1>5, <1>7, <2>1, <2>2, <2>4 DEF NearName
  <2> QED BY <2>3, <2>4
<1>8. CASE ~Ends(a) /\ "origin" \notin DOMAIN a
  <2>1. Ends(Attrs(U, a.specification)) /\ "specification" \in DOMAIN a /\ "name" \notin DOMAIN a
    BY <1>8 DEF NamesNear, Attrs, Ends, References
  <2>2. a.specification \in Entries(U) /\ NameOf[i] = NameOf[a.specification]
    BY <1>3, <1>4, <1>8, <2>1 DEF References
  <2> QED BY <1>5, <1>8, <2>1, <2>2 DEF NearName
<1> QED BY <1>6, <1>7, <1>8

\* The name that is found is the one of an outermost function around the address
\* (the first one that covers it is in no other that does), over its abstract
\* origin and specification as compilers write them (NamesNear).
THEOREM NamesAreRight ==
  ASSUME UnitsWellFormed, UnitsNameNear PROVE Spec => []NameRight
<1>1. Init => Naming
  BY DEF Init, Naming
<1>2. ASSUME IInv, Walk, Naming, [Next]_vars PROVE Naming'
  BY <1>2, NextNames
<1>3. ASSUME IInv, Naming PROVE NameRight
  <2> SUFFICES ASSUME pc = "done" PROVE \E i \in Outermost : OwnName(symbol) = NameOf[i]
    BY DEF NameRight, OwnName
  <2>1. PICK i : First(i) /\ OwnName(symbol) = NearName(U, i)
    BY <1>3 DEF Naming
  <2>2. WellFormed(U) /\ NamesNear(U)
    BY <1>3, UnitIsWellFormed DEF InUnit, UnitsNameNear, IInv, U, Range
  <2>3. i \in Entries(U) /\ i \in Functions /\ \A j \in Functions : j \in Nat /\ i <= j
    BY <2>1, <2>2, FunctionsAreEntries DEF First
  <2>4. \A j \in Functions : ~Within(i, j)
    BY <2>3 DEF Within
  <2>5. i \in Outermost /\ NameOf[i] = NearName(U, i)
    BY <2>2, <2>3, <2>4, NameIsNear DEF Outermost
  <2> QED BY <2>1, <2>5
<1> QED BY <1>1, <1>2, <1>3, Invariance, WalkInvariance, PTL DEF Spec

-----------------------------------------------------------------------------
(* The registers of a line program *)

(* A recursion from 0 on has a solution: there is one as far as any place. *)
LEMMA RegistersExist ==
  ASSUME NEW prog, Len(prog.instrs) \in Nat
  PROVE  \E f : f = [k \in 0 .. Len(prog.instrs) |->
                       IF k = 0 \/ prog.instrs[k].op = "end_sequence" THEN Registers
                       ELSE Moved(prog, f[k - 1], prog.instrs[k])]
<1> DEFINE next(r, k)  == IF k = 0 \/ prog.instrs[k].op = "end_sequence" THEN Registers
                          ELSE Moved(prog, r, prog.instrs[k])
           Until(n, f) == f = [k \in 0 .. n |-> next(f[k - 1], k)]
           T           == {n \in 0 .. Len(prog.instrs) : ~ \E f : Until(n, f)}
<1> SUFFICES \E f : Until(Len(prog.instrs), f)
  OBVIOUS
<1> SUFFICES ASSUME T # {} PROVE FALSE
  OBVIOUS
<1>1. PICK n \in T : \A j \in T : n <= j
  <2>1. T \subseteq Nat
    <3> HIDE DEF Until
    <3> QED OBVIOUS
  <2> QED BY <2>1, LeastMember, Zenon
<1>2. n \in Nat /\ n <= Len(prog.instrs) /\ ~ \E f : Until(n, f)
  BY <1>1
<1>3. CASE n = 0
  <2> DEFINE f == [k \in 0 .. 0 |-> Registers]
  <2>1. f = [k \in 0 .. 0 |-> next(f[k - 1], k)]
    OBVIOUS
  <2> HIDE DEF f
  <2>2. Until(0, f)
    BY <2>1
  <2> QED BY <1>2, <1>3, <2>2
<1>4. CASE n # 0
  <2>1. n - 1 \in 0 .. Len(prog.instrs) /\ n - 1 < n /\ n - 1 \in Nat
    BY <1>2, <1>4
  <2>2. PICK f : Until(n - 1, f)
    <3> HIDE DEF Until
    <3>1. n - 1 \notin T
      BY <1>1, <2>1
    <3> QED BY <2>1, <3>1, Zenon
  <2> DEFINE g == [k \in 0 .. n |-> IF k = n THEN next(f[n - 1], n) ELSE f[k]]
  <2> HIDE DEF next
  <2>3. \A k \in 0 .. n - 1 : f[k] = next(f[k - 1], k)
    BY <2>2
  <2>4. \A k \in 0 .. n : (k # n => g[k] = f[k]) /\ (k = n => g[k] = next(f[n - 1], n))
    OBVIOUS
  <2>5. next(g[-1], 0) = next(f[-1], 0)
    BY DEF next
  <2>6. \A k \in 0 .. n : g[k] = next(g[k - 1], k)
    <3> HIDE DEF g
    <3> TAKE k \in 0 .. n
    <3>1. CASE k = 0
      BY <1>4, <2>1, <2>3, <2>4, <2>5, <3>1
    <3>2. CASE k # 0
      <4>1. k - 1 \in 0 .. n /\ k - 1 # n /\ (k # n => k \in 0 .. n - 1)
        BY <1>2, <3>2
      <4> QED BY <2>3, <2>4, <4>1
    <3> QED BY <3>1, <3>2
  <2>7. Until(n, g)
    BY <2>6
  <2> QED BY <1>2, <2>7
<1> QED BY <1>3, <1>4

LEMMA RegistersAre ==
  ASSUME NEW prog, Len(prog.instrs) \in Nat
  PROVE  /\ RegistersAfter(prog)[0] = Registers
         /\ \A k \in 1 .. Len(prog.instrs) :
              RegistersAfter(prog)[k] =
                IF prog.instrs[k].op = "end_sequence" THEN Registers ELSE RowAt(prog, k)
<1> DEFINE f == RegistersAfter(prog)
<1>1. f = [k \in 0 .. Len(prog.instrs) |->
             IF k = 0 \/ prog.instrs[k].op = "end_sequence" THEN Registers
             ELSE Moved(prog, f[k - 1], prog.instrs[k])]
  BY RegistersExist, Zenon DEF RegistersAfter
<1> HIDE DEF f
<1>2. \A k \in 1 .. Len(prog.instrs) : RowAt(prog, k) = Moved(prog, f[k - 1], prog.instrs[k])
  BY DEF RowAt, f
<1>3. /\ f[0] = Registers
      /\ \A k \in 1 .. Len(prog.instrs) :
           f[k] = IF prog.instrs[k].op = "end_sequence" THEN Registers
                  ELSE Moved(prog, f[k - 1], prog.instrs[k])
  BY <1>1
<1> QED BY <1>2, <1>3 DEF f

-----------------------------------------------------------------------------
(* The tables in front of a line program *)

LEMMA StringsAre ==
  ASSUME NEW bs, Len(bs) \in Nat, NEW first, NEW gap
  PROVE  \A i \in 1 .. Len(bs) :
           StringsAt(bs, first, gap)[i] =
             IF i = 1 THEN first ELSE EndOfString(bs, StringsAt(bs, first, gap)[i - 1]) + gap
<1> DEFINE places == StringsAt(bs, first, gap)
<1>1. \E g : g = [i \in 1 .. Len(bs) |-> IF i = 1 THEN first ELSE EndOfString(bs, g[i - 1]) + gap]
  <2> DEFINE next(p, i)  == IF i = 1 THEN first ELSE EndOfString(bs, p) + gap
             Until(n, f) == f = [i \in 1 .. n |-> next(f[i - 1], i)]
             T           == {n \in 0 .. Len(bs) : ~ \E f : Until(n, f)}
  <2> SUFFICES \E f : Until(Len(bs), f)
    OBVIOUS
  <2> SUFFICES ASSUME T # {} PROVE FALSE
    OBVIOUS
  <2> HIDE DEF next
  <2>1. PICK n \in T : \A j \in T : n <= j
    <3>1. T \subseteq Nat
      <4> HIDE DEF Until
      <4> QED OBVIOUS
    <3> QED BY <3>1, LeastMember, Zenon
  <2>2. n \in Nat /\ n <= Len(bs) /\ ~ \E f : Until(n, f)
    BY <2>1
  <2>3. CASE n = 0
    <3> DEFINE h == [i \in 1 .. 0 |-> first]
    <3>1. h = [i \in 1 .. 0 |-> next(h[i - 1], i)]
      OBVIOUS
    <3> HIDE DEF h
    <3>2. Until(0, h)
      BY <3>1
    <3> QED BY <2>2, <2>3, <3>2
  <2>4. CASE n # 0
    <3>1. n - 1 \in 0 .. Len(bs) /\ n - 1 < n /\ n - 1 \in Nat
      BY <2>2, <2>4
    <3>2. PICK f : Until(n - 1, f)
      <4> HIDE DEF Until
      <4>1. n - 1 \notin T
        BY <2>1, <3>1
      <4> QED BY <3>1, <4>1, Zenon
    <3> DEFINE g == [i \in 1 .. n |-> IF i = n THEN next(f[n - 1], n) ELSE f[i]]
    <3>3. \A i \in 1 .. n - 1 : f[i] = next(f[i - 1], i)
      BY <3>2
    <3>4. \A i \in 1 .. n : (i # n => g[i] = f[i]) /\ (i = n => g[i] = next(f[n - 1], n))
      OBVIOUS
    <3>5. \A p, q : next(p, 1) = next(q, 1)
      BY DEF next
    <3>6. \A i \in 1 .. n : g[i] = next(g[i - 1], i)
      <4> HIDE DEF g
      <4> TAKE i \in 1 .. n
      <4>1. CASE i = 1
        <5>1. g[i] = next(f[i - 1], i)
          BY <2>2, <3>3, <3>4, <4>1
        <5> QED BY <3>5, <4>1, <5>1
      <4>2. CASE i # 1
        <5>1. i - 1 \in 1 .. n /\ i - 1 # n /\ (i # n => i \in 1 .. n - 1)
          BY <2>2, <4>2
        <5> QED BY <3>3, <3>4, <5>1
      <4> QED BY <4>1, <4>2
    <3>7. Until(n, g)
      BY <3>6
    <3> QED BY <2>2, <3>7
  <2> QED BY <2>3, <2>4
<1>2. places = [i \in 1 .. Len(bs) |-> IF i = 1 THEN first ELSE EndOfString(bs, places[i - 1]) + gap]
  BY <1>1, Zenon DEF StringsAt
<1> HIDE DEF places
<1>3. \A i \in 1 .. Len(bs) : places[i] = IF i = 1 THEN first ELSE EndOfString(bs, places[i - 1]) + gap
  BY <1>2
<1> QED BY <1>3 DEF places

\* Behind a string: past its 0.
LEMMA EndOfName ==
  ASSUME NEW bs \in Seq(0 .. 255), NEW name \in Seq(1 .. 255), NEW p \in Nat \ {0},
         p + Len(name) <= Len(bs), SubSeq(bs, p, p + Len(name)) = Append(name, 0)
  PROVE  EndOfString(bs, p) = p + Len(name) + 1 /\ (name # << >> => bs[p] # 0)
<1>1. Len(name) \in Nat /\ Len(bs) \in Nat
  OBVIOUS
<1>2. \A j \in 1 .. Len(name) + 1 : SubSeq(bs, p, p + Len(name))[j] = bs[p + j - 1]
  BY <1>1
<1>3. \A j \in 1 .. Len(name) : bs[p + j - 1] # 0
  <2> TAKE j \in 1 .. Len(name)
  <2>1. name[j] # 0
    <3>1. name[j] \in 1 .. 255
      BY ElementOfSeq
    <3>2. \A v \in 1 .. 255 : v # 0
      OBVIOUS
    <3> QED BY <3>1, <3>2, Zenon
  <2>2. Append(name, 0)[j] = name[j]
    OBVIOUS
  <2>3. SubSeq(bs, p, p + Len(name))[j] = bs[p + j - 1]
    BY <1>2, <1>1
  <2>4. SubSeq(bs, p, p + Len(name))[j] = Append(name, 0)[j]
    BY Zenon
  <2>5. bs[p + j - 1] = name[j]
    BY <2>2, <2>3, <2>4, Zenon
  <2> QED BY <2>1, <2>5, Zenon
<1>4. bs[p + Len(name)] = 0
  <2>1. Append(name, 0)[Len(name) + 1] = 0 /\ Len(name) + 1 \in 1 .. Len(name) + 1
    BY <1>1
  <2> QED BY <1>1, <1>2, <2>1
<1> DEFINE Z == {i \in p .. Len(bs) : bs[i] = 0}
           z == p + Len(name)
<1>5. z \in Z /\ z \in Nat
  BY <1>1, <1>4
<1>6. \A i \in Z : z <= i
  <2> SUFFICES ASSUME NEW i \in Z, i < z PROVE FALSE
    BY <1>1
  <2>1. i - p + 1 \in 1 .. Len(name) /\ p + (i - p + 1) - 1 = i
    BY <1>1
  <2> QED BY <1>3, <2>1
<1>7. Min(Z) = z
  <2>1. \E x \in Z : \A y \in Z : x <= y
    BY <1>5, <1>6
  <2>2. Min(Z) \in Z /\ \A y \in Z : Min(Z) <= y
    <3> HIDE DEF Z
    <3> QED BY <2>1, Zenon DEF Min
  <2>3. Min(Z) \in Int
    BY <2>2
  <2> QED BY <1>5, <1>6, <2>2, <2>3
<1>8. name # << >> => bs[p] # 0
  <2>1. name # << >> => 1 \in 1 .. Len(name) /\ p + 1 - 1 = p
    BY EmptySeq, <1>1
  <2> QED BY <1>3, <2>1
<1> QED BY <1>7, <1>8 DEF EndOfString

\* The tables hold what was written into them: the strings are found at their
\* places, and as many of them.
LEMMA NamesFound ==
  ASSUME NEW prog, prog.bytes \in Seq(0 .. 255), NEW names, NEW places, NEW gap \in Nat,
         NamesWritten(prog, names, places, gap)
  PROVE  /\ LastString(prog.bytes, places[1], gap) = Len(names)
         /\ \A i \in DOMAIN names :
              /\ StringsAt(prog.bytes, places[1], gap)[i] = places[i]
              /\ EndOfString(prog.bytes, places[i]) = places[i] + Len(names[i]) + 1
<1> DEFINE bs == prog.bytes
           N  == Len(names)
           at == StringsAt(bs, places[1], gap)
<1>1. /\ N \in Nat \ {0} /\ Len(bs) \in Nat /\ DOMAIN names = 1 .. N
      /\ DOMAIN bs = 1 .. Len(bs) /\ bs \in Seq(0 .. 255)
  <2>1. names \in Seq(Seq(1 .. 255)) /\ names # << >>
    BY DEF NamesWritten
  <2>2. N \in Nat /\ DOMAIN names = 1 .. N /\ N # 0
    BY <2>1, EmptySeq, LenProperties
  <2> QED BY <2>2, LenProperties
<1>2. \A i \in 1 .. N + 1 : places[i] \in Nat \ {0}
  <2>1. places \in Seq(Nat \ {0}) /\ Len(places) = N + 1
    BY DEF NamesWritten
  <2> QED BY <1>1, <2>1, ElementOfSeq
<1> DEFINE len(i) == Len(names[i])
<1>3. \A i \in 1 .. N :
        /\ names[i] \in Seq(1 .. 255) /\ names[i] # << >> /\ len(i) \in Nat
        /\ places[i] \in Nat \ {0} /\ places[i + 1] = places[i] + len(i) + 1 + gap
        /\ places[i + 1] \in 1 .. Len(bs) /\ places[i] + len(i) <= Len(bs)
  <2> TAKE i \in 1 .. N
  <2>1. /\ names \in Seq(Seq(1 .. 255)) /\ names[i] # << >> /\ places[i + 1] \in DOMAIN bs
        /\ places[i + 1] = places[i] + len(i) + 1 + gap
    BY <1>1 DEF NamesWritten
  <2>2. names[i] \in Seq(1 .. 255) /\ len(i) \in Nat
    BY <1>1, <2>1, ElementOfSeq, LenProperties
  <2>3. places[i] \in Nat \ {0}
    BY <1>1, <1>2
  <2>4. places[i + 1] \in 1 .. Len(bs)
    BY <1>1, <2>1
  <2> HIDE DEF N, bs, len
  <2> QED BY <1>1, <2>1, <2>2, <2>3, <2>4
<1>4. \A i \in 1 .. N : EndOfString(bs, places[i]) = places[i] + len(i) + 1 /\ bs[places[i]] # 0
  <2> TAKE i \in 1 .. N
  <2>1. SubSeq(bs, places[i], places[i] + Len(names[i])) = Append(names[i], 0)
    BY <1>1 DEF NamesWritten, NameAt
  <2>2. /\ bs \in Seq(0 .. 255) /\ names[i] \in Seq(1 .. 255) /\ names[i] # << >>
        /\ places[i] \in Nat \ {0} /\ places[i] + Len(names[i]) <= Len(bs)
    BY <1>1, <1>3
  <2> HIDE DEF bs
  <2> QED BY <2>1, <2>2, EndOfName, Zenon
<1> HIDE DEF N, bs, len
<1>5. \A i \in 1 .. N : i <= places[i] /\ at[i] = places[i]
  <2> DEFINE T == {i \in 1 .. N : ~(i <= places[i] /\ at[i] = places[i])}
  <2> SUFFICES ASSUME T # {} PROVE FALSE
    OBVIOUS
  <2> HIDE DEF at
  <2>1. PICK i \in T : \A j \in T : i <= j
    <3>1. T \subseteq Nat
      OBVIOUS
    <3> QED BY <3>1, LeastMember, Zenon
  <2>2. i \in 1 .. N /\ ~(i <= places[i] /\ at[i] = places[i])
    BY <2>1
  <2>3. i <= places[i]
    <3>1. CASE i = 1
      BY <1>3, <2>2, <3>1
    <3>2. CASE i # 1
      <4>1. i - 1 \in 1 .. N /\ i - 1 < i /\ (i - 1) + 1 = i
        BY <1>1, <2>2, <3>2
      <4>2. i - 1 <= places[i - 1]
        BY <2>1, <4>1
      <4>3. places[i] = places[i - 1] + len(i - 1) + 1 + gap
        BY <1>3, <4>1
      <4> QED BY <1>3, <2>2, <4>1, <4>2, <4>3
    <3> QED BY <3>1, <3>2
  <2>4. i \in 1 .. Len(bs)
    <3>1. places[i] \in Nat /\ len(i) \in Nat /\ places[i] + len(i) <= Len(bs)
      BY <1>3, <2>2
    <3> QED BY <1>1, <2>2, <2>3, <3>1
  <2>5. at[i] = IF i = 1 THEN places[1] ELSE EndOfString(bs, at[i - 1]) + gap
    BY <1>1, <2>4, StringsAre DEF at
  <2>6. CASE i = 1
    BY <2>2, <2>3, <2>5, <2>6
  <2>7. CASE i # 1
    <3>1. i - 1 \in 1 .. N /\ i - 1 < i /\ (i - 1) + 1 = i
      BY <1>1, <2>2, <2>7
    <3>2. at[i - 1] = places[i - 1]
      BY <2>1, <3>1
    <3> QED BY <1>3, <1>4, <2>2, <2>3, <2>5, <2>7, <3>1, <3>2
  <2> QED BY <2>6, <2>7
<1> DEFINE last(i) == bs[EndOfString(bs, at[i]) + gap] = 0
<1>6. \A i \in 1 .. N : EndOfString(bs, at[i]) + gap = places[i + 1]
  BY <1>3, <1>5, <1>4
<1>7. N \in DOMAIN bs /\ last(N) /\ \A j \in 1 .. N - 1 : ~last(j)
  <2>1. N \in 1 .. Len(bs)
    <3>1. N \in 1 .. N
      BY <1>1
    <3>2. N <= places[N] /\ places[N] + len(N) <= Len(bs) /\ places[N] \in Nat /\ len(N) \in Nat
      BY <1>3, <1>5, <3>1
    <3> QED BY <1>1, <3>2
  <2>2. last(N)
    <3>1. bs[places[N + 1]] = 0
      BY DEF NamesWritten, Last, N, bs
    <3> QED BY <1>1, <1>6, <3>1
  <2>3. \A j \in 1 .. N - 1 : j \in 1 .. N /\ j + 1 \in 1 .. N
    BY <1>1
  <2> QED BY <1>1, <1>6, <1>4, <2>1, <2>2, <2>3
<1>8. \A i \in DOMAIN bs : last(i) /\ (\A j \in 1 .. i - 1 : ~last(j)) => i = N
  <2> HIDE DEF last
  <2> QED BY <1>1, <1>7
<1>9. LastString(bs, places[1], gap) = N
  <2>1. LastString(bs, places[1], gap)
          = CHOOSE i \in DOMAIN bs : last(i) /\ \A j \in 1 .. i - 1 : ~last(j)
    BY DEF LastString, bs
  <2> HIDE DEF last
  <2> QED BY <1>7, <1>8, <2>1
<1> QED BY <1>1, <1>5, <1>9, <1>4 DEF N, bs, len

-----------------------------------------------------------------------------
(* One instruction of a line program *)

Regs     == [address : Int, file : Int, line : Int]
Machines == [offset : Int, state : Regs, new : Regs, found : BOOLEAN, stopped : BOOLEAN]

RowOps == {"special", "copy", "end_sequence"}

LEMMA ProgramFacts ==
  ASSUME NEW prog, ProgramWritten(prog)
  PROVE  /\ prog.min_inst \in Int /\ prog.line_base \in Int /\ prog.opcode_base \in Int
         /\ prog.line_range \in Nat \ {0}
         /\ Len(prog.instrs) \in Nat /\ DOMAIN prog.instrs = 1 .. Len(prog.instrs)
         /\ Len(prog.bytes) \in Nat /\ DOMAIN prog.bytes = 1 .. Len(prog.bytes)
         /\ \A p \in 1 .. Len(prog.bytes) : prog.bytes[p] \in 0 .. 255
         /\ \A k \in 1 .. Len(prog.instrs) :
              prog.instrs[k].n \in Int /\ prog.instrs[k].line \in Int
         /\ \A k \in 1 .. Len(prog.instrs) + 1 : prog.at[k] \in Nat
<1>1. /\ prog.bytes \in Seq(0 .. 255) /\ prog.at \in Seq(Nat)
      /\ prog.instrs \in Seq([op : STRING, n : Int, line : Int])
      /\ Len(prog.at) = Len(prog.instrs) + 1
  BY DEF ProgramWritten
<1>2. /\ Len(prog.instrs) \in Nat /\ DOMAIN prog.instrs = 1 .. Len(prog.instrs)
      /\ Len(prog.bytes) \in Nat /\ DOMAIN prog.bytes = 1 .. Len(prog.bytes)
  BY <1>1, LenProperties
<1>3. \A k \in 1 .. Len(prog.instrs) : prog.instrs[k] \in [op : STRING, n : Int, line : Int]
  BY <1>1, ElementOfSeq
<1>4. \A p \in 1 .. Len(prog.bytes) : prog.bytes[p] \in 0 .. 255
  BY <1>1, ElementOfSeq
<1>5. \A k \in 1 .. Len(prog.instrs) + 1 : prog.at[k] \in Nat
  BY <1>1, ElementOfSeq
<1>6. /\ prog.min_inst \in Int /\ prog.line_base \in Int /\ prog.opcode_base \in Int
      /\ prog.line_range \in Nat \ {0}
  BY DEF ProgramWritten
<1>7. \A k \in 1 .. Len(prog.instrs) : prog.instrs[k].n \in Int /\ prog.instrs[k].line \in Int
  BY <1>3
<1> QED BY <1>2, <1>4, <1>5, <1>6, <1>7

LEMMA MovedType ==
  ASSUME NEW prog, prog.min_inst \in Int, prog.opcode_base \in Int, prog.line_range \in Nat \ {0},
         NEW r \in Regs, NEW i, i.n \in Int, i.line \in Int
  PROVE  Moved(prog, r, i) \in Regs
<1>1. /\ i.n * prog.min_inst \in Int /\ prog.min_inst * i.n \in Int
      /\ ((255 - prog.opcode_base) \div prog.line_range) * prog.min_inst \in Int
  <2>1. (255 - prog.opcode_base) \div prog.line_range \in Int
    OBVIOUS
  <2> QED BY <2>1
<1>2. r = [address |-> r.address, file |-> r.file, line |-> r.line]
      /\ r.address \in Int /\ r.file \in Int /\ r.line \in Int
  BY DEF Regs
<1>3. CASE i.op \in {"special", "advance_pc", "const_pc"}
  <2> DEFINE a1 == r.address + i.n * prog.min_inst
             a2 == r.address + prog.min_inst * i.n
             a3 == r.address + ((255 - prog.opcode_base) \div prog.line_range) * prog.min_inst
             l1 == r.line + i.line
  <2>1. \/ Moved(prog, r, i) = [r EXCEPT !.address = a1, !.line = l1]
        \/ Moved(prog, r, i) = [r EXCEPT !.address = a2]
        \/ Moved(prog, r, i) = [r EXCEPT !.address = a3]
    BY <1>3 DEF Moved
  <2>2. a1 \in Int /\ a2 \in Int /\ a3 \in Int /\ l1 \in Int
    <3>1. \A v, w \in Int : v + w \in Int
      OBVIOUS
    <3> QED BY <1>1, <1>2, <3>1, Zenon
  <2>3. \A v, w \in Int : [r EXCEPT !.address = v] \in Regs
                          /\ [r EXCEPT !.address = v, !.line = w] \in Regs
    BY <1>2 DEF Regs
  <2> HIDE DEF a1, a2, a3, l1
  <2> QED BY <2>1, <2>2, <2>3
<1>4. CASE i.op \in {"fixed_pc", "set_address", "advance_line", "set_file"}
  BY <1>1, <1>2, <1>4 DEF Moved, Regs
<1>5. CASE i.op \notin {"special", "advance_pc", "const_pc",
                        "fixed_pc", "set_address", "advance_line", "set_file"}
  BY <1>5 DEF Moved
<1> QED BY <1>3, <1>4, <1>5

\* A row that does not stop at once is remembered where it is the one.
LEMMA RowIs ==
  ASSUME NEW x \in Machines, NEW t \in Int, ~x.stopped
  PROVE  /\ Row(x, t) \in Machines
         /\ Row(x, t).offset = x.offset /\ Row(x, t).state = x.state /\ Row(x, t).new = x.new
         /\ Row(x, t).found <=> x.found \/ t = x.new.address
         /\ Row(x, t).stopped <=> x.found \/ t < x.new.address
<1>1. x.new.address \in Int /\ x.found \in BOOLEAN /\ x.stopped = FALSE
  BY DEF Machines, Regs
<1>2. CASE x.found
  BY <1>1, <1>2 DEF Row, Machines
<1>3. CASE ~x.found /\ t = x.new.address
  <2>1. Row(x, t) = [x EXCEPT !.found = TRUE]
    BY <1>3 DEF Row
  <2>2. /\ Row(x, t) \in Machines /\ Row(x, t).found = TRUE /\ Row(x, t).stopped = FALSE
        /\ Row(x, t).offset = x.offset /\ Row(x, t).state = x.state /\ Row(x, t).new = x.new
    BY <1>1, <2>1 DEF Machines
  <2> QED BY <1>1, <1>3, <2>2
<1>4. CASE ~x.found /\ t # x.new.address
  <2>1. Row(x, t) = [x EXCEPT !.stopped = t < x.new.address]
    BY <1>4 DEF Row
  <2>2. (t < x.new.address) \in BOOLEAN
    BY <1>1
  <2> QED BY <1>1, <1>4, <2>1, <2>2 DEF Machines
<1> QED BY <1>2, <1>3, <1>4

\* What instruction k makes of the machine that stands in front of it.
Ran(prog, x, y, t, k) ==
  LET i   == prog.instrs[k]
      r   == Moved(prog, x.new, i)
      row == i.op \in RowOps
  IN /\ y \in Machines /\ y.offset = prog.at[k + 1] /\ y.state = x.state
     /\ y.new = IF i.op = "end_sequence" THEN Registers ELSE r
     /\ y.found <=> x.found \/ (row /\ t = r.address)
     /\ y.stopped <=> row /\ (x.found \/ t < r.address)

At(prog, x, k) ==
  /\ x \in Machines /\ ~x.stopped /\ x.state = x.new /\ x.offset = prog.at[k]

\* A machine with its registers put at an instruction.
Put(x, o, r) == [x EXCEPT !.offset = o, !.new = r]

LEMMA PutType ==
  ASSUME NEW x \in Machines, NEW o \in Int, NEW r \in Regs
  PROVE  /\ Put(x, o, r) \in Machines /\ Put(x, o, r).offset = o /\ Put(x, o, r).new = r
         /\ Put(x, o, r).state = x.state /\ Put(x, o, r).found = x.found
         /\ Put(x, o, r).stopped = x.stopped
BY DEF Machines, Put

\* What the code does to the registers, field by field.
AddressTo(r, v)  == [r EXCEPT !.address = v]
FileTo(r, v)     == [r EXCEPT !.file = v]
LineTo(r, v)     == [r EXCEPT !.line = v]
SetAddress(y, v) == [y EXCEPT !.new.address = v]
SetFile(y, v)    == [y EXCEPT !.new.file = v]
SetLine(y, v)    == [y EXCEPT !.new.line = v]

LEMMA PutIs ==
  ASSUME NEW x \in Machines, x.state = x.new, NEW o
  PROVE  /\ To(x, o) = Put(x, o, x.new)
         /\ \A v : /\ To(SetAddress(x, v), o) = Put(x, o, AddressTo(x.new, v))
                   /\ SetFile(To(x, o), v) = Put(x, o, FileTo(x.new, v))
                   /\ SetLine(To(x, o), v) = Put(x, o, LineTo(x.new, v))
         /\ \A d : Advance(To(x, o), d) = Put(x, o, AddressTo(x.new, x.new.address + d))
         /\ \A d, v : SetLine(Advance(To(x, o), d), v)
                        = Put(x, o, LineTo(AddressTo(x.new, x.new.address + d), v))
<1>1. x = [offset |-> x.offset, state |-> x.state, new |-> x.new,
           found |-> x.found, stopped |-> x.stopped]
      /\ x.new = [address |-> x.new.address, file |-> x.new.file, line |-> x.new.line]
  BY DEF Machines, Regs
<1>2. To(x, o) = Put(x, o, x.new)
  BY <1>1 DEF To, Put
<1>3. \A d : Advance(To(x, o), d) = Put(x, o, AddressTo(x.new, x.new.address + d))
  BY <1>1 DEF To, Put, Advance, AddressTo
<1>4. \A v : /\ To(SetAddress(x, v), o) = Put(x, o, AddressTo(x.new, v))
             /\ SetFile(To(x, o), v) = Put(x, o, FileTo(x.new, v))
             /\ SetLine(To(x, o), v) = Put(x, o, LineTo(x.new, v))
  BY <1>1 DEF To, Put, SetAddress, SetFile, SetLine, AddressTo, FileTo, LineTo
<1>5. \A d, v : SetLine(Advance(To(x, o), d), v)
                  = Put(x, o, LineTo(AddressTo(x.new, x.new.address + d), v))
  BY <1>1 DEF To, Put, Advance, SetLine, AddressTo, LineTo
<1> QED BY <1>2, <1>3, <1>4, <1>5

\* Instruction k runs where the machine is put behind it with what it makes of
\* the registers, and the row goes out if it appends one.
LEMMA PutRuns ==
  ASSUME NEW prog, ProgramWritten(prog), NEW k \in 1 .. Len(prog.instrs), NEW x, At(prog, x, k),
         NEW t \in Int, prog.instrs[k].op # "end_sequence"
  PROVE  LET y == Put(x, prog.at[k + 1], Moved(prog, x.new, prog.instrs[k]))
         IN /\ prog.instrs[k].op \in RowOps => Ran(prog, x, Row(y, t), t, k)
            /\ prog.instrs[k].op \notin RowOps => Ran(prog, x, y, t, k)
<1> DEFINE i == prog.instrs[k]
           r == Moved(prog, x.new, i)
           y == Put(x, prog.at[k + 1], r)
<1>1. x \in Machines /\ x.new \in Regs /\ x.stopped = FALSE /\ prog.at[k + 1] \in Int
  BY ProgramFacts DEF At, Machines
<1>2. r \in Regs
  <2>1. /\ prog.min_inst \in Int /\ prog.opcode_base \in Int /\ prog.line_range \in Nat \ {0}
        /\ i.n \in Int /\ i.line \in Int
    BY ProgramFacts
  <2> QED BY <1>1, <2>1, MovedType
<1> HIDE DEF r
<1>3. /\ y \in Machines /\ y.offset = prog.at[k + 1] /\ y.new = r
      /\ y.state = x.state /\ y.found = x.found /\ y.stopped = FALSE
  BY <1>1, <1>2, PutType
<1> HIDE DEF y
<1>4. i.op \in RowOps => Ran(prog, x, Row(y, t), t, k)
  BY <1>3, RowIs DEF Ran, r
<1>5. i.op \notin RowOps => Ran(prog, x, y, t, k)
  BY <1>3 DEF Ran, r, Machines
<1> QED BY <1>4, <1>5 DEF y, r

LEMMA InstructionAt ==
  ASSUME NEW prog, ProgramWritten(prog), NEW k \in 1 .. Len(prog.instrs)
  PROVE  /\ WrittenAt(prog, k) /\ prog.bytes[prog.at[k]] \in Int
         /\ prog.at[k] \in 1 .. Len(prog.bytes) /\ prog.at[k] \in Nat /\ prog.at[k + 1] \in Nat
         /\ prog.bytes[prog.at[k] + 0] = prog.bytes[prog.at[k]]
<1>1. k \in DOMAIN prog.instrs /\ DOMAIN prog.bytes = 1 .. Len(prog.bytes)
      /\ prog.at[k] \in Nat /\ prog.at[k + 1] \in Nat
  BY ProgramFacts
<1>2. WrittenAt(prog, k) /\ prog.at[k] \in 1 .. Len(prog.bytes)
  BY <1>1 DEF ProgramWritten
<1>3. prog.bytes[prog.at[k]] \in Int
  <2>1. prog.bytes[prog.at[k]] \in 0 .. 255
    BY <1>2, ProgramFacts
  <2>2. \A v \in 0 .. 255 : v \in Int
    OBVIOUS
  <2> QED BY <2>1, <2>2, Zenon
<1>4. prog.at[k] + 0 = prog.at[k]
  BY <1>1
<1> QED BY <1>1, <1>2, <1>3, <1>4

LEMMA SpecialRuns ==
  ASSUME NEW prog, ProgramWritten(prog), NEW k \in 1 .. Len(prog.instrs), NEW x, At(prog, x, k),
         NEW t \in Int, prog.instrs[k].op = "special"
  PROVE  /\ prog.bytes[x.offset] > 12 /\ prog.bytes[x.offset] >= prog.opcode_base
         /\ Ran(prog, x, Special(prog, x, t, prog.bytes[x.offset]), t, k)
<1> DEFINE i == prog.instrs[k]
           b == prog.bytes[prog.at[k]]
           adjusted == b - prog.opcode_base
<1>1. /\ prog.min_inst \in Int /\ prog.line_base \in Int /\ prog.opcode_base \in Int
      /\ prog.line_range \in Nat \ {0} /\ prog.at[k] \in Nat /\ prog.at[k + 1] \in Nat
      /\ i.n \in Int /\ i.line \in Int
  <2>1. prog.at[k] \in Nat /\ prog.at[k + 1] \in Nat
    BY InstructionAt
  <2>2. i.n \in Int /\ i.line \in Int
    BY ProgramFacts
  <2>3. /\ prog.min_inst \in Int /\ prog.line_base \in Int /\ prog.opcode_base \in Int
        /\ prog.line_range \in Nat \ {0}
    BY ProgramFacts
  <2> QED BY <2>1, <2>2, <2>3
<1>2. /\ prog.at[k + 1] = prog.at[k] + 1 /\ b > 12 /\ b >= prog.opcode_base
      /\ i.n = adjusted \div prog.line_range
      /\ i.line = prog.line_base + (adjusted % prog.line_range)
  <2>1. WrittenAt(prog, k) /\ prog.bytes[prog.at[k] + 0] = b
    BY InstructionAt
  <2>2. prog.at[k + 1] - prog.at[k] = 1
    BY <2>1 DEF WrittenAt
  <2>3. /\ b > 12 /\ b >= prog.opcode_base
        /\ i.n = adjusted \div prog.line_range
        /\ i.line = prog.line_base + (adjusted % prog.line_range)
    BY <2>1 DEF WrittenAt
  <2>4. prog.at[k + 1] = prog.at[k] + 1
    BY <1>1, <2>2
  <2> QED BY <2>3, <2>4
<1>3. x \in Machines /\ x.offset = prog.at[k] /\ x.state = x.new /\ x.stopped = FALSE
  BY DEF At, Machines
<1> DEFINE d == (adjusted \div prog.line_range) * prog.min_inst
           l == x.state.line + prog.line_base + (adjusted % prog.line_range)
           y == Put(x, prog.at[k + 1], Moved(prog, x.new, i))
<1>4. d = i.n * prog.min_inst /\ l = x.new.line + i.line
  <2>1. adjusted % prog.line_range \in Int
    <3>1. b \in Int
      BY InstructionAt, Zenon
    <3>2. \A c \in Int, w \in Nat \ {0} : c % w \in Int
      OBVIOUS
    <3>3. adjusted \in Int
      BY <1>1, <3>1
    <3> HIDE DEF adjusted
    <3> QED BY <1>1, <3>2, <3>3
  <2>2. x.new.line \in Int /\ x.state.line = x.new.line
    BY <1>3 DEF Machines, Regs
  <2>3. \A u, v, w \in Int : u + v + w = u + (v + w)
    OBVIOUS
  <2> HIDE DEF adjusted
  <2>4. l = x.new.line + i.line
    <3> DEFINE rest == adjusted % prog.line_range
    <3>1. rest \in Int /\ prog.line_base \in Int /\ x.new.line \in Int
      BY <1>1, <2>1, <2>2
    <3>2. x.new.line + prog.line_base + rest = x.new.line + (prog.line_base + rest)
      <4> HIDE DEF rest
      <4> QED BY <2>3, <3>1
    <3> QED BY <1>2, <2>2, <3>2
  <2> QED BY <1>2, <2>4, Zenon
<1>5. Moved(prog, x.new, i) = LineTo(AddressTo(x.new, x.new.address + d), l)
  <2>1. Moved(prog, x.new, i) = [x.new EXCEPT !.address = @ + d, !.line = l]
    BY <1>4 DEF Moved
  <2> QED BY <2>1 DEF LineTo, AddressTo
<1>6. Special(prog, x, t, b) = Row(SetLine(Advance(To(x, prog.at[k] + 1), d), l), t)
  BY <1>3, Zenon DEF Special, SetLine
<1> HIDE DEF d, l
<1>7. SetLine(Advance(To(x, prog.at[k + 1]), d), l) = y
  <2>1. y = Put(x, prog.at[k + 1], LineTo(AddressTo(x.new, x.new.address + d), l))
    BY <1>5
  <2>2. SetLine(Advance(To(x, prog.at[k + 1]), d), l)
          = Put(x, prog.at[k + 1], LineTo(AddressTo(x.new, x.new.address + d), l))
    <3>1. x \in Machines /\ x.state = x.new
      BY <1>3
    <3> QED BY <3>1, PutIs
  <2> QED BY <2>1, <2>2
<1>8. Special(prog, x, t, b) = Row(y, t)
  BY <1>2, <1>6, <1>7
<1>9. Ran(prog, x, Row(y, t), t, k)
  BY PutRuns DEF RowOps
<1> QED BY <1>2, <1>3, <1>8, <1>9

-----------------------------------------------------------------------------
(* The opcodes that are not special *)

LEMMA StandardRuns ==
  ASSUME NEW prog, ProgramWritten(prog), NEW k \in 1 .. Len(prog.instrs), NEW x, At(prog, x, k),
         NEW t \in Int,
         prog.instrs[k].op \in {"copy", "advance_pc", "advance_line", "set_file", "set_other",
                                "set_flag", "const_pc", "fixed_pc", "unknown"},
         prog.instrs[k].op = "unknown"
           => prog.lengths[prog.instrs[k].n] = Operands(prog, prog.instrs[k].n)
  PROVE  LET b == prog.bytes[x.offset]
         IN b # 0 /\ (b <= 12 \/ b < prog.opcode_base) /\ Ran(prog, x, Standard(prog, x, t, b), t, k)
<1> DEFINE i == prog.instrs[k]
           p == prog.at[k]
           b == prog.bytes[p]
           r == Moved(prog, x.new, i)
           s == Standard(prog, x, t, b)
           behind(n) == prog.at[k + 1] = p + n
<1>1. /\ prog.min_inst \in Int /\ prog.opcode_base \in Int /\ prog.line_range \in Nat \ {0}
      /\ p \in Int /\ prog.at[k + 1] \in Int /\ i.n \in Int /\ b \in Int
      /\ WrittenAt(prog, k) /\ prog.bytes[p + 0] = b
  <2>1. b \in Int /\ p \in Int /\ prog.at[k + 1] \in Int
        /\ WrittenAt(prog, k) /\ prog.bytes[p + 0] = b
    BY InstructionAt
  <2>2. i.n \in Int /\ prog.min_inst \in Int /\ prog.opcode_base \in Int
        /\ prog.line_range \in Nat \ {0}
    BY ProgramFacts
  <2> QED BY <2>1, <2>2
<1>2. x \in Machines /\ x.state = x.new /\ x.offset = p
  BY DEF At
<1>3. \A n \in Int : prog.at[k + 1] - p = n => behind(n)
  BY <1>1
<1>4. /\ i.op = "copy" => Ran(prog, x, Row(Put(x, prog.at[k + 1], r), t), t, k)
      /\ i.op # "copy" => Ran(prog, x, Put(x, prog.at[k + 1], r), t, k)
  BY PutRuns DEF RowOps
<1> SUFFICES b # 0 /\ (b <= 12 \/ b < prog.opcode_base) /\ Ran(prog, x, s, t, k)
  BY <1>2
<1>5. CASE i.op = "copy"
  <2>1. behind(1) /\ b = 1
    BY <1>1, <1>3, <1>5 DEF WrittenAt
  <2>2. r = x.new
    BY <1>5 DEF Moved
  <2>3. To(x, p + 1) = Put(x, prog.at[k + 1], r)
    BY <1>2, <2>1, <2>2, PutIs
  <2>4. s = Row(To(x, p + 1), t)
    BY <1>2, <2>1 DEF Standard
  <2> QED BY <1>4, <1>5, <2>1, <2>3, <2>4
<1>6. CASE i.op = "advance_pc"
  <2> DEFINE d == prog.min_inst * i.n
  <2>1. behind(2) /\ b = 2 /\ prog.bytes[p + 1] = i.n
    BY <1>1, <1>3, <1>6 DEF WrittenAt
  <2>2. r = AddressTo(x.new, x.new.address + d)
    BY <1>6 DEF Moved, AddressTo
  <2>3. s = Advance(To(x, p + 2), d)
    BY <1>2, <2>1 DEF Standard
  <2> HIDE DEF d, r, s
  <2>4. Advance(To(x, p + 2), d) = Put(x, prog.at[k + 1], r)
    BY <1>2, <2>1, <2>2, PutIs
  <2> QED BY <1>4, <1>6, <2>1, <2>3, <2>4
<1>7. CASE i.op = "advance_line"
  <2> DEFINE v == x.new.line + i.n
  <2>1. behind(2) /\ b = 3 /\ Signed(prog.bytes[p + 1]) = i.n
    BY <1>1, <1>3, <1>7 DEF WrittenAt
  <2>2. r = LineTo(x.new, v)
    BY <1>7 DEF Moved, LineTo
  <2>3. s = SetLine(To(x, p + 2), v)
    BY <1>2, <2>1 DEF Standard, SetLine
  <2> HIDE DEF v, r, s
  <2>4. SetLine(To(x, p + 2), v) = Put(x, prog.at[k + 1], r)
    BY <1>2, <2>1, <2>2, PutIs
  <2> QED BY <1>4, <1>7, <2>1, <2>3, <2>4
<1>8. CASE i.op = "set_file"
  <2>1. behind(2) /\ b = 4 /\ prog.bytes[p + 1] = i.n
    BY <1>1, <1>3, <1>8 DEF WrittenAt
  <2>2. r = FileTo(x.new, i.n)
    BY <1>8 DEF Moved, FileTo
  <2>3. s = SetFile(To(x, p + 2), i.n)
    BY <1>2, <2>1 DEF Standard, SetFile
  <2> HIDE DEF r, s
  <2>4. SetFile(To(x, p + 2), i.n) = Put(x, prog.at[k + 1], r)
    BY <1>2, <2>1, <2>2, PutIs
  <2> QED BY <1>4, <1>8, <2>1, <2>3, <2>4
<1>9. CASE i.op = "set_other"
  <2>1. behind(2) /\ b \in {5, 12}
    <3>1. prog.at[k + 1] - p = 2 /\ b \in {5, 12}
      BY <1>1, <1>9 DEF WrittenAt
    <3> QED BY <1>3, <3>1
  <2>2. r = x.new
    BY <1>9 DEF Moved
  <2>3. s = To(x, p + 2)
    <3>1. CASE b = 5
      BY <1>2, <3>1 DEF Standard
    <3>2. CASE b = 12
      BY <1>2, <3>2 DEF Standard
    <3> QED BY <2>1, <3>1, <3>2
  <2>4. To(x, p + 2) = Put(x, prog.at[k + 1], r)
    BY <1>2, <2>1, <2>2, PutIs
  <2> QED BY <1>4, <1>9, <2>1, <2>3, <2>4
<1>10. CASE i.op = "set_flag"
  <2>1. behind(1) /\ b \in {6, 7, 10, 11}
    <3>1. prog.at[k + 1] - p = 1 /\ b \in {6, 7, 10, 11}
      BY <1>1, <1>10 DEF WrittenAt
    <3> QED BY <1>3, <3>1
  <2>2. r = x.new
    BY <1>10 DEF Moved
  <2>3. s = To(x, p + 1)
    BY <1>2, <2>1 DEF Standard
  <2>4. To(x, p + 1) = Put(x, prog.at[k + 1], r)
    BY <1>2, <2>1, <2>2, PutIs
  <2> QED BY <1>4, <1>10, <2>1, <2>3, <2>4
<1>11. CASE i.op = "const_pc"
  <2> DEFINE d == ((255 - prog.opcode_base) \div prog.line_range) * prog.min_inst
  <2>1. behind(1) /\ b = 8
    BY <1>1, <1>3, <1>11 DEF WrittenAt
  <2>2. r = AddressTo(x.new, x.new.address + d)
    BY <1>11 DEF Moved, AddressTo
  <2>3. s = Advance(To(x, p + 1), d)
    BY <1>2, <2>1 DEF Standard
  <2> HIDE DEF d, r, s
  <2>4. Advance(To(x, p + 1), d) = Put(x, prog.at[k + 1], r)
    BY <1>2, <2>1, <2>2, PutIs
  <2> QED BY <1>4, <1>11, <2>1, <2>3, <2>4
<1>12. CASE i.op = "fixed_pc"
  <2>1. behind(3) /\ b = 9 /\ Bytes(prog, p + 1, 2) = i.n
    BY <1>1, <1>3, <1>12 DEF WrittenAt
  <2>2. r = AddressTo(x.new, x.new.address + i.n)
    BY <1>12 DEF Moved, AddressTo
  <2>3. s = Advance(To(x, p + 3), i.n)
    BY <1>2, <2>1 DEF Standard
  <2> HIDE DEF r, s
  <2>4. Advance(To(x, p + 3), i.n) = Put(x, prog.at[k + 1], r)
    BY <1>2, <2>1, <2>2, PutIs
  <2> QED BY <1>4, <1>12, <2>1, <2>3, <2>4
<1>13. CASE i.op = "unknown"
  <2>1. /\ prog.at[k + 1] - p = 1 + prog.lengths[i.n] /\ b = i.n
        /\ i.n \in 13 .. prog.opcode_base - 1
    BY <1>1, <1>13 DEF WrittenAt
  <2>2. prog.lengths[i.n] \in Int
    <3>1. prog.lengths \in Seq(0 .. 255) /\ Len(prog.lengths) = prog.opcode_base - 1
      BY DEF ProgramWritten
    <3>2. i.n \in 1 .. Len(prog.lengths)
      BY <2>1, <3>1, <1>1
    <3>3. prog.lengths[i.n] \in 0 .. 255
      BY <3>1, <3>2, ElementOfSeq, Zenon
    <3>4. \A v \in 0 .. 255 : v \in Int
      OBVIOUS
    <3> QED BY <3>3, <3>4, Zenon
  <2>3. prog.at[k + 1] = p + 1 + Operands(prog, b)
    <3>1. Operands(prog, b) = prog.lengths[i.n]
      BY <1>13, <2>1, Zenon
    <3>2. \A q, a, n \in Int : a - q = 1 + n => a = q + 1 + n
      OBVIOUS
    <3>3. prog.at[k + 1] = p + 1 + prog.lengths[i.n]
      <4>1. p \in Int /\ prog.at[k + 1] \in Int /\ prog.at[k + 1] - p = 1 + prog.lengths[i.n]
        BY <1>1, <2>1, Zenon
      <4> HIDE DEF p, i
      <4> QED BY <2>2, <3>2, <4>1, Zenon
    <3> QED BY <3>1, <3>3, Zenon
  <2>4. r = x.new
    BY <1>13 DEF Moved
  <2>5. b \notin 1 .. 12 /\ b \in Int /\ b > 12 /\ b < prog.opcode_base
    <3>1. \A q \in Int : \A v \in 13 .. q - 1 : v \notin 1 .. 12 /\ v \in Int /\ v > 12 /\ v < q
      OBVIOUS
    <3>2. prog.opcode_base \in Int /\ b \in 13 .. prog.opcode_base - 1
      BY <1>1, <2>1, Zenon
    <3> HIDE DEF b
    <3> QED BY <3>1, <3>2, Zenon
  <2>6. s = To(x, p + 1 + Operands(prog, b))
    BY <1>2, <2>5 DEF Standard
  <2> HIDE DEF r, s, b
  <2>7. To(x, p + 1 + Operands(prog, b)) = Put(x, prog.at[k + 1], r)
    BY <1>2, <2>3, <2>4, PutIs
  <2>8. Ran(prog, x, s, t, k)
    BY <1>4, <1>13, <2>6, <2>7
  <2> QED BY <2>5, <2>8
<1> QED BY <1>5, <1>6, <1>7, <1>8, <1>9, <1>10, <1>11, <1>12, <1>13

-----------------------------------------------------------------------------
(* The extended opcodes, and every instruction *)

LEMMA ExtendedRuns ==
  ASSUME NEW prog, ProgramWritten(prog), NEW k \in 1 .. Len(prog.instrs), NEW x, At(prog, x, k),
         NEW t \in Int, prog.instrs[k].op \in {"end_sequence", "set_address"}
  PROVE  prog.bytes[x.offset] = 0 /\ Ran(prog, x, Extended(prog, x, t), t, k)
<1> DEFINE i == prog.instrs[k]
           p == prog.at[k]
           r == Moved(prog, x.new, i)
           s == Extended(prog, x, t)
<1>1. /\ p \in Int /\ prog.at[k + 1] \in Int /\ i.n \in Int
      /\ WrittenAt(prog, k) /\ prog.bytes[p + 0] = prog.bytes[p]
  BY InstructionAt, ProgramFacts
<1>2. x \in Machines /\ x.state = x.new /\ x.offset = p /\ x.stopped = FALSE
  BY DEF At, Machines
<1>3. CASE i.op = "end_sequence"
  <2>1. /\ prog.at[k + 1] = p + 3 /\ prog.bytes[p] = 0
        /\ prog.bytes[p + 1] = 1 /\ prog.bytes[p + 2] = 1
    <3>1. prog.at[k + 1] - p = 3
      BY <1>3, <1>1 DEF WrittenAt
    <3> QED BY <1>1, <1>3, <3>1 DEF WrittenAt
  <2>2. r = x.new
    BY <1>3 DEF Moved
  <2> DEFINE z == Row(x, t)
             y == Put(z, p + 3, Registers)
  <2>3. s = y
    <3>1. s = To([z EXCEPT !.new = Registers], p + 3)
      BY <1>2, <2>1 DEF Extended
    <3>2. z \in Machines
      BY <1>2, RowIs
    <3> HIDE DEF s, z
    <3> QED BY <3>1, <3>2 DEF To, Machines, Put
  <2>4. /\ z \in Machines /\ z.state = x.state
        /\ (z.found <=> x.found \/ t = x.new.address)
        /\ (z.stopped <=> x.found \/ t < x.new.address)
    BY <1>2, RowIs
  <2>5. Registers \in Regs
    BY DEF Registers, Regs
  <2>6. /\ y \in Machines /\ y.offset = p + 3 /\ y.new = Registers /\ y.state = z.state
        /\ (y.found <=> z.found) /\ (y.stopped <=> z.stopped)
    <3> HIDE DEF z
    <3>1. p + 3 \in Int /\ z \in Machines
      BY <1>1, <2>4
    <3> QED BY <2>5, <3>1, PutType
  <2> HIDE DEF z, y, s
  <2>7. Ran(prog, x, y, t, k)
    BY <1>3, <2>1, <2>2, <2>4, <2>6 DEF Ran, RowOps
  <2> QED BY <1>2, <2>1, <2>3, <2>7 DEF s
<1>4. CASE i.op = "set_address"
  <2> DEFINE l == prog.bytes[p + 1]
  <2>1. /\ prog.at[k + 1] - p = 2 + l /\ prog.bytes[p] = 0 /\ prog.bytes[p + 2] = 2
        /\ Bytes(prog, p + 3, l - 1) = i.n
    BY <1>1, <1>4 DEF WrittenAt
  <2>2. l \in Int
    <3>1. p + 1 \in 1 .. Len(prog.bytes)
      BY <1>1, <1>4, ProgramFacts DEF WrittenAt
    <3>2. l \in 0 .. 255
      BY <3>1, ProgramFacts
    <3>3. \A v \in 0 .. 255 : v \in Int
      OBVIOUS
    <3> QED BY <3>2, <3>3, Zenon
  <2>3. prog.at[k + 1] = p + 3 + l - 1
    <3>1. p \in Int /\ prog.at[k + 1] \in Int /\ prog.at[k + 1] - p = 2 + l
      BY <1>1, <2>1, Zenon
    <3> HIDE DEF l, p
    <3> QED BY <2>2, <3>1
  <2>4. r = AddressTo(x.new, i.n)
    BY <1>4 DEF Moved, AddressTo
  <2>5. s = To(SetAddress(x, i.n), p + 3 + l - 1)
    BY <1>2, <2>1, <2>2 DEF Extended, SetAddress
  <2>6. To(SetAddress(x, i.n), prog.at[k + 1]) = Put(x, prog.at[k + 1], r)
    <3>1. To(SetAddress(x, i.n), prog.at[k + 1])
            = Put(x, prog.at[k + 1], AddressTo(x.new, i.n))
      BY <1>2, PutIs
    <3> QED BY <2>4, <3>1
  <2>7. Ran(prog, x, Put(x, prog.at[k + 1], r), t, k)
    BY <1>4, PutRuns DEF RowOps
  <2> QED BY <1>2, <2>1, <2>3, <2>5, <2>6, <2>7
<1> QED BY <1>3, <1>4

\* One turn of the loop runs one instruction; the registers become the state
\* unless the row stopped the search.
LEMMA ExecuteRuns ==
  ASSUME NEW prog, ProgramWritten(prog), InStep(prog), NEW k \in 1 .. Len(prog.instrs),
         NEW x, At(prog, x, k), NEW t \in Int
  PROVE  LET y == Execute(prog, x, t)
             r == Moved(prog, x.new, prog.instrs[k])
             row == prog.instrs[k].op \in RowOps
         IN /\ y \in Machines /\ y.offset = prog.at[k + 1]
            /\ y.new = IF prog.instrs[k].op = "end_sequence" THEN Registers ELSE r
            /\ y.found <=> x.found \/ (row /\ t = r.address)
            /\ y.stopped <=> row /\ (x.found \/ t < r.address)
            /\ y.state = IF y.stopped THEN x.state ELSE y.new
<1> DEFINE i == prog.instrs[k]
           b == prog.bytes[x.offset]
           r == Moved(prog, x.new, i)
           row == i.op \in RowOps
           y == Execute(prog, x, t)
<1>1. b \in Int /\ prog.opcode_base \in Int
  BY InstructionAt, ProgramFacts DEF At
<1>2. PICK n : /\ Ran(prog, x, n, t, k)
               /\ y = IF n.stopped THEN n ELSE [n EXCEPT !.state = n.new]
  <2>1. CASE i.op = "special"
    <3>1. b > 12 /\ b >= prog.opcode_base /\ Ran(prog, x, Special(prog, x, t, b), t, k)
      BY <2>1, SpecialRuns
    <3>2. b # 0 /\ ~(b <= 12 \/ b < prog.opcode_base)
      BY <1>1, <3>1
    <3> QED BY <3>1, <3>2, Zenon DEF Execute
  <2>2. CASE i.op \in {"end_sequence", "set_address"}
    <3>1. b = 0 /\ Ran(prog, x, Extended(prog, x, t), t, k)
      BY <2>2, ExtendedRuns
    <3> QED BY <3>1, Zenon DEF Execute
  <2>3. CASE i.op \notin {"special", "end_sequence", "set_address"}
    <3>1. /\ i.op \in {"copy", "advance_pc", "advance_line", "set_file", "set_other",
                       "set_flag", "const_pc", "fixed_pc", "unknown"}
          /\ i.op = "unknown" => prog.lengths[i.n] = Operands(prog, i.n)
      <4>1. i \in Range(prog.instrs)
        BY ProgramFacts DEF Range
      <4>2. /\ i.op # "unknown_extended" /\ i.op # "define_file"
            /\ i.op = "unknown" => prog.lengths[i.n] = Operands(prog, i.n)
        BY <4>1 DEF InStep
      <4>3. WrittenAt(prog, k)
        BY InstructionAt
      <4> QED BY <2>3, <4>2, <4>3 DEF WrittenAt
    <3>2. /\ b # 0 /\ (b <= 12 \/ b < prog.opcode_base)
          /\ Ran(prog, x, Standard(prog, x, t, b), t, k)
      BY <3>1, StandardRuns
    <3> QED BY <3>2, Zenon DEF Execute
  <2> QED BY <2>1, <2>2, <2>3
<1>3. /\ n \in Machines /\ n.offset = prog.at[k + 1] /\ n.state = x.state
      /\ n.new = IF i.op = "end_sequence" THEN Registers ELSE r
      /\ n.found <=> x.found \/ (row /\ t = r.address)
      /\ n.stopped <=> row /\ (x.found \/ t < r.address)
  BY <1>2 DEF Ran
<1>4. CASE n.stopped
  BY <1>2, <1>3, <1>4
<1>5. CASE ~n.stopped
  <2>1. y = [n EXCEPT !.state = n.new]
    BY <1>2, <1>5
  <2>2. y \in Machines /\ y.offset = n.offset /\ y.new = n.new /\ y.found = n.found
        /\ y.stopped = n.stopped /\ y.state = n.new
    <3> HIDE DEF y
    <3> QED BY <1>3, <2>1 DEF Machines
  <2> HIDE DEF y, r, row
  <2> QED BY <1>3, <1>5, <2>2 DEF y, r, row
<1> QED BY <1>4, <1>5

-----------------------------------------------------------------------------
(* The rows *)

LEMMA RegistersType ==
  ASSUME NEW prog, ProgramWritten(prog)
  PROVE  /\ \A k \in 0 .. Len(prog.instrs) : RegistersAfter(prog)[k] \in Regs
         /\ \A k \in 1 .. Len(prog.instrs) : RowAt(prog, k) \in Regs
<1> DEFINE after == RegistersAfter(prog)
           N == Len(prog.instrs)
           T == {k \in 0 .. N : after[k] \notin Regs}
<1>1. /\ N \in Nat /\ prog.min_inst \in Int /\ prog.opcode_base \in Int
      /\ prog.line_range \in Nat \ {0}
      /\ \A k \in 1 .. N : prog.instrs[k].n \in Int /\ prog.instrs[k].line \in Int
  BY ProgramFacts
<1>2. /\ after[0] = Registers
      /\ \A k \in 1 .. N :
           after[k] = IF prog.instrs[k].op = "end_sequence" THEN Registers ELSE RowAt(prog, k)
  BY <1>1, RegistersAre
<1>3. Registers \in Regs
  BY DEF Registers, Regs
<1> HIDE DEF N, after
<1>4. \A k \in 1 .. N : after[k - 1] \in Regs => RowAt(prog, k) \in Regs
  BY <1>1, MovedType DEF RowAt, after
<1>5. T = {}
  <2> SUFFICES ASSUME T # {} PROVE FALSE
    OBVIOUS
  <2>1. PICK k \in T : \A j \in T : k <= j
    <3>1. T \subseteq Nat
      OBVIOUS
    <3> QED BY <3>1, LeastMember, Zenon
  <2>2. k \in 0 .. N /\ after[k] \notin Regs
    BY <2>1
  <2>3. k \in 1 .. N /\ k - 1 \in 0 .. N /\ k - 1 < k
    BY <1>1, <1>2, <1>3, <2>2
  <2>4. after[k - 1] \in Regs
    BY <2>1, <2>3
  <2> QED BY <1>2, <1>3, <1>4, <2>2, <2>3, <2>4
<1>6. \A k \in 1 .. N : k - 1 \in 0 .. N
  BY <1>1
<1> QED BY <1>4, <1>5, <1>6 DEF N, after

\* The file in the registers is one of the table.
LEMMA FilesListed ==
  ASSUME NEW prog, ProgramWritten(prog), 1 \in DOMAIN prog.files
  PROVE  \A k \in 0 .. Len(prog.instrs) : RegistersAfter(prog)[k].file \in DOMAIN prog.files
<1> DEFINE after == RegistersAfter(prog)
           N == Len(prog.instrs)
           T == {k \in 0 .. N : after[k].file \notin DOMAIN prog.files}
<1>1. N \in Nat
  BY ProgramFacts
<1>2. /\ after[0] = Registers
      /\ \A k \in 1 .. N :
           after[k] = IF prog.instrs[k].op = "end_sequence" THEN Registers ELSE RowAt(prog, k)
  BY <1>1, RegistersAre
<1>3. Registers.file \in DOMAIN prog.files
  BY DEF Registers
<1> HIDE DEF N, after
<1>4. \A k \in 1 .. N :
        after[k - 1].file \in DOMAIN prog.files => RowAt(prog, k).file \in DOMAIN prog.files
  <2> TAKE k \in 1 .. N
  <2> DEFINE i == prog.instrs[k]
             r == after[k - 1]
  <2>1. r \in Regs
    <3>1. k - 1 \in 0 .. N
      BY <1>1
    <3> QED BY <3>1, RegistersType DEF N, after
  <2>2. i.op = "set_file" => i.n \in DOMAIN prog.files
    <3>1. WrittenAt(prog, k)
      BY InstructionAt DEF N
    <3> QED BY <3>1 DEF WrittenAt
  <2>3. Moved(prog, r, i).file = IF i.op = "set_file" THEN i.n ELSE r.file
    <3> HIDE DEF i, r
    <3> QED BY <2>1 DEF Moved, Regs
  <2> QED BY <2>2, <2>3 DEF RowAt, after
<1>5. T = {}
  <2> SUFFICES ASSUME T # {} PROVE FALSE
    OBVIOUS
  <2>1. PICK k \in T : \A j \in T : k <= j
    <3>1. T \subseteq Nat
      OBVIOUS
    <3> QED BY <3>1, LeastMember, Zenon
  <2>2. k \in 0 .. N /\ after[k].file \notin DOMAIN prog.files
    BY <2>1
  <2>3. k \in 1 .. N /\ k - 1 \in 0 .. N /\ k - 1 < k
    BY <1>1, <1>2, <1>3, <2>2
  <2>4. after[k - 1].file \in DOMAIN prog.files
    BY <2>1, <2>3
  <2> QED BY <1>2, <1>3, <1>4, <2>2, <2>3, <2>4
<1> QED BY <1>5 DEF N, after

-----------------------------------------------------------------------------
(* The search for the rows of an address *)

\* Row p is the last one up to instruction q.
LastRow(prog, p, q) ==
  p \in Rows(prog) /\ p <= q /\ \A j \in Rows(prog) : j <= q => j <= p

\* The search for address t stands behind instruction k.  All instructions up to
\* q have become the state: up to k, or up to the one in front of k when k is the
\* row that stopped it.
Searched(prog, x, t, q) ==
  /\ x.state = RegistersAfter(prog)[q]
  /\ x.found => \E f : /\ LastRow(prog, f, q) /\ RowAt(prog, f).address = t
                       /\ \A j \in Rows(prog) : j < f => RowAt(prog, j).address < t
  /\ ~x.found => \A j \in Rows(prog) : j <= q => RowAt(prog, j).address < t

Reached(prog, x, t, k) ==
  /\ x \in Machines /\ x.offset = prog.at[k + 1] /\ x.new = RegistersAfter(prog)[k]
  /\ x.stopped => /\ k \in Rows(prog) /\ Searched(prog, x, t, k - 1)
                  /\ ~x.found => t < RowAt(prog, k).address
  /\ ~x.stopped => Searched(prog, x, t, k)

LEMMA ReachedStep ==
  ASSUME NEW prog, ProgramWritten(prog), InStep(prog), NEW t \in Int, NEW x,
         NEW k \in 0 .. Len(prog.instrs), Reached(prog, x, t, k), ~AtEnd(prog, x)
  PROVE  k + 1 \in 0 .. Len(prog.instrs) /\ Reached(prog, Execute(prog, x, t), t, k + 1)
<1> DEFINE N == Len(prog.instrs)
           q == k + 1
           i == prog.instrs[q]
           y == Execute(prog, x, t)
           row == i.op \in RowOps
           r == RowAt(prog, q)
<1>1. /\ N \in Nat /\ DOMAIN prog.instrs = 1 .. N /\ Len(prog.bytes) \in Nat
      /\ prog.at[N + 1] = Len(prog.bytes) + 1
  <2>1. N \in Nat /\ DOMAIN prog.instrs = 1 .. N /\ Len(prog.bytes) \in Nat
    BY ProgramFacts
  <2>2. prog.at[N + 1] = Len(prog.bytes) + 1
    BY DEF ProgramWritten
  <2> QED BY <2>1, <2>2
<1>2. q \in 1 .. N /\ k \in Int /\ q = k + 1 /\ q - 1 = k
  <2>1. x.offset = prog.at[k + 1] /\ ~(x.offset > Len(prog.bytes))
    BY DEF Reached, AtEnd
  <2>2. k # N
    BY <1>1, <2>1
  <2> QED BY <1>1, <2>2
<1>3. /\ x \in Machines /\ x.stopped = FALSE /\ x.offset = prog.at[q]
      /\ x.new = RegistersAfter(prog)[k] /\ Searched(prog, x, t, k) /\ x.state = x.new
  BY DEF Reached, AtEnd, Searched, Machines
<1>4. r = Moved(prog, x.new, i) /\ r \in Regs
  BY <1>2, <1>3, RegistersType DEF RowAt
<1>5. /\ y \in Machines /\ y.offset = prog.at[q + 1]
      /\ y.new = IF i.op = "end_sequence" THEN Registers ELSE r
      /\ y.found <=> x.found \/ (row /\ t = r.address)
      /\ y.stopped <=> row /\ (x.found \/ t < r.address)
      /\ y.state = IF y.stopped THEN x.state ELSE y.new
  <2>1. At(prog, x, q)
    BY <1>3 DEF At
  <2> QED BY <1>2, <1>4, <2>1, ExecuteRuns
<1>6. y.new = RegistersAfter(prog)[q]
  BY <1>1, <1>2, <1>5, RegistersAre
<1>7. /\ \A j \in Rows(prog) : j \in Int /\ j \in 1 .. N
      /\ q \in Rows(prog) <=> row
  BY <1>1, <1>2 DEF Rows, RowOps
<1> HIDE DEF N, i, y, row, r
<1>8. CASE y.stopped
  <2>1. /\ x.state = RegistersAfter(prog)[k] /\ y.state = x.state
        /\ row /\ (y.found <=> x.found) /\ (~y.found => t < r.address)
    BY <1>3, <1>4, <1>5, <1>8 DEF Regs
  <2>2. Searched(prog, y, t, k)
    BY <1>3, <2>1 DEF Searched
  <2> HIDE DEF q
  <2>3. Reached(prog, y, t, q)
    BY <1>2, <1>5, <1>6, <1>7, <1>8, <2>1, <2>2 DEF Reached, r
  <2> QED BY <1>2, <2>3 DEF q, N, y
<1>9. CASE ~y.stopped
  <2>1. y.state = RegistersAfter(prog)[q]
    BY <1>5, <1>6, <1>9
  <2>2. CASE row
    <3>1. x.found = FALSE /\ ~(t < r.address) /\ (y.found <=> t = r.address)
      BY <1>3, <1>5, <1>9, <2>2 DEF Machines
    <3>2. \A j \in Rows(prog) : j <= k => RowAt(prog, j).address < t
      BY <1>3, <3>1 DEF Searched
    <3>3. \A j \in Rows(prog) : (j <= q => j = q \/ j <= k) /\ (j < q => j <= k)
      BY <1>2, <1>7
    <3>4. LastRow(prog, q, q) /\ \A p : LastRow(prog, p, q) => p = q
      BY <1>2, <1>7, <2>2, <3>3 DEF LastRow
    <3>5. y.found => \E f : /\ LastRow(prog, f, q) /\ RowAt(prog, f).address = t
                            /\ \A j \in Rows(prog) : j < f => RowAt(prog, j).address < t
      BY <3>1, <3>2, <3>3, <3>4 DEF r
    <3>6. ~y.found => \A j \in Rows(prog) : j <= q => RowAt(prog, j).address < t
      <4>1. ~y.found => r.address < t
        BY <1>4, <3>1 DEF Regs
      <4> QED BY <3>2, <3>3, <4>1 DEF r
    <3> HIDE DEF q
    <3>7. Searched(prog, y, t, q)
      BY <2>1, <3>5, <3>6 DEF Searched
    <3>8. Reached(prog, y, t, q)
      BY <1>5, <1>6, <1>9, <3>7 DEF Reached
    <3> QED BY <1>2, <3>8 DEF q, N, y
  <2>3. CASE ~row
    <3>1. (y.found <=> x.found) /\ y.state = r
      BY <1>5, <1>7, <1>9, <2>3 DEF row, RowOps
    <3>2. \A j \in Rows(prog) : j <= q <=> j <= k
      BY <1>2, <1>7, <2>3
    <3>3. \A p : LastRow(prog, p, q) <=> LastRow(prog, p, k)
      BY <3>2 DEF LastRow
    <3> HIDE DEF q
    <3>4. Searched(prog, y, t, q)
      BY <1>3, <2>1, <3>1, <3>2, <3>3 DEF Searched
    <3>5. Reached(prog, y, t, q)
      BY <1>5, <1>6, <1>9, <3>4 DEF Reached
    <3> QED BY <1>2, <3>5 DEF q, N, y
  <2> QED BY <2>2, <2>3
<1> QED BY <1>8, <1>9


LEMMA LastRowExists ==
  ASSUME NEW prog, ProgramWritten(prog), NEW q \in Nat, NEW w \in Rows(prog), w <= q
  PROVE  \E p : LastRow(prog, p, q) /\ w <= p
<1> DEFINE D == {d \in 0 .. q : q - d \in Rows(prog)}
<1>1. \A j \in Rows(prog) : j \in Nat
  BY ProgramFacts DEF Rows
<1>2. \A j \in Rows(prog) : j <= q => q - j \in D
  <2> TAKE j \in Rows(prog)
  <2>1. q - (q - j) = j /\ (j <= q => q - j \in 0 .. q)
    BY <1>1
  <2> QED BY <2>1
<1>3. PICK d \in D : \A e \in D : d <= e
  <2>1. q - w \in D
    BY <1>2
  <2>2. D \subseteq Nat
    OBVIOUS
  <2> QED BY <2>1, <2>2, LeastMember, Zenon
<1>4. q - d \in Rows(prog) /\ q - d <= q /\ d \in Int
  BY <1>3
<1>5. \A j \in Rows(prog) : j <= q => j <= q - d
  BY <1>1, <1>2, <1>3, <1>4
<1> QED BY <1>4, <1>5 DEF LastRow

\* The search ends with the registers that a row of the address has left: the
\* exact row when one was found, else the last one in front of the row that is
\* behind the address.
LEMMA ReachedEnd ==
  ASSUME NEW prog, ProgramWritten(prog), target \in Int, Determined(prog), NEW x,
         NEW k \in 0 .. Len(prog.instrs), Reached(prog, x, target, k), AtEnd(prog, x)
  PROVE  x.state \in RegistersLeft(prog)
<1> DEFINE N == Len(prog.instrs)
           a(j) == RowAt(prog, j).address
<1>1. /\ N \in Nat /\ DOMAIN prog.instrs = 1 .. N /\ Len(prog.bytes) \in Nat
      /\ prog.at[N + 1] = Len(prog.bytes) + 1
      /\ \A j \in 1 .. N : prog.at[j] \in 1 .. Len(prog.bytes)
  <2>1. N \in Nat /\ DOMAIN prog.instrs = 1 .. N /\ Len(prog.bytes) \in Nat
    BY ProgramFacts
  <2>2. prog.at[N + 1] = Len(prog.bytes) + 1
    BY DEF ProgramWritten
  <2>3. \A j \in 1 .. N : prog.at[j] \in 1 .. Len(prog.bytes)
    BY InstructionAt
  <2> QED BY <2>1, <2>2, <2>3
<1>2. \A j \in Rows(prog) : j \in Nat /\ j \in 1 .. N /\ a(j) \in Int
  BY <1>1, RegistersType DEF Rows, Regs
<1>3. PICK w \in RowsOf(prog) : TRUE
  BY DEF Determined
<1>4. /\ w \in Rows(prog) /\ a(w) <= target
      /\ \E j \in Rows(prog) : target < a(j)
  BY DEF RowsOf
<1>5. \A j, l \in Rows(prog) : j < l => a(j) <= a(l)
  BY DEF Determined, Ascending
<1> HIDE DEF N, a
<1>6. ASSUME NEW q \in Nat, q <= N, q + 1 \in Rows(prog), Searched(prog, x, target, q),
             NEW p \in RowsOf(prog), LastRow(prog, p, q)
      PROVE  x.state \in RegistersLeft(prog)
  <2>1. p \in Nat /\ p \in 1 .. N /\ p <= q /\ \A j \in Rows(prog) : j <= q => j <= p
    BY <1>2, <1>6 DEF LastRow
  <2>2. q \in DOMAIN prog.instrs
    BY <1>1, <1>6, <2>1
  <2>3. x.state = RegistersAfter(prog)[q]
    BY <1>6 DEF Searched
  <2> QED BY <1>6, <2>1, <2>2, <2>3 DEF RegistersLeft
<1>7. CASE x.stopped
  <2> DEFINE q == k - 1
  <2>1. /\ k \in Rows(prog) /\ Searched(prog, x, target, q)
        /\ ~x.found => target < a(k)
    BY <1>7 DEF Reached, a
  <2>2. q \in Nat /\ q <= N /\ k \in Nat /\ q = k - 1 /\ q + 1 \in Rows(prog)
    BY <1>1, <1>2, <2>1
  <2> HIDE DEF q
  <2>3. CASE x.found
    <3>1. PICK f : /\ LastRow(prog, f, q) /\ a(f) = target
                   /\ \A j \in Rows(prog) : j < f => a(j) < target
      BY <2>1, <2>3 DEF Searched, a
    <3>2. f \in RowsOf(prog)
      BY <1>2, <1>4, <3>1 DEF RowsOf, LastRow, a
    <3> QED BY <1>6, <2>1, <2>2, <3>1, <3>2
  <2>4. CASE ~x.found
    <3>1. target < a(k) /\ \A j \in Rows(prog) : j <= q => a(j) < target
      BY <2>1, <2>4 DEF Searched, a
    <3>2. \A j \in Rows(prog) : a(j) <= target => j <= q
      <4> TAKE j \in Rows(prog)
      <4>1. (j # k /\ ~(k < j)) \/ target < a(j)
        BY <1>2, <1>5, <2>1, <3>1
      <4> QED BY <1>2, <2>1, <2>2, <4>1
    <3>3. PICK p : LastRow(prog, p, q) /\ w <= p
      BY <1>4, <2>2, <3>2, LastRowExists
    <3>4. p \in RowsOf(prog)
      <4>1. p \in Rows(prog) /\ a(p) < target /\ a(p) \in Int /\ a(p) <= target
        BY <1>2, <3>1, <3>3 DEF LastRow
      <4>2. \A j \in Rows(prog) : a(j) <= target => a(j) <= a(p)
        <5> TAKE j \in Rows(prog)
        <5>1. a(j) <= target => j <= p
          BY <3>2, <3>3 DEF LastRow
        <5>2. j = p \/ j < p \/ ~(j <= p)
          BY <1>2, <4>1
        <5> QED BY <1>2, <1>5, <4>1, <5>1, <5>2
      <4> QED BY <1>4, <4>1, <4>2 DEF RowsOf, a
    <3> QED BY <1>6, <2>1, <2>2, <3>3, <3>4
  <2> QED BY <2>3, <2>4
<1>8. CASE ~x.stopped
  <2>1. x.offset = prog.at[k + 1] /\ x.offset > Len(prog.bytes) /\ Searched(prog, x, target, k)
    BY <1>8 DEF Reached, AtEnd
  <2>2. k = N
    <3>1. k \in 0 .. N
      BY DEF N
    <3>2. k # N => k + 1 \in 1 .. N
      BY <1>1, <3>1
    <3>3. \A j \in 1 .. N : ~(prog.at[j] > Len(prog.bytes))
      BY <1>1
    <3> QED BY <2>1, <3>2, <3>3
  <2>3. PICK j \in Rows(prog) : target < a(j)
    BY <1>4
  <2>4. CASE x.found
    <3>1. PICK f : /\ LastRow(prog, f, k) /\ a(f) = target
                   /\ \A l \in Rows(prog) : l < f => a(l) < target
      BY <2>1, <2>4 DEF Searched, a
    <3> QED BY <1>1, <1>2, <2>2, <2>3, <3>1 DEF LastRow
  <2>5. CASE ~x.found
    <3>1. \A l \in Rows(prog) : l <= k => a(l) < target
      BY <2>1, <2>5 DEF Searched, a
    <3> QED BY <1>1, <1>2, <2>2, <2>3, <3>1
  <2> QED BY <2>4, <2>5
<1> QED BY <1>7, <1>8


LineFields == {"line", "filename", "dirname"}

\* The file in s is the one with number f of the program's table.
Named(s, prog, f) ==
  /\ "filename" \in DOMAIN s => s.filename \in FileName(prog, f)
  /\ \A n \in FileName(prog, f) :
       /\ "filename" \in DOMAIN s /\ s.filename = n
       /\ "dirname" \in DOMAIN s <=> "dirname" \in DOMAIN FileFields(prog, n)
       /\ "dirname" \in DOMAIN s => s.dirname = FileFields(prog, n).dirname

(* The line machine has reached an instruction, and what is found when it ends *)
(* is the line and the file that a row of the address has left.                *)
Lining ==
  /\ target \in Int
  /\ pc # "done" => LineFields \cap DOMAIN symbol = {}
  /\ pc = "rows" /\ InStep(U.line) =>
       \E k \in 0 .. Len(U.line.instrs) : Reached(U.line, m, target, k)
  /\ pc = "done" /\ "line" \in DOMAIN symbol /\ Determined(U.line) =>
       \E r \in RegistersLeft(U.line) : /\ symbol.line = r.line
                                        /\ Named(symbol, U.line, r.file)

LEMMA LineIsWritten ==
  ASSUME ProgramsWritten, IInv, InUnit PROVE ProgramWritten(U.line) /\ TablesWritten(U.line)
BY DEF ProgramsWritten, IInv, U, Range

LEMMA InitLining == ASSUME Init PROVE Lining
<1>1. target \in Int
  <2>1. PICK l \in Lookups : target \in l.targets
    BY DEF Init
  <2> QED BY <2>1, LookupAssumption
<1>2. DOMAIN symbol = {} /\ pc = "aranges"
  BY DEF Init
<1> QED BY <1>1, <1>2 DEF Lining

LEMMA StartReached ==
  ASSUME NEW prog, ProgramWritten(prog), NEW t
  PROVE  Reached(prog, Machine(prog), t, 0)
<1> DEFINE x == Machine(prog)
<1>1. /\ Len(prog.instrs) \in Nat /\ prog.at[1] \in Nat /\ prog.first = prog.at[1]
      /\ \A j \in Rows(prog) : j \in Nat /\ ~(j <= 0)
  <2>1. Len(prog.instrs) \in Nat /\ DOMAIN prog.instrs = 1 .. Len(prog.instrs)
        /\ \A k \in 1 .. Len(prog.instrs) + 1 : prog.at[k] \in Nat
    BY ProgramFacts
  <2>2. prog.first = prog.at[1]
    BY DEF ProgramWritten
  <2> QED BY <2>1, <2>2 DEF Rows
<1>2. RegistersAfter(prog)[0] = Registers
  BY <1>1, RegistersAre
<1>3. /\ x \in Machines /\ x.offset = prog.at[0 + 1] /\ x.new = Registers /\ x.state = Registers
      /\ x.found = FALSE /\ x.stopped = FALSE
  <2>1. Registers \in Regs
    BY DEF Registers, Regs
  <2> QED BY <1>1, <2>1 DEF Machine, Machines
<1> HIDE DEF x
<1>4. Searched(prog, x, t, 0)
  BY <1>1, <1>2, <1>3 DEF Searched, LastRow
<1> QED BY <1>2, <1>3, <1>4 DEF Reached, x

\* The fields that are added are those of the state of the machine.
LEMMA TakeLineLines ==
  ASSUME ProgramsWritten, IInv, Lining, TakeLine PROVE Lining'
<1> DEFINE prog == U.line
           line == With(symbol, [line |-> m.state.line])
           fields == {FileFields(prog, n) : n \in FileName(prog, m.state.file)}
<1>1. /\ pc = "rows" /\ InUnit /\ AtEnd(prog, m) /\ pc' = "done" /\ target' = target
      /\ U' = U /\ target \in Int /\ LineFields \cap DOMAIN symbol = {}
      /\ symbol' = IF fields = {} THEN line ELSE With(line, CHOOSE f \in fields : TRUE)
  BY DEF TakeLine, Lining, InUnit, U
<1>2. SUFFICES ASSUME Determined(prog)
               PROVE  \E r \in RegistersLeft(prog) : /\ symbol'.line = r.line
                                                     /\ Named(symbol', prog, r.file)
  <2>1. /\ RegistersLeft(prog)' = RegistersLeft(prog)
        /\ Determined(prog)' <=> Determined(prog)
    BY <1>1 DEF RegistersLeft, RowsOf, Determined
  <2> HIDE DEF line, fields
  <2> QED BY <1>1, <2>1 DEF Lining
<1>3. m.state \in RegistersLeft(prog)
  <2>1. InStep(prog)
    BY <1>2 DEF Determined
  <2>2. PICK k \in 0 .. Len(prog.instrs) : Reached(prog, m, target, k)
    BY <1>1, <2>1 DEF Lining
  <2>3. ProgramWritten(prog)
    BY <1>1, LineIsWritten
  <2> HIDE DEF prog
  <2> QED BY <1>1, <1>2, <2>2, <2>3, ReachedEnd
<1>4. /\ "line" \in DOMAIN line /\ line.line = m.state.line
      /\ "filename" \notin DOMAIN line /\ "dirname" \notin DOMAIN line
  BY <1>1 DEF With, LineFields
<1> HIDE DEF line
<1>5. \A n : FileName(prog, m.state.file) = {} \/ \E o : FileName(prog, m.state.file) = {o}
  BY Zenon DEF FileName
<1>6. \A f : LET s == With(line, f)
             IN /\ "line" \in DOMAIN s /\ s.line = line.line
                /\ "filename" \in DOMAIN s <=> "filename" \in DOMAIN f
                /\ "filename" \in DOMAIN s => s.filename = f.filename
                /\ "dirname" \in DOMAIN s <=> "dirname" \in DOMAIN f
                /\ "dirname" \in DOMAIN s => s.dirname = f.dirname
  BY <1>4 DEF With
<1>7. CASE FileName(prog, m.state.file) = {}
  BY <1>1, <1>3, <1>4, <1>7 DEF Named
<1>8. CASE \E o : FileName(prog, m.state.file) = {o}
  <2>1. PICK o : FileName(prog, m.state.file) = {o}
    BY <1>8
  <2> DEFINE g == FileFields(prog, o)
  <2>2. fields = {g}
    BY <2>1
  <2>3. symbol' = With(line, g)
    BY <1>1, <2>2
  <2>4. "filename" \in DOMAIN g /\ g.filename = o
    BY DEF FileFields, With
  <2> HIDE DEF g
  <2>5. symbol'.line = m.state.line
    BY <1>4, <1>6, <2>3
  <2>6. Named(symbol', prog, m.state.file)
    BY <1>1, <1>6, <2>1, <2>3, <2>4 DEF Named, g
  <2> QED BY <1>3, <2>5, <2>6
<1> QED BY <1>5, <1>7, <1>8

LEMMA NextLining ==
  ASSUME ProgramsWritten, IInv, Lining, [Next]_vars PROVE Lining'
<1>1. CASE FindUnit \/ FirstEntry \/ VisitEntry \/ NextEntry \/ FollowOrigin \/ FollowSpecification
  <2>1. UNCHANGED << target, symbol >> /\ pc # "done" /\ pc' \notin {"rows", "done"}
    BY <1>1 DEF FindUnit, FirstEntry, VisitEntry, NextEntry, FollowOrigin, FollowSpecification,
                ReadEntry
  <2> QED BY <2>1 DEF Lining
<1>2. CASE VisitUnit \/ TakeName
  <2>1. /\ UNCHANGED target /\ pc # "done" /\ pc' \notin {"rows", "done"}
        /\ LineFields \cap DOMAIN symbol = {}
    BY <1>2 DEF VisitUnit, TakeName, Lining
  <2>2. LineFields \cap DOMAIN symbol' = {}
    BY <1>2, <2>1 DEF VisitUnit, TakeName, With, LineFields
  <2> QED BY <2>1, <2>2 DEF Lining
<1>3. CASE StartRows
  <2>1. /\ UNCHANGED << target, symbol >> /\ pc = "line" /\ InUnit /\ U' = U
        /\ LineFields \cap DOMAIN symbol = {}
    BY <1>3 DEF StartRows, InUnit, Lining, U
  <2>2. CASE pc' = "rows" /\ m' = Machine(U.line)
    <3>1. Reached(U.line, m', target, 0) /\ 0 \in 0 .. Len(U.line.instrs)
      <4>1. ProgramWritten(U.line)
        BY <2>1, LineIsWritten
      <4>2. Len(U.line.instrs) \in Nat
        BY <4>1, ProgramFacts
      <4> QED BY <2>2, <4>1, <4>2, StartReached
    <3>2. (\E k \in 0 .. Len(U.line.instrs) : Reached(U.line, m, target, k))'
      BY <2>1, <3>1
    <3> QED BY <2>1, <2>2, <3>2 DEF Lining
  <2>3. CASE pc' = "done"
    BY <2>1, <2>3 DEF Lining, LineFields
  <2> QED BY <1>3, <2>2, <2>3 DEF StartRows
<1>4. CASE ReadRow
  <2>1. /\ UNCHANGED << target, symbol >> /\ pc = "rows" /\ pc' = "rows" /\ InUnit /\ U' = U
        /\ ~AtEnd(U.line, m) /\ m' = Execute(U.line, m, target) /\ target \in Int
    BY <1>4 DEF ReadRow, InUnit, Lining, U
  <2>2. ASSUME InStep(U.line)
        PROVE  \E k \in 0 .. Len(U.line.instrs) : Reached(U.line, m', target, k)
    <3>1. PICK k \in 0 .. Len(U.line.instrs) : Reached(U.line, m, target, k)
      BY <2>1, <2>2 DEF Lining
    <3>2. ProgramWritten(U.line)
      BY <2>1, LineIsWritten
    <3>3. k + 1 \in 0 .. Len(U.line.instrs)
          /\ Reached(U.line, Execute(U.line, m, target), target, k + 1)
      BY <2>1, <2>2, <3>1, <3>2, ReachedStep
    <3> QED BY <2>1, <3>3
  <2>3. InStep(U.line)' => (\E k \in 0 .. Len(U.line.instrs) : Reached(U.line, m, target, k))'
    BY <2>1, <2>2
  <2> QED BY <2>1, <2>3 DEF Lining
<1>5. CASE UNCHANGED vars
  <2>1. UNCHANGED << target, symbol, pc, m >> /\ U' = U
    BY <1>5 DEF vars, U
  <2>2. /\ RegistersLeft(U.line)' = RegistersLeft(U.line)
        /\ Determined(U.line)' <=> Determined(U.line)
        /\ \A f : Named(symbol, U.line, f)' <=> Named(symbol, U.line, f)
    BY <2>1 DEF RegistersLeft, RowsOf, Determined, Named
  <2> QED BY <2>1, <2>2 DEF Lining
<1> QED BY <1>1, <1>2, <1>3, <1>4, <1>5, TakeLineLines DEF Next

LEMMA LiningInvariance == ASSUME ProgramsWritten PROVE Spec => []Lining
<1>1. ASSUME IInv, Lining, [Next]_vars PROVE Lining'
  BY <1>1, NextLining
<1> QED BY <1>1, InitLining, Invariance, PTL DEF Spec

\* The line that is found is the one the registers hold in front of the row behind
\* the address, in every program whose rows ascend and whose opcodes the code
\* knows or can pass over: the line of the row of the address, and what the
\* instructions behind that row have made of it (dwarf2-line.c:414).
THEOREM LinesAreRight ==
  ASSUME ProgramsWritten PROVE Spec => []LineRight
<1>1. Lining => LineRight
  BY DEF Lining, LineRight
<1> QED BY <1>1, LiningInvariance, PTL


\* The tables lead from the number of a file to its name and its directory's.
LEMMA FilesFound ==
  ASSUME NEW prog, ProgramWritten(prog), TablesWritten(prog), prog.dirs # << >>
  PROVE  /\ 1 \in DOMAIN prog.files
         /\ \A f \in DOMAIN prog.files :
              \E n : /\ FileName(prog, f) = {n} /\ NameAt(prog, prog.files[f].name, n)
                     /\ DirectoryOf(prog, n) = prog.files[f].dir
                     /\ prog.files[f].dir # 0 =>
                          \E d : /\ DirectoryName(prog, prog.files[f].dir) = {d}
                                 /\ NameAt(prog, prog.dirs[prog.files[f].dir], d)
<1> DEFINE bs == prog.bytes
           D  == Len(prog.dirs)
           names == [f \in DOMAIN prog.files |-> prog.files[f].name]
           N  == Len(names)
<1>1. /\ NamesWritten(prog, names, prog.files_at, NumbersOfFile)
      /\ NamesWritten(prog, prog.dirs, prog.dirs_at, 0)
      /\ prog.dirs_at[1] = 1 /\ prog.files_at[1] = Last(prog.dirs_at) + 1
      /\ \A f \in DOMAIN prog.files :
           /\ prog.files[f].dir \in 0 .. D
           /\ bs[prog.files_at[f] + Len(names[f]) + 1] = prog.files[f].dir
  BY DEF TablesWritten
<1>2. bs \in Seq(0 .. 255) /\ 0 \in Nat /\ NumbersOfFile \in Nat
  BY DEF ProgramWritten, NumbersOfFile
<1>3. /\ LastString(bs, 1, 0) = D
      /\ \A i \in DOMAIN prog.dirs :
           /\ StringsAt(bs, 1, 0)[i] = prog.dirs_at[i]
           /\ EndOfString(bs, prog.dirs_at[i]) = prog.dirs_at[i] + Len(prog.dirs[i]) + 1
  BY <1>1, <1>2, NamesFound
<1>4. /\ LastString(bs, prog.files_at[1], NumbersOfFile) = N
      /\ \A i \in DOMAIN names :
           /\ StringsAt(bs, prog.files_at[1], NumbersOfFile)[i] = prog.files_at[i]
           /\ EndOfString(bs, prog.files_at[i]) = prog.files_at[i] + Len(names[i]) + 1
  <2> HIDE DEF names
  <2> QED BY <1>1, <1>2, NamesFound
<1>5. /\ D \in Nat \ {0} /\ DOMAIN prog.dirs = 1 .. D
      /\ N \in Nat \ {0} /\ DOMAIN names = 1 .. N
  <2>1. /\ prog.dirs \in Seq(Seq(1 .. 255)) /\ prog.dirs # << >>
        /\ names \in Seq(Seq(1 .. 255)) /\ names # << >>
    BY <1>1 DEF NamesWritten
  <2> HIDE DEF names
  <2> QED BY <2>1, EmptySeq, LenProperties
<1>6. DOMAIN names = DOMAIN prog.files /\ \A f \in DOMAIN prog.files : names[f] = prog.files[f].name
  OBVIOUS
<1> HIDE DEF names
<1>7. DirectoriesEnd(bs) = prog.files_at[1]
  <2>1. D \in DOMAIN prog.dirs
    BY <1>5
  <2>2. /\ prog.dirs_at \in Seq(Nat \ {0}) /\ Len(prog.dirs_at) = D + 1
        /\ prog.dirs_at[D + 1] = prog.dirs_at[D] + Len(prog.dirs[D]) + 1 + 0
    BY <1>1, <2>1 DEF NamesWritten
  <2>3. Last(prog.dirs_at) = prog.dirs_at[D + 1] /\ prog.dirs_at[D + 1] \in Nat
    BY <1>5, <2>2, ElementOfSeq DEF Last
  <2>4. prog.dirs_at[D] \in Nat /\ Len(prog.dirs[D]) \in Nat
    <3>1. prog.dirs \in Seq(Seq(1 .. 255))
      BY <1>1 DEF NamesWritten
    <3>2. prog.dirs[D] \in Seq(1 .. 255)
      BY <1>5, <3>1, ElementOfSeq
    <3> QED BY <1>5, <2>2, <3>2, ElementOfSeq, LenProperties
  <2>5. DirectoriesEnd(bs) = EndOfString(bs, prog.dirs_at[D]) + 1
    BY <1>3, <2>1 DEF DirectoriesEnd, NDirectories
  <2>6. EndOfString(bs, prog.dirs_at[D]) = prog.dirs_at[D] + Len(prog.dirs[D]) + 1
    BY <1>3, <2>1
  <2> HIDE DEF D, bs
  <2> QED BY <1>1, <2>2, <2>3, <2>4, <2>5, <2>6
<1>8. 1 \in DOMAIN prog.files
  BY <1>5, <1>6
<1>9. ASSUME NEW f \in DOMAIN prog.files
      PROVE  /\ FileName(prog, f) = {prog.files_at[f]}
             /\ NameAt(prog, prog.files[f].name, prog.files_at[f])
             /\ DirectoryOf(prog, prog.files_at[f]) = prog.files[f].dir
  <2>1. f # 0 /\ ~(f > N)
    BY <1>5, <1>6
  <2>2. FileName(prog, f) = {prog.files_at[f]}
    BY <1>4, <1>6, <1>7, <2>1 DEF FileName, NFiles
  <2>3. NameAt(prog, names[f], prog.files_at[f])
    BY <1>1, <1>6 DEF NamesWritten
  <2>4. DirectoryOf(prog, prog.files_at[f]) = prog.files[f].dir
    BY <1>1, <1>4, <1>6 DEF DirectoryOf
  <2> QED BY <1>6, <2>2, <2>3, <2>4
<1>10. ASSUME NEW d \in 1 .. D
       PROVE  /\ DirectoryName(prog, d) = {prog.dirs_at[d]}
              /\ NameAt(prog, prog.dirs[d], prog.dirs_at[d])
  <2>1. ~(d > D) /\ d \in DOMAIN prog.dirs
    BY <1>5
  <2> QED BY <1>1, <1>3, <2>1 DEF DirectoryName, NDirectories, NamesWritten
<1>11. \A f \in DOMAIN prog.files : prog.files[f].dir # 0 => prog.files[f].dir \in 1 .. D
  BY <1>1, <1>5
<1> QED BY <1>8, <1>9, <1>10, <1>11

\* An empty list of directories ends where the first file does.
LEMMA FirstSwallowed ==
  ASSUME NEW prog, ProgramWritten(prog), TablesWritten(prog), prog.dirs = << >>
  PROVE  prog.files_at[1] \notin FileName(prog, 1)
<1> DEFINE bs == prog.bytes
           names == [f \in DOMAIN prog.files |-> prog.files[f].name]
           L == Len(names[1])
<1>1. bs \in Seq(0 .. 255) /\ Len(bs) \in Nat /\ DOMAIN bs = 1 .. Len(bs)
  BY LenProperties DEF ProgramWritten
<1>2. /\ NamesWritten(prog, names, prog.files_at, NumbersOfFile) /\ NumbersOfFile \in Nat
      /\ bs[1] = 0 /\ prog.files_at[1] = 2
      /\ \A f \in DOMAIN prog.files :
           /\ prog.files[f].dir \in 0 .. 0
           /\ bs[prog.files_at[f] + Len(names[f]) + 1] = prog.files[f].dir
  BY EmptySeq DEF TablesWritten, NumbersOfFile
<1>3. 1 \in DOMAIN names /\ DOMAIN names = DOMAIN prog.files
  <2>1. names \in Seq(Seq(1 .. 255)) /\ names # << >>
    BY <1>2 DEF NamesWritten
  <2>2. DOMAIN names = DOMAIN prog.files
    OBVIOUS
  <2> HIDE DEF names
  <2> QED BY <2>1, <2>2, EmptySeq, LenProperties
<1>4. names[1] \in Seq(1 .. 255) /\ L \in Nat /\ names[1] # << >>
  <2>1. names \in Seq(Seq(1 .. 255)) /\ names[1] # << >>
    BY <1>2, <1>3 DEF NamesWritten
  <2> HIDE DEF names
  <2> QED BY <1>3, <2>1, ElementOfSeq, LenProperties
<1>5. /\ SubSeq(bs, 2, 2 + L) = Append(names[1], 0)
      /\ 2 + L + 1 + 3 \in DOMAIN bs
  <2>1. /\ NameAt(prog, names[1], prog.files_at[1])
        /\ prog.files_at[2] = prog.files_at[1] + L + 1 + NumbersOfFile
        /\ prog.files_at[2] \in DOMAIN bs
    <3> HIDE DEF names
    <3>1. \A i \in DOMAIN names : /\ NameAt(prog, names[i], prog.files_at[i])
                                 /\ prog.files_at[i + 1] = prog.files_at[i] + Len(names[i]) + 1 + NumbersOfFile
                                 /\ prog.files_at[i + 1] \in DOMAIN bs
      BY <1>2 DEF NamesWritten
    <3>2. 1 + 1 = 2
      OBVIOUS
    <3> QED BY <1>3, <3>1, <3>2
  <2> HIDE DEF names
  <2> QED BY <1>2, <1>4, <2>1 DEF NameAt, NumbersOfFile
<1>6. bs[2 + L + 1] = 0
  <2>1. prog.files[1].dir \in 0 .. 0
    <3> HIDE DEF names
    <3> QED BY <1>2, <1>3
  <2>2. \A d \in 0 .. 0 : d = 0
    OBVIOUS
  <2> HIDE DEF names
  <2> QED BY <1>2, <1>3, <2>1, <2>2
<1> HIDE DEF names, bs
<1>7. EndOfString(bs, 2) = 2 + L + 1 /\ bs[2] # 0
  <2>1. 2 + L <= Len(bs) /\ 2 \in Nat \ {0}
    BY <1>1, <1>4, <1>5
  <2> QED BY <1>1, <1>4, <1>5, <2>1, EndOfName
<1>8. EndOfString(bs, 1) = 2
  <2> DEFINE none == SubSeq(bs, 1, 0)
  <2>1. none \in Seq(1 .. 255) /\ Len(none) = 0
    BY <1>1
  <2>2. SubSeq(bs, 1, 1 + 0) = Append(none, 0)
    <3>1. bs[1] = 0 /\ 1 \in 1 .. Len(bs)
      BY <1>1, <1>2, <1>4, <1>5 DEF bs
    <3> QED BY <1>1, <3>1
  <2>3. 1 \in Nat \ {0} /\ 1 + 0 <= Len(bs)
    BY <1>1, <1>4, <1>5
  <2> HIDE DEF none
  <2>4. EndOfString(bs, 1) = 1 + Len(none) + 1
    BY <1>1, <2>1, <2>2, <2>3, EndOfName
  <2> QED BY <2>1, <2>4
<1>9. /\ StringsAt(bs, 1, 0)[1] = 1 /\ StringsAt(bs, 1, 0)[2] = 2 /\ 1 \in DOMAIN bs /\ 2 \in DOMAIN bs
  <2>1. 1 \in 1 .. Len(bs) /\ 2 \in 1 .. Len(bs) /\ 2 # 1 /\ 2 - 1 = 1 /\ 2 + 0 = 2
    BY <1>1, <1>4, <1>5
  <2> QED BY <1>1, <1>8, <2>1, StringsAre
<1>10. LastString(bs, 1, 0) = 2
  <2> DEFINE last(i) == bs[EndOfString(bs, StringsAt(bs, 1, 0)[i]) + 0] = 0
             only(i) == last(i) /\ \A j \in 1 .. i - 1 : ~last(j)
  <2>1. last(2) /\ ~last(1)
    BY <1>4, <1>6, <1>7, <1>8, <1>9
  <2>2. \A i \in DOMAIN bs : only(i) <=> i = 2
    <3> HIDE DEF last
    <3> QED BY <1>1, <2>1
  <2>3. LastString(bs, 1, 0) = CHOOSE i \in DOMAIN bs : only(i)
    BY DEF LastString
  <2> HIDE DEF only
  <2> QED BY <1>9, <2>2, <2>3
<1>11. DirectoriesEnd(bs) = 2 + L + 1 + 1
  BY <1>7, <1>9, <1>10 DEF DirectoriesEnd, NDirectories
<1>12. StringsAt(bs, DirectoriesEnd(bs), NumbersOfFile)[1] = DirectoriesEnd(bs)
  BY <1>1, <1>9, StringsAre
<1>13. \A n \in FileName(prog, 1) : n = DirectoriesEnd(bs)
  BY <1>12, Zenon DEF FileName, bs
<1> QED BY <1>2, <1>4, <1>11, <1>13

\* So are the names of the file and of its directory, in every unit that lists a
\* directory: the tables are found where they were written, though the code finds
\* their ends by the byte behind a name.  In one that lists none, what is given for
\* the first file is not its name.
THEOREM FilesAreRight ==
  ASSUME ProgramsWritten PROVE Spec => []FileRight
<1>1. ASSUME IInv, Lining PROVE FileRight
  <2> DEFINE prog == U.line
             named(f) == /\ "filename" \in DOMAIN symbol
                         /\ NameAt(prog, f.name, symbol.filename)
                         /\ ("dirname" \in DOMAIN symbol) = (f.dir # 0)
                         /\ f.dir # 0 => NameAt(prog, prog.dirs[f.dir], symbol.dirname)
             swallowed == "filename" \in DOMAIN symbol => symbol.filename # prog.files_at[1]
  <2> SUFFICES ASSUME pc = "done", "line" \in DOMAIN symbol, Determined(prog)
               PROVE  \E r \in RegistersLeft(prog) :
                        IF prog.dirs # << >> THEN named(prog.files[r.file])
                        ELSE r.file = 1 => swallowed
    BY DEF FileRight
  <2>1. PICK r \in RegistersLeft(prog) : Named(symbol, prog, r.file)
    BY <1>1 DEF Lining
  <2>2. ProgramWritten(prog) /\ TablesWritten(prog)
    BY <1>1, LineIsWritten DEF InUnit
  <2> DEFINE g == prog.files[r.file]
  <2> HIDE DEF prog
  <2>3. ASSUME prog.dirs = << >>, r.file = 1 PROVE swallowed
    BY <2>1, <2>2, <2>3, FirstSwallowed DEF Named
  <2>4. ASSUME prog.dirs # << >> PROVE named(g)
    <3>1. r.file \in DOMAIN prog.files
      <4>1. PICK q \in 1 .. Len(prog.instrs) : r = RegistersAfter(prog)[q]
        BY <2>2, ProgramFacts DEF RegistersLeft
      <4>2. q \in 0 .. Len(prog.instrs)
        BY <2>2, ProgramFacts
      <4> QED BY <2>2, <2>4, <4>1, <4>2, FilesFound, FilesListed
    <3>2. PICK n : /\ FileName(prog, r.file) = {n} /\ NameAt(prog, g.name, n)
                   /\ DirectoryOf(prog, n) = g.dir
                   /\ g.dir # 0 => \E d : /\ DirectoryName(prog, g.dir) = {d}
                                          /\ NameAt(prog, prog.dirs[g.dir], d)
      BY <2>2, <2>4, <3>1, FilesFound
    <3>3. /\ "filename" \in DOMAIN symbol /\ symbol.filename = n
          /\ "dirname" \in DOMAIN symbol <=> "dirname" \in DOMAIN FileFields(prog, n)
          /\ "dirname" \in DOMAIN symbol => symbol.dirname = FileFields(prog, n).dirname
      BY <2>1, <3>2 DEF Named
    <3> HIDE DEF g
    <3>4. CASE g.dir = 0
      <4>1. FileFields(prog, n) = [filename |-> n]
        BY <3>2, <3>4 DEF FileFields
      <4>2. "dirname" \notin DOMAIN symbol
        BY <3>3, <4>1
      <4> QED BY <3>2, <3>3, <3>4, <4>2
    <3>5. CASE g.dir # 0
      <4>1. PICK d : DirectoryName(prog, g.dir) = {d} /\ NameAt(prog, prog.dirs[g.dir], d)
        BY <3>2, <3>5
      <4>2. FileFields(prog, n) = With([filename |-> n], [dirname |-> d])
        <5>1. (CHOOSE e \in {d} : TRUE) = d /\ {d} # {}
          OBVIOUS
        <5> QED BY <3>2, <3>5, <4>1, <5>1, Zenon DEF FileFields
      <4>3. LET w == With([filename |-> n], [dirname |-> d])
            IN "dirname" \in DOMAIN w /\ w.dirname = d
        BY DEF With
      <4>4. "dirname" \in DOMAIN symbol /\ symbol.dirname = d
        BY <3>3, <4>2, <4>3
      <4> QED BY <3>2, <3>3, <3>5, <4>1, <4>4
    <3> QED BY <3>4, <3>5
  <2> HIDE DEF named, swallowed
  <2> QED BY <2>1, <2>3, <2>4 DEF g
<1> QED BY <1>1, Invariance, LiningInvariance, PTL
================================================================================
