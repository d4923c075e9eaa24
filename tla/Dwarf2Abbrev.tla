------------------------------ MODULE Dwarf2Abbrev -----------------------------
(***************************************************************************)
(* libdebug/dwarf2-abbrev.c: the declaration of an abbreviation code, with *)
(* the cache of the places where declarations have been found.             *)
(*                                                                         *)
(* A table is the sequence of the codes of its declarations, from the      *)
(* start of the unit's table to the end of .debug_abbrev; the code 0 ends  *)
(* the table of a unit and what follows belongs to others.  The offset of  *)
(* a declaration is its place in the sequence.                             *)
(***************************************************************************)
EXTENDS Integers, Sequences

CONSTANTS
  CacheSize,   \* CACHE_SIZE
  KeyMod,      \* keys are kept with seven bits,
  TimeMod      \* and times with eight

ASSUME AbbrevAssumption ==
  CacheSize \in Nat \ {0} /\ KeyMod \in Nat \ {0} /\ TimeMod \in Nat \ {0}

Slots == 0 .. CacheSize - 1
Free  == -1   \* the key of a slot without the occupied bit

Caches == [keys : [Slots -> {Free} \cup 0 .. KeyMod - 1], values : [Slots -> Nat],
           last_used : [Slots -> 0 .. TimeMod - 1], time : 0 .. TimeMod - 1]

CacheInitialize ==
  [keys |-> [i \in Slots |-> Free], values |-> [i \in Slots |-> 0],
   last_used |-> [i \in Slots |-> 0], time |-> 0]

Tick(c) == [c EXCEPT !.time = (@ + 1) % TimeMod]

\* The loops go once around the slots, from the one the key falls on.
Distance(key, i) == (i - (key - 1)) % CacheSize
Nearest(slots, key) == {i \in slots : \A j \in slots : Distance(key, i) <= Distance(key, j)}

\* cache_try_lookup: a slot with the key, else one with the highest key below
\* it, whose declaration may stand a little in front; none if both fail.
Backups(c, key) ==
  LET below == {i \in Slots : c.keys[i] > 0 /\ c.keys[i] < key % KeyMod}
  IN {i \in below : \A j \in below : c.keys[j] <= c.keys[i]}
LookupSlot(c, key) ==
  LET exact == {i \in Slots : c.keys[i] = key % KeyMod}
  IN Nearest(IF exact # {} THEN exact ELSE Backups(c, key), key)

CacheLookup(c, key) ==
  [Tick(c) EXCEPT !.last_used = [i \in Slots |->
     IF i \in LookupSlot(c, key) THEN Tick(c).time ELSE c.last_used[i]]]

\* cache_search_lru_location: slot 0 when no time is below the current one,
\* as it can be when the time has just wrapped.
LruLocation(c) ==
  LET older == {i \in Slots : c.last_used[i] < c.time}
      least == {i \in older : \A j \in older : c.last_used[i] <= c.last_used[j]}
  IN IF older = {} THEN {0} ELSE {i \in least : \A j \in least : i <= j}

\* cache_try_add: the next free slot, else the least recently used one.
AddSlot(c, key) ==
  LET free == {i \in Slots : c.keys[i] = Free}
  IN IF free # {} THEN Nearest(free, key) ELSE LruLocation(Tick(c))

CacheAdd(c, key, value) ==
  LET put(f, v) == [i \in Slots |-> IF i \in AddSlot(c, key) THEN v ELSE f[i]]
  IN [keys |-> put(c.keys, key % KeyMod), values |-> put(c.values, value),
      last_used |-> put(c.last_used, Tick(c).time), time |-> Tick(c).time]

\* search_abbrev_start_to_end: the first declaration of the code from "from",
\* in front of "to" and of the end of the table; the empty set if there is none.
Search(table, code, from, to) ==
  {i \in from .. to - 1 : /\ table[i] = code
                          /\ \A j \in from .. i - 1 : table[j] # code /\ table[j] # 0}

\* dwarf2_abbrev_cu_read_decl: where the search starts, and what it finds from
\* there to the end and, when it did not start at the start, in front of it.
StartOf(c, code) ==
  IF LookupSlot(c, code) = {} THEN 1
  ELSE c.values[CHOOSE i \in LookupSlot(c, code) : TRUE]

ReadDeclMutant(table, code, c) ==   \* trusts what the cache holds for the key
  IF LookupSlot(c, code) # {} THEN {StartOf(c, code)}
  ELSE Search(table, code, 1, Len(table) + 1)
ReadDecl(table, code, c) ==
  LET start  == StartOf(c, code)
      behind == Search(table, code, start, Len(table) + 1)
  IN IF table[start] = code THEN {start}
     ELSE IF behind # {} THEN behind
     ELSE Search(table, code, 1, start)

AddIfSearchedMutant(table, code, c) ==   \* keeps where the search began
  IF table[StartOf(c, code)] = code THEN CacheLookup(c, code)
  ELSE CacheAdd(CacheLookup(c, code), code, StartOf(c, code))
AddIfSearched(table, code, c) ==
  LET found == ReadDecl(table, code, c)
      c1    == CacheLookup(c, code)
  IN IF found = {} \/ table[StartOf(c, code)] = code THEN c1
     ELSE CacheAdd(c1, code, CHOOSE i \in found : TRUE)

(* What the cache must keep *)

\* The declarations of the unit that owns the table.
Declarations(table) == {i \in DOMAIN table : \A j \in 1 .. i : table[j] # 0}

\* An occupied slot holds the place of a declaration of this unit with its key.
Sound(table, c) ==
  \A i \in Slots : c.keys[i] # Free =>
    c.values[i] \in Declarations(table) /\ table[c.values[i]] % KeyMod = c.keys[i]
================================================================================
