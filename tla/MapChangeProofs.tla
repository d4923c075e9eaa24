---------------------------- MODULE MapChangeProofs ---------------------------
(***************************************************************************)
(* Whatever its threads load, unload, call and fork, the records of a      *)
(* program can be resolved against the maps in front of them, but those of *)
(* a thread under whose write_map the loader has changed its list: for     *)
(* every set of threads and objects, nesting of calls and number of forks. *)
(***************************************************************************)
EXTENDS MapChange, SequenceTheorems, TLAPS

(* The inductive invariant *)

\* The loader's list begins with the program and has each object once; only
\* what is in it is called, and nothing in it is loaded again.
ListInv ==
  /\ linkMap # << >> /\ linkMap[1] = Main
  /\ \A i, j \in 1 .. Len(linkMap) : linkMap[i] = linkMap[j] => i = j
  /\ Main \in callable /\ callable \subseteq Mapped /\ loads \cap Mapped = {}

\* Between the two traps of dlopen and dlclose, and outside of them.
LoadingInv ==
  /\ loading.stage = "none" => loading = Idle
  /\ loading.stage # "none" => loading.obj \in Objects \ loads
  /\ loading.stage = "last_trap" => rState = "RT_CONSISTENT"
  /\ loading.stage \in {"first_trap", "change"} =>
       \/ rState = "RT_ADD" /\ loading.obj \notin Mapped
       \/ rState = "RT_DELETE" /\ loading.obj \in Mapped \ callable

Entering == {"register", "check", "map", "header", "entry", "clear", "emit"}

\* A thread is only inside of objects that stay as they are.
Using(t) ==
  /\ pc[t] \in Entering => callee[t] # NoOne
  /\ callee[t] # NoOne => callee[t] \in callable \ {loading.obj}
  /\ ToSet(stack[t]) \subseteq callable \ {loading.obj}

\* A thread that trap_handler does not find in the list is marked from the start.
Marking(t) ==
  /\ pc[t] = "register" => t \notin registered
  /\ pc[t] \in Entering \ {"register"} => t \in registered
  /\ t \notin registered => pending[t] \/ pc[t] = "gone"

\* What a thread has written so far is the beginning of the list.
Writing(t) ==
  ~raced[t] =>
    /\ pc[t] \in {"header", "entry", "clear"} => loading.stage # "last_trap"
    /\ pc[t] = "entry" =>
         LET n == Len(entries[t]) IN
         /\ count[t] = Len(linkMap) /\ n =< Len(linkMap)
         /\ \A i \in 1 .. n : entries[t][i] = linkMap[i]
         /\ at[t] = IF n = Len(linkMap) THEN NoOne ELSE linkMap[n + 1]
    /\ pc[t] = "clear" => Len(entries[t]) = count[t] /\ lastMap[t] = Mapped

\* A thread that is not marked has the list in its last map; when the list has
\* changed and the last trap is to come, the list as it was before.
Current(t) ==
  t \in registered /\ pc[t] \in {"app", "check", "emit"} /\ ~pending[t] /\ ~raced[t] =>
    IF loading.stage = "last_trap"
      THEN lastMap[t] \ {loading.obj} = Mapped \ {loading.obj}
      ELSE lastMap[t] = Mapped

\* Where a thread is, and where it will return to, is in its last map, if there
\* is any; only a forked child returns before it has written one.
Resolvable(t) ==
  ~raced[t] =>
    /\ pc[t] = "emit" => callee[t] \in lastMap[t]
    /\ pc[t] \notin {"map", "header", "entry", "gone"} =>
         \/ ToSet(stack[t]) \subseteq lastMap[t]
         \/ lastMap[t] = {} /\ forks > 0

ThreadInv ==
  \A t \in Threads : Using(t) /\ Marking(t) /\ Writing(t) /\ Current(t) /\ Resolvable(t)

IInv == TypeOK /\ ListInv /\ LoadingInv /\ ThreadInv

-----------------------------------------------------------------------------
(* Types and sequences *)

LEMMA PlaceTypes ==
  ASSUME TypeOK
  PROVE  /\ rState \in {"RT_CONSISTENT", "RT_ADD", "RT_DELETE"}
         /\ loading \in [by : Threads \cup {NoOne}, obj : Objects \cup {NoOne},
                         stage : {"none", "first_trap", "change", "last_trap"}]
         /\ loads \subseteq Objects /\ callable \subseteq All /\ NoOne \notin All
         /\ registered \subseteq Threads /\ pending \in [Threads -> BOOLEAN]
         /\ pc \in [Threads -> {"app", "register", "check", "map", "header", "entry",
                                "clear", "emit", "gone"}]
         /\ callee \in [Threads -> All \cup {NoOne}] /\ at \in [Threads -> All \cup {NoOne}]
         /\ lastMap \in [Threads -> SUBSET All] /\ raced \in [Threads -> BOOLEAN]
         /\ count \in [Threads -> Nat] /\ forks \in 0 .. MaxForks
BY MapChangeAssumption DEF TypeOK, All

LEMMA SequenceTypes ==
  ASSUME TypeOK
  PROVE  /\ linkMap \in Seq(All) /\ Len(linkMap) \in Nat
         /\ stack \in [Threads -> Seq(All)] /\ entries \in [Threads -> Seq(All)]
         /\ \A t \in Threads : Len(entries[t]) \in Nat
BY DEF TypeOK

LEMMA InToSet ==
  ASSUME NEW S, NEW s \in Seq(S), NEW e
  PROVE  e \in ToSet(s) <=> \E i \in 1 .. Len(s) : s[i] = e
BY LenProperties DEF ToSet

LEMMA ToSetOfEmpty == ToSet(<< >>) = {}
BY DEF ToSet

LEMMA ToSetOfAppend ==
  ASSUME NEW S, NEW s \in Seq(S), NEW e \in S
  PROVE  /\ Append(s, e) \in Seq(S) /\ Len(Append(s, e)) = Len(s) + 1
         /\ \A i \in 1 .. Len(s) : Append(s, e)[i] = s[i]
         /\ Append(s, e)[Len(s) + 1] = e
         /\ ToSet(Append(s, e)) = ToSet(s) \cup {e}
<1> DEFINE r == Append(s, e)
<1>1. /\ r \in Seq(S) /\ Len(r) = Len(s) + 1 /\ Len(s) \in Nat
      /\ \A i \in 1 .. Len(s) : r[i] = s[i]
      /\ r[Len(s) + 1] = e
  BY AppendProperties, LenProperties
<1> HIDE DEF r
<1>2. \A i \in 1 .. Len(s) + 1 : i \in 1 .. Len(s) \/ i = Len(s) + 1
  BY <1>1
<1>3. \A x : x \in ToSet(r) <=> x \in ToSet(s) \/ x = e
  BY <1>1, <1>2, InToSet
<1> QED BY <1>1, <1>3 DEF r

\* An entry is taken out of a list that has it once.
LEMMA ToSetOfRemoveAt ==
  ASSUME NEW S, NEW s \in Seq(S), NEW k \in 1 .. Len(s),
         \A i, j \in 1 .. Len(s) : s[i] = s[j] => i = j
  PROVE  /\ RemoveAt(s, k) \in Seq(S) /\ Len(RemoveAt(s, k)) = Len(s) - 1
         /\ \A i \in 1 .. Len(s) - 1 : RemoveAt(s, k)[i] = IF i < k THEN s[i] ELSE s[i + 1]
         /\ ToSet(RemoveAt(s, k)) = ToSet(s) \ {s[k]}
<1> DEFINE r == RemoveAt(s, k)
           b == SubSeq(s, 1, k - 1)
           c == SubSeq(s, k + 1, Len(s))
<1>1. Len(s) \in Nat /\ k \in Nat /\ 1 =< k /\ k =< Len(s)
  BY LenProperties
<1>2. b \in Seq(S) /\ Len(b) = k - 1 /\ \A i \in 1 .. k - 1 : b[i] = s[i]
  BY <1>1, SubSeqProperties
<1>3. c \in Seq(S) /\ Len(c) = Len(s) - k /\ \A i \in 1 .. Len(s) - k : c[i] = s[k + i]
  BY <1>1, SubSeqProperties
<1>4. r = b \o c
  BY DEF RemoveAt
<1> HIDE DEF r, b, c
<1>5. /\ r \in Seq(S) /\ Len(r) = Len(s) - 1
      /\ \A i \in 1 .. Len(s) - 1 : r[i] = IF i =< k - 1 THEN b[i] ELSE c[i - (k - 1)]
  <2>1. /\ r \in Seq(S) /\ Len(r) = Len(b) + Len(c)
        /\ \A i \in 1 .. Len(b) + Len(c) : r[i] = IF i =< Len(b) THEN b[i] ELSE c[i - Len(b)]
    <3>1. /\ b \o c \in Seq(S) /\ Len(b \o c) = Len(b) + Len(c)
          /\ \A i \in 1 .. Len(b) + Len(c) :
               (b \o c)[i] = IF i =< Len(b) THEN b[i] ELSE c[i - Len(b)]
      <4>1. b \in Seq(S) /\ c \in Seq(S)
        BY <1>2, <1>3
      <4> QED BY <4>1, ConcatProperties
    <3> QED BY <1>4, <3>1
  <2>2. Len(b) + Len(c) = Len(s) - 1
    BY <1>1, <1>2, <1>3
  <2> QED BY <1>2, <2>1, <2>2
<1>6. ASSUME NEW i \in 1 .. Len(s) - 1 PROVE r[i] = IF i < k THEN s[i] ELSE s[i + 1]
  <2>1. CASE i < k
    BY <1>1, <1>2, <1>5, <2>1
  <2>2. CASE i >= k
    <3>1. i - (k - 1) \in 1 .. Len(s) - k /\ k + (i - (k - 1)) = i + 1
      BY <1>1, <2>2
    <3> QED BY <1>1, <1>3, <1>5, <2>2, <3>1
  <2> QED BY <1>1, <2>1, <2>2
<1>7. \A i \in 1 .. Len(s) : \/ i = k \/ (i \in 1 .. Len(s) - 1 /\ i < k)
                             \/ (i - 1 \in 1 .. Len(s) - 1 /\ ~(i - 1 < k) /\ (i - 1) + 1 = i)
  BY <1>1
<1>8. \A i \in 1 .. Len(s) - 1 : i \in 1 .. Len(s) /\ i + 1 \in 1 .. Len(s) /\ (i < k => i # k)
                                 /\ (~(i < k) => i + 1 # k)
  BY <1>1
<1>9. \A x : x \in ToSet(r) <=> x \in ToSet(s) /\ x # s[k]
  <2>1. \A x : x \in ToSet(r) <=> \E i \in 1 .. Len(s) - 1 : r[i] = x
    <3>1. \A x : x \in ToSet(r) <=> \E i \in 1 .. Len(r) : r[i] = x
      BY <1>5, InToSet
    <3> QED BY <1>5, <3>1
  <2>2. \A x : x \in ToSet(s) <=> \E i \in 1 .. Len(s) : s[i] = x
    BY InToSet
  <2>3. ASSUME NEW i \in 1 .. Len(s) - 1 PROVE r[i] \in ToSet(s) /\ r[i] # s[k]
    BY <1>6, <1>8, <2>2
  <2>4. ASSUME NEW i \in 1 .. Len(s), i # k PROVE s[i] \in ToSet(r)
    BY <1>6, <1>7, <2>1, <2>4
  <2> QED BY <2>1, <2>2, <2>3, <2>4
<1> QED BY <1>5, <1>6, <1>9 DEF r

LEMMA ToSetOfFront ==
  ASSUME NEW S, NEW s \in Seq(S), s # << >>
  PROVE  /\ Front(s) \in Seq(S) /\ ToSet(Front(s)) \subseteq ToSet(s)
         /\ Last(s) \in ToSet(s)
<1>1. Len(s) \in Nat \ {0}
  BY EmptySeq, LenProperties
<1> DEFINE f == SubSeq(s, 1, Len(s) - 1)
<1>2. f \in Seq(S) /\ Len(f) = Len(s) - 1 /\ \A i \in 1 .. Len(s) - 1 : f[i] = s[i]
  <2>2. \A i \in 1 .. Len(s) - 1 : i \in 1 .. Len(s) /\ 1 + i - 1 = i
    BY <1>1
  <2>3. \A i \in 1 .. Len(s) - 1 : s[i] \in S
    BY <2>2, ElementOfSeq
  <2>4. /\ f \in Seq(S) /\ Len(f) = IF 1 =< Len(s) - 1 THEN Len(s) - 1 - 1 + 1 ELSE 0
        /\ \A i \in 1 .. Len(s) - 1 - 1 + 1 : f[i] = s[1 + i - 1]
    BY <1>1, <2>3, SubSeqProperties
  <2> HIDE DEF f
  <2>5. Len(s) - 1 - 1 + 1 = Len(s) - 1 /\ (~(1 =< Len(s) - 1) => Len(s) - 1 = 0)
    <3> DEFINE n == Len(s)
    <3>1. n \in Nat \ {0}
      BY <1>1
    <3> HIDE DEF n
    <3>2. n - 1 - 1 + 1 = n - 1 /\ (~(1 =< n - 1) => n - 1 = 0)
      BY <3>1
    <3> QED BY <3>2 DEF n
  <2> QED BY <2>2, <2>4, <2>5
<1> HIDE DEF f
<1>3. Front(s) = f
  BY DEF Front, f
<1>4. \A i \in 1 .. Len(s) - 1 : i \in 1 .. Len(s)
  BY <1>1
<1>5. \A x : x \in ToSet(f) => x \in ToSet(s)
  BY <1>2, <1>4, InToSet
<1>6. Last(s) = s[Len(s)] /\ Len(s) \in 1 .. Len(s)
  BY <1>1 DEF Last
<1> QED BY <1>2, <1>3, <1>5, <1>6, InToSet

\* Who calls an object calls one that is in the list.
LEMMA UsedIsMapped ==
  ASSUME IInv, NEW t \in Threads
  PROVE  /\ callee[t] # NoOne => callee[t] \in Mapped \ {loading.obj}
         /\ ToSet(stack[t]) \subseteq Mapped \ {loading.obj}
         /\ pc[t] \in Entering => callee[t] # NoOne
BY DEF IInv, ListInv, ThreadInv, Using

\* No entry of the list is the end of it.
LEMMA MappedAreObjects ==
  ASSUME TypeOK
  PROVE  /\ Mapped \subseteq All /\ NoOne \notin Mapped
         /\ \A i \in 1 .. Len(linkMap) : linkMap[i] \in Mapped
         /\ \A o \in Mapped : \E i \in 1 .. Len(linkMap) : linkMap[i] = o
<1>1. linkMap \in Seq(All) /\ NoOne \notin All
  BY PlaceTypes, SequenceTypes
<1>2. \A o : o \in Mapped <=> \E i \in 1 .. Len(linkMap) : linkMap[i] = o
  BY <1>1, InToSet DEF Mapped
<1>3. \A i \in 1 .. Len(linkMap) : linkMap[i] \in All
  BY <1>1, ElementOfSeq
<1> QED BY <1>1, <1>2, <1>3

-----------------------------------------------------------------------------
(* What each action keeps: one lemma for each, with one step for each part *)
(* of the invariant. *)

LEMMA BeginOpenKeeps ==
  ASSUME IInv, NEW t \in Threads, NEW o \in Objects, BeginOpen(t, o) PROVE IInv'
<1> USE DEF IInv
<1>a. UNCHANGED << linkMap, callable, registered, pending, pc, callee, stack, count, at, entries, lastMap, raced, forks >>
  BY DEF BeginOpen, loader, walk
<1>b. /\ loading = Idle /\ loading.obj = NoOne /\ loading.stage = "none"
      /\ pc[t] = "app" /\ rState' = "RT_ADD" /\ loads' = loads \ {o} /\ o \in loads
      /\ loading' = [by |-> t, obj |-> o, stage |-> "first_trap"]
      /\ loading'.obj = o /\ loading'.stage = "first_trap"
  BY DEF BeginOpen, Idle
<1>c. o \notin Mapped /\ Mapped' = Mapped /\ \A u \in Threads : Using(u) /\ Current(u)
  BY <1>a, <1>b DEF ListInv, Mapped, ThreadInv
<1>1. TypeOK'
  BY <1>a, PlaceTypes DEF TypeOK, BeginOpen
<1>2. ListInv'
  BY <1>a DEF ListInv, Mapped, BeginOpen
<1>3. LoadingInv'
  BY <1>a, <1>b, <1>c DEF LoadingInv
<1>4. \A u \in Threads : Using(u)'
  BY <1>a, <1>b, <1>c DEF ListInv, Using
<1>5. \A u \in Threads : Marking(u)'
  BY <1>a, PlaceTypes DEF ThreadInv, Marking, Entering, BeginOpen
<1>6. \A u \in Threads : Writing(u)'
  BY <1>a, PlaceTypes DEF ThreadInv, Writing, Mapped, BeginOpen
<1>7. \A u \in Threads : Current(u)'
  BY <1>a, <1>b, <1>c DEF Current
<1>8. \A u \in Threads : Resolvable(u)'
  BY <1>a, PlaceTypes DEF ThreadInv, Resolvable, BeginOpen
<1> QED BY <1>1, <1>2, <1>3, <1>4, <1>5, <1>6, <1>7, <1>8 DEF ThreadInv

LEMMA BeginCloseKeeps ==
  ASSUME IInv, NEW t \in Threads, NEW o \in Objects, BeginClose(t, o) PROVE IInv'
<1> USE DEF IInv
<1>a. UNCHANGED << linkMap, loads, registered, pending, pc, callee, stack, count, at, entries, lastMap, raced, forks >>
  BY DEF BeginClose, loader, walk
<1>b. /\ loading = Idle /\ loading.obj = NoOne /\ loading.stage = "none"
      /\ pc[t] = "app" /\ rState' = "RT_DELETE" /\ callable' = callable \ {o} /\ o \in callable
      /\ loading' = [by |-> t, obj |-> o, stage |-> "first_trap"]
      /\ loading'.obj = o /\ loading'.stage = "first_trap"
  BY DEF BeginClose, Idle
<1>c. /\ o \in Mapped /\ Mapped' = Mapped /\ o \in Objects \ loads
      /\ \A u \in Threads : Using(u) /\ Current(u)
  BY <1>a, <1>b, PlaceTypes DEF ListInv, Mapped, ThreadInv
<1>d. \A u \in Threads : callee[u] # o /\ o \notin ToSet(stack[u])
  BY DEF BeginClose, InUse
<1>1. TypeOK'
  BY <1>a, PlaceTypes DEF TypeOK, BeginClose
<1>2. ListInv'
  BY <1>a DEF ListInv, Mapped, BeginClose
<1>3. LoadingInv'
  BY <1>a, <1>b, <1>c DEF LoadingInv
<1>4. \A u \in Threads : Using(u)'
  BY <1>a, <1>b, <1>c, <1>d DEF Using
<1>5. \A u \in Threads : Marking(u)'
  BY <1>a, PlaceTypes DEF ThreadInv, Marking, Entering, BeginClose
<1>6. \A u \in Threads : Writing(u)'
  BY <1>a, PlaceTypes DEF ThreadInv, Writing, Mapped, BeginClose
<1>7. \A u \in Threads : Current(u)'
  BY <1>a, <1>b, <1>c DEF Current
<1>8. \A u \in Threads : Resolvable(u)'
  BY <1>a, PlaceTypes DEF ThreadInv, Resolvable, BeginClose
<1> QED BY <1>1, <1>2, <1>3, <1>4, <1>5, <1>6, <1>7, <1>8 DEF ThreadInv

LEMMA ChangeListKeeps ==
  ASSUME IInv, NEW t \in Threads, ChangeList(t) PROVE IInv'
<1> USE DEF IInv
<1>a. UNCHANGED << loads, registered, pending, pc, callee, stack, count, at, entries, lastMap, forks >>
  BY DEF ChangeList, loader, walk
<1> DEFINE new == loading.obj
<1>b. /\ loading.stage = "change" /\ rState' = "RT_CONSISTENT"
      /\ loading' = [loading EXCEPT !.stage = "last_trap"]
      /\ loading'.obj = new /\ loading'.stage = "last_trap" /\ loading'.by = loading.by
      /\ raced' = [u \in Threads |-> raced[u] \/ pc[u] \in {"header", "entry", "clear"}]
      /\ new \in Objects /\ new \in All /\ new # Main /\ new \notin loads
  BY PlaceTypes, MapChangeAssumption DEF ChangeList, LoadingInv, All
<1>c. /\ linkMap \in Seq(All) /\ linkMap # << >> /\ linkMap[1] = Main
      /\ \A i, j \in 1 .. Len(linkMap) : linkMap[i] = linkMap[j] => i = j
      /\ Mapped = ToSet(linkMap) /\ Mapped' = ToSet(linkMap') /\ Len(linkMap) \in Nat
      /\ callable \subseteq Mapped /\ Main \in callable /\ loads \cap Mapped = {}
      /\ 1 \in 1 .. Len(linkMap)
  <2>1. linkMap \in Seq(All) /\ linkMap # << >> /\ Len(linkMap) \in Nat
    BY SequenceTypes DEF ListInv
  <2>2. Len(linkMap) # 0
    BY <2>1, EmptySeq
  <2> QED BY <2>1, <2>2 DEF ListInv, Mapped
<1>d. /\ linkMap' \in Seq(All) /\ linkMap' # << >> /\ linkMap'[1] = Main
      /\ \A i, j \in 1 .. Len(linkMap') : linkMap'[i] = linkMap'[j] => i = j
      /\ Main \in callable' /\ callable' \subseteq Mapped' /\ loads \cap Mapped' = {}
      /\ callable' \subseteq All /\ callable \ {new} \subseteq callable'
      /\ Mapped \ {new} = Mapped' \ {new}
  <2>1. CASE rState = "RT_ADD"
    <3>1. linkMap' = Append(linkMap, new) /\ callable' = callable \cup {new}
      BY <2>1 DEF ChangeList
    <3>2. new \notin Mapped
      BY <1>b, <2>1 DEF LoadingInv
    <3>3. /\ linkMap' \in Seq(All) /\ Len(linkMap') = Len(linkMap) + 1
          /\ \A i \in 1 .. Len(linkMap) : linkMap'[i] = linkMap[i]
          /\ linkMap'[Len(linkMap) + 1] = new /\ Mapped' = Mapped \cup {new}
      BY <1>b, <1>c, <3>1, ToSetOfAppend
    <3>4. \A i \in 1 .. Len(linkMap) : linkMap[i] # new
      BY <1>c, <3>2, InToSet
    <3>5. \A i \in 1 .. Len(linkMap') : i \in 1 .. Len(linkMap) \/ i = Len(linkMap) + 1
      BY <1>c, <3>3
    <3>6. \A i, j \in 1 .. Len(linkMap') : linkMap'[i] = linkMap'[j] => i = j
      BY <1>c, <3>3, <3>4, <3>5
    <3>7. linkMap' # << >> /\ linkMap'[1] = Main
      BY <1>c, <3>3, EmptySeq
    <3> QED BY <1>b, <1>c, <3>1, <3>3, <3>6, <3>7, PlaceTypes
  <2>2. CASE rState = "RT_DELETE"
    <3>1. new \notin callable /\ callable' = callable
      BY <2>2 DEF ChangeList, LoadingInv
    <3>2. PICK k \in 1 .. Len(linkMap) : linkMap[k] = new /\ linkMap' = RemoveAt(linkMap, k)
      BY <1>c, <2>2, LenProperties DEF ChangeList
    <3>3. /\ linkMap' \in Seq(All) /\ Len(linkMap') = Len(linkMap) - 1
          /\ \A i \in 1 .. Len(linkMap) - 1 :
               linkMap'[i] = IF i < k THEN linkMap[i] ELSE linkMap[i + 1]
          /\ Mapped' = Mapped \ {new}
      <4>1. /\ RemoveAt(linkMap, k) \in Seq(All)
            /\ Len(RemoveAt(linkMap, k)) = Len(linkMap) - 1
            /\ \A i \in 1 .. Len(linkMap) - 1 :
                 RemoveAt(linkMap, k)[i] = IF i < k THEN linkMap[i] ELSE linkMap[i + 1]
            /\ ToSet(RemoveAt(linkMap, k)) = ToSet(linkMap) \ {linkMap[k]}
        BY <1>c, ToSetOfRemoveAt
      <4> QED BY <1>c, <3>2, <4>1
    <3>4. k # 1 /\ 1 < k /\ 1 \in 1 .. Len(linkMap) - 1
      BY <1>b, <1>c, <3>2
    <3>5. \A i \in 1 .. Len(linkMap') :
            i \in 1 .. Len(linkMap) - 1 /\ i \in 1 .. Len(linkMap) /\ i + 1 \in 1 .. Len(linkMap)
      BY <1>c, <3>3
    <3>6. \A i, j \in 1 .. Len(linkMap') : linkMap'[i] = linkMap'[j] => i = j
      <4> SUFFICES ASSUME NEW i \in 1 .. Len(linkMap'), NEW j \in 1 .. Len(linkMap'),
                          linkMap'[i] = linkMap'[j]
                   PROVE  i = j
        OBVIOUS
      <4>1. (IF i < k THEN i ELSE i + 1) = (IF j < k THEN j ELSE j + 1)
        BY <1>c, <3>3, <3>5
      <4> QED BY <4>1
    <3>7. linkMap' # << >> /\ linkMap'[1] = Main
      BY <1>c, <3>3, <3>4, EmptySeq
    <3> QED BY <1>b, <1>c, <3>1, <3>3, <3>6, <3>7, PlaceTypes
  <2> QED BY <2>1, <2>2 DEF ChangeList
<1> HIDE DEF new
<1>1. TypeOK'
  BY <1>a, <1>b, <1>d, PlaceTypes DEF TypeOK
<1>2. ListInv'
  BY <1>a, <1>d DEF ListInv
<1>3. LoadingInv'
  BY <1>a, <1>b DEF LoadingInv
<1>4. \A u \in Threads : Using(u)'
  <2>1. \A u \in Threads : Using(u)
    BY DEF ThreadInv
  <2> QED BY <1>a, <1>b, <1>d, <2>1 DEF Using, new
<1>5. \A u \in Threads : Marking(u)'
  BY <1>a, PlaceTypes DEF ThreadInv, Marking, Entering, ChangeList
<1>6. \A u \in Threads : Writing(u)'
  BY <1>a, <1>b DEF ThreadInv, Writing
<1>7. \A u \in Threads : Current(u)'
  <2> TAKE u \in Threads
  <2>1. Current(u)
    BY DEF ThreadInv
  <2> QED BY <1>a, <1>b, <1>d, <2>1 DEF Current
<1>8. \A u \in Threads : Resolvable(u)'
  BY <1>a, PlaceTypes DEF ThreadInv, Resolvable, ChangeList
<1> QED BY <1>1, <1>2, <1>3, <1>4, <1>5, <1>6, <1>7, <1>8 DEF ThreadInv

LEMMA TrapHandlerKeeps ==
  ASSUME IInv, NEW t \in Threads, TrapHandler(t) PROVE IInv'
<1> USE DEF IInv
<1>a. UNCHANGED << linkMap, rState, loads, callable, registered, pc, callee, stack, count, at, entries, lastMap, raced, forks >>
  BY DEF TrapHandler, loader, walk
<1>b. /\ loading.stage \in {"first_trap", "last_trap"} /\ pc' = pc /\ Mapped' = Mapped
      /\ \/ /\ loading.stage = "first_trap" /\ pending' = pending
            /\ loading' = [loading EXCEPT !.stage = "change"]
            /\ loading'.stage = "change" /\ loading'.obj = loading.obj
         \/ /\ loading.stage = "last_trap"
            /\ pending' = [u \in Threads |-> pending[u] \/ u \in registered]
            /\ loading' = Idle /\ loading'.obj = NoOne /\ loading'.stage = "none"
  BY <1>a, PlaceTypes DEF TrapHandler, LoadingInv, Idle, Mapped
<1>1. TypeOK'
  <2>1. pending' \in [Threads -> BOOLEAN]
    BY <1>b, PlaceTypes
  <2>2. loading' \in [by : Threads \cup {NoOne}, obj : Objects \cup {NoOne},
                      stage : {"none", "first_trap", "change", "last_trap"}]
    <3>1. CASE loading' = [loading EXCEPT !.stage = "change"]
      BY <3>1, PlaceTypes
    <3>2. CASE loading' = Idle
      BY <3>2 DEF Idle
    <3> QED BY <1>b, <3>1, <3>2
  <2> QED BY <1>a, <2>1, <2>2 DEF TypeOK
<1>2. ListInv'
  BY <1>a DEF ListInv, Mapped, TrapHandler
<1>3. LoadingInv'
  BY <1>a, <1>b DEF LoadingInv, Idle
<1>4. \A u \in Threads : Using(u)'
  <2>1. NoOne \notin callable
    BY PlaceTypes
  <2> QED BY <1>a, <1>b, <2>1 DEF ThreadInv, Using
<1>5. \A u \in Threads : Marking(u)'
  BY <1>a, <1>b, PlaceTypes DEF ThreadInv, Marking
<1>6. \A u \in Threads : Writing(u)'
  BY <1>a, <1>b DEF ThreadInv, Writing
<1>7. \A u \in Threads : Current(u)'
  <2> TAKE u \in Threads
  <2>1. Current(u)
    BY DEF ThreadInv
  <2> QED BY <1>a, <1>b, <2>1 DEF Current
<1>8. \A u \in Threads : Resolvable(u)'
  BY <1>a, <1>b DEF ThreadInv, Resolvable
<1> QED BY <1>1, <1>2, <1>3, <1>4, <1>5, <1>6, <1>7, <1>8 DEF ThreadInv

LEMMA EnterKeeps ==
  ASSUME IInv, NEW t \in Threads, NEW o \in All, Enter(t, o) PROVE IInv'
<1> USE DEF IInv
<1>a. UNCHANGED << linkMap, rState, loading, loads, callable, registered, pending, stack, count, at, entries, lastMap, raced, forks >>
  BY DEF Enter, loader, walk
<1>1. TypeOK'
  BY <1>a, PlaceTypes DEF TypeOK, Enter
<1>2. ListInv'
  BY <1>a DEF ListInv, Mapped, Enter
<1>3. LoadingInv'
  BY <1>a, PlaceTypes DEF LoadingInv, Mapped, Enter
<1>4. \A u \in Threads : Using(u)'
  BY <1>a, PlaceTypes DEF ThreadInv, Using, Entering, Enter
<1>5. \A u \in Threads : Marking(u)'
  BY <1>a, PlaceTypes DEF ThreadInv, Marking, Entering, Enter
<1>6. \A u \in Threads : Writing(u)'
  BY <1>a, PlaceTypes DEF ThreadInv, Writing, Mapped, Enter
<1>7. \A u \in Threads : Current(u)'
  BY <1>a, PlaceTypes DEF ThreadInv, Current, Mapped, Enter
<1>8. \A u \in Threads : Resolvable(u)'
  BY <1>a, PlaceTypes DEF ThreadInv, Resolvable, Enter
<1> QED BY <1>1, <1>2, <1>3, <1>4, <1>5, <1>6, <1>7, <1>8 DEF ThreadInv

LEMMA RegisterKeeps ==
  ASSUME IInv, NEW t \in Threads, Register(t) PROVE IInv'
<1> USE DEF IInv
<1>a. UNCHANGED << linkMap, rState, loading, loads, callable, pending, callee, stack, count, at, entries, lastMap, raced, forks >>
  BY DEF Register, loader, walk
<1>1. TypeOK'
  BY <1>a, PlaceTypes DEF TypeOK, Register
<1>2. ListInv'
  BY <1>a DEF ListInv, Mapped, Register
<1>3. LoadingInv'
  BY <1>a, PlaceTypes DEF LoadingInv, Mapped, Register
<1>4. \A u \in Threads : Using(u)'
  BY <1>a, PlaceTypes DEF ThreadInv, Using, Entering, Register
<1>5. \A u \in Threads : Marking(u)'
  BY <1>a, PlaceTypes DEF ThreadInv, Marking, Entering, Register
<1>6. \A u \in Threads : Writing(u)'
  BY <1>a, PlaceTypes DEF ThreadInv, Writing, Mapped, Register
<1>7. \A u \in Threads : Current(u)'
  <2> TAKE u \in Threads
  <2>1. CASE u = t
    BY <1>a, <2>1, PlaceTypes DEF ThreadInv, Marking, Current, Register
  <2>2. CASE u # t
    BY <1>a, <2>2, PlaceTypes DEF ThreadInv, Current, Mapped, Register
  <2> QED BY <2>1, <2>2
<1>8. \A u \in Threads : Resolvable(u)'
  BY <1>a, PlaceTypes DEF ThreadInv, Resolvable, Register
<1> QED BY <1>1, <1>2, <1>3, <1>4, <1>5, <1>6, <1>7, <1>8 DEF ThreadInv

LEMMA CheckPendingKeeps ==
  ASSUME IInv, NEW t \in Threads, CheckPending(t) PROVE IInv'
<1> USE DEF IInv
<1>a. UNCHANGED << linkMap, rState, loading, loads, callable, registered, pending, callee, stack, count, at, entries, lastMap, forks >>
  BY DEF CheckPending, loader, walk
<1>1. TypeOK'
  BY <1>a, PlaceTypes DEF TypeOK, CheckPending
<1>2. ListInv'
  BY <1>a DEF ListInv, Mapped, CheckPending
<1>3. LoadingInv'
  BY <1>a, PlaceTypes DEF LoadingInv, Mapped, CheckPending
<1>4. \A u \in Threads : Using(u)'
  BY <1>a, PlaceTypes DEF ThreadInv, Using, Entering, CheckPending
<1>5. \A u \in Threads : Marking(u)'
  BY <1>a, PlaceTypes DEF ThreadInv, Marking, Entering, CheckPending
<1>6. \A u \in Threads : Writing(u)'
  BY <1>a, PlaceTypes DEF ThreadInv, Writing, Mapped, CheckPending
<1>7. \A u \in Threads : Current(u)'
  BY <1>a, PlaceTypes DEF ThreadInv, Current, Mapped, CheckPending
<1>8. \A u \in Threads : Resolvable(u)'
  <2> TAKE u \in Threads
  <2>1. CASE u = t
    <3>1. CASE pending[t]
      BY <1>a, <2>1, <3>1, PlaceTypes DEF Resolvable, CheckPending
    <3>2. CASE ~pending[t]
      <4>1. /\ pc[t] = "check" /\ pc'[t] = "emit" /\ raced'[t] = raced[t]
            /\ callee[t] \in Mapped \ {loading.obj} /\ t \in registered
            /\ Current(t) /\ Resolvable(t)
        BY <3>2, PlaceTypes, UsedIsMapped DEF ThreadInv, Marking, Entering, CheckPending
      <4>2. ~raced[t] => callee[t] \in lastMap[t]
        BY <3>2, <4>1 DEF Current
      <4> QED BY <1>a, <2>1, <4>1, <4>2 DEF Resolvable
    <3> QED BY <3>1, <3>2
  <2>2. CASE u # t
    BY <1>a, <2>2, PlaceTypes DEF ThreadInv, Resolvable, CheckPending
  <2> QED BY <2>1, <2>2
<1> QED BY <1>1, <1>2, <1>3, <1>4, <1>5, <1>6, <1>7, <1>8 DEF ThreadInv

LEMMA GetLinkMapKeeps ==
  ASSUME IInv, NEW t \in Threads, GetLinkMap(t) PROVE IInv'
<1> USE DEF IInv
<1>a. UNCHANGED << linkMap, rState, loading, loads, callable, registered, pending, callee, stack, count, at, entries, lastMap, raced, forks >>
  BY DEF GetLinkMap, loader, walk
<1>1. TypeOK'
  BY <1>a, PlaceTypes DEF TypeOK, GetLinkMap
<1>2. ListInv'
  BY <1>a DEF ListInv, Mapped, GetLinkMap
<1>3. LoadingInv'
  BY <1>a, PlaceTypes DEF LoadingInv, Mapped, GetLinkMap
<1>4. \A u \in Threads : Using(u)'
  BY <1>a, PlaceTypes DEF ThreadInv, Using, Entering, GetLinkMap
<1>5. \A u \in Threads : Marking(u)'
  BY <1>a, PlaceTypes DEF ThreadInv, Marking, Entering, GetLinkMap
<1>6. \A u \in Threads : Writing(u)'
  <2> TAKE u \in Threads
  <2>1. CASE u = t
    BY <1>a, <2>1, PlaceTypes DEF Writing, Idle, GetLinkMap
  <2>2. CASE u # t
    BY <1>a, <2>2, PlaceTypes DEF ThreadInv, Writing, Mapped, GetLinkMap
  <2> QED BY <2>1, <2>2
<1>7. \A u \in Threads : Current(u)'
  BY <1>a, PlaceTypes DEF ThreadInv, Current, Mapped, GetLinkMap
<1>8. \A u \in Threads : Resolvable(u)'
  BY <1>a, PlaceTypes DEF ThreadInv, Resolvable, GetLinkMap
<1> QED BY <1>1, <1>2, <1>3, <1>4, <1>5, <1>6, <1>7, <1>8 DEF ThreadInv

LEMMA MapHeaderKeeps ==
  ASSUME IInv, NEW t \in Threads, MapHeader(t) PROVE IInv'
<1> USE DEF IInv
<1>a. UNCHANGED << linkMap, rState, loading, loads, callable, registered, pending, callee, stack, lastMap, raced, forks >>
  BY DEF MapHeader, loader, walk
<1>b. linkMap \in Seq(All) /\ Len(linkMap) \in Nat \ {0} /\ linkMap[1] \in All
  <2>1. linkMap \in Seq(All) /\ Len(linkMap) \in Nat /\ linkMap # << >>
    BY SequenceTypes DEF ListInv
  <2>2. Len(linkMap) # 0
    BY <2>1, EmptySeq
  <2> QED BY <2>1, <2>2, ElementOfSeq
<1>c. /\ pc[t] = "header" /\ pc' = [pc EXCEPT ![t] = "entry"]
      /\ count' = [count EXCEPT ![t] = Len(linkMap)] /\ at' = [at EXCEPT ![t] = linkMap[1]]
      /\ entries' = [entries EXCEPT ![t] = << >>]
  BY DEF MapHeader
<1>d. /\ pc'[t] = "entry" /\ count'[t] = Len(linkMap) /\ at'[t] = linkMap[1]
      /\ entries'[t] = << >> /\ Len(entries'[t]) = 0
      /\ \A u \in Threads : u # t => /\ pc'[u] = pc[u] /\ count'[u] = count[u]
                                     /\ at'[u] = at[u] /\ entries'[u] = entries[u]
  BY <1>c, PlaceTypes, SequenceTypes
<1>1. TypeOK'
  <2>1. entries' \in [Threads -> Seq(All)]
    BY <1>c, SequenceTypes
  <2>2. /\ count' \in [Threads -> Nat] /\ at' \in [Threads -> All \cup {NoOne}]
    BY <1>b, <1>c, PlaceTypes
  <2> QED BY <1>a, <1>c, <2>1, <2>2 DEF TypeOK
<1>2. ListInv'
  BY <1>a DEF ListInv, Mapped, MapHeader
<1>3. LoadingInv'
  BY <1>a, PlaceTypes DEF LoadingInv, Mapped, MapHeader
<1>4. \A u \in Threads : Using(u)'
  BY <1>a, PlaceTypes DEF ThreadInv, Using, Entering, MapHeader
<1>5. \A u \in Threads : Marking(u)'
  BY <1>a, PlaceTypes DEF ThreadInv, Marking, Entering, MapHeader
<1>6. \A u \in Threads : Writing(u)'
  <2> TAKE u \in Threads
  <2>1. Writing(u) /\ Mapped' = Mapped
    BY <1>a DEF ThreadInv, Mapped
  <2>2. CASE u = t
    <3>1. ~raced[t] => loading.stage # "last_trap"
      BY <1>c, <2>1, <2>2 DEF Writing
    <3> QED BY <1>a, <1>b, <1>d, <2>2, <3>1 DEF Writing
  <2>3. CASE u # t
    BY <1>a, <1>d, <2>1, <2>3 DEF Writing
  <2> QED BY <2>2, <2>3
<1>7. \A u \in Threads : Current(u)'
  BY <1>a, PlaceTypes DEF ThreadInv, Current, Mapped, MapHeader
<1>8. \A u \in Threads : Resolvable(u)'
  BY <1>a, PlaceTypes DEF ThreadInv, Resolvable, MapHeader
<1> QED BY <1>1, <1>2, <1>3, <1>4, <1>5, <1>6, <1>7, <1>8 DEF ThreadInv

LEMMA MapEntryKeeps ==
  ASSUME IInv, NEW t \in Threads, MapEntry(t) PROVE IInv'
<1> USE DEF IInv
<1>a. UNCHANGED << linkMap, rState, loading, loads, callable, registered, pending, pc, callee, stack, count, lastMap, raced, forks >>
  BY DEF MapEntry, loader, walk
<1> DEFINE e == entries[t]
<1>b. /\ pc[t] = "entry" /\ at[t] \in All /\ at[t] # NoOne /\ e \in Seq(All) /\ Len(e) \in Nat
      /\ entries' = [entries EXCEPT ![t] = Append(e, at[t])]
  BY PlaceTypes, SequenceTypes DEF MapEntry
<1>c. PICK o \in Following(at[t], ToSet(e)) : at' = [at EXCEPT ![t] = o]
  BY DEF MapEntry
<1>d. o \in All \cup {NoOne}
  <2>1. CASE at[t] \in Mapped
    <3> DEFINE i == CHOOSE j \in DOMAIN linkMap : linkMap[j] = at[t]
    <3>1. linkMap \in Seq(All) /\ DOMAIN linkMap = 1 .. Len(linkMap) /\ Len(linkMap) \in Nat
      BY SequenceTypes, LenProperties
    <3>2. i \in 1 .. Len(linkMap)
      BY <2>1, <3>1, MappedAreObjects
    <3> HIDE DEF i
    <3>3. o = IF i = Len(linkMap) THEN NoOne ELSE linkMap[i + 1]
      BY <2>1 DEF Following, i
    <3>4. i = Len(linkMap) \/ i + 1 \in 1 .. Len(linkMap)
      <4> DEFINE m == Len(linkMap)
      <4>1. m \in Nat /\ i \in 1 .. m
        BY <3>1, <3>2
      <4> HIDE DEF m
      <4>2. i = m \/ i + 1 \in 1 .. m
        BY <4>1
      <4> QED BY <4>2 DEF m
    <3> QED BY <3>1, <3>3, <3>4, ElementOfSeq
  <2>2. CASE at[t] \notin Mapped
    BY <2>2, MappedAreObjects DEF Following
  <2> QED BY <2>1, <2>2
<1>e. /\ Append(e, at[t]) \in Seq(All) /\ Len(Append(e, at[t])) = Len(e) + 1
      /\ \A i \in 1 .. Len(e) : Append(e, at[t])[i] = e[i]
      /\ Append(e, at[t])[Len(e) + 1] = at[t]
  BY <1>b, ToSetOfAppend
<1>f. /\ entries'[t] = Append(e, at[t]) /\ at'[t] = o
      /\ \A u \in Threads : u # t => entries'[u] = entries[u] /\ at'[u] = at[u]
  BY <1>b, <1>c, PlaceTypes, SequenceTypes
<1>1. TypeOK'
  <2>1. entries' \in [Threads -> Seq(All)]
    BY <1>b, <1>e, SequenceTypes
  <2>2. at' \in [Threads -> All \cup {NoOne}]
    BY <1>c, <1>d, PlaceTypes
  <2> QED BY <1>a, <2>1, <2>2 DEF TypeOK
<1>2. ListInv'
  BY <1>a DEF ListInv, Mapped, MapEntry
<1>3. LoadingInv'
  BY <1>a, PlaceTypes DEF LoadingInv, Mapped, MapEntry
<1>4. \A u \in Threads : Using(u)'
  BY <1>a, PlaceTypes DEF ThreadInv, Using, Entering, MapEntry
<1>5. \A u \in Threads : Marking(u)'
  BY <1>a, PlaceTypes DEF ThreadInv, Marking, Entering, MapEntry
<1>6. \A u \in Threads : Writing(u)'
  <2> TAKE u \in Threads
  <2>1. Writing(u) /\ Mapped' = Mapped
    BY <1>a DEF ThreadInv, Mapped
  <2>2. CASE u = t /\ ~raced[t]
    <3> DEFINE n == Len(e)
               m == Len(linkMap)
    <3>1. /\ count[t] = m /\ n =< m /\ loading.stage # "last_trap" /\ n \in Nat /\ m \in Nat
          /\ \A i \in 1 .. n : e[i] = linkMap[i]
          /\ at[t] = IF n = m THEN NoOne ELSE linkMap[n + 1]
      BY <1>b, <2>1, <2>2, SequenceTypes DEF Writing
    <3>2. n < m /\ at[t] = linkMap[n + 1] /\ n + 1 \in 1 .. m
      BY <1>b, <3>1
    <3>3. o = IF n + 1 = m THEN NoOne ELSE linkMap[n + 1 + 1]
      <4> DEFINE k == CHOOSE j \in DOMAIN linkMap : linkMap[j] = at[t]
      <4>1. DOMAIN linkMap = 1 .. m
        BY SequenceTypes, LenProperties
      <4>2. k = n + 1
        BY <3>2, <4>1 DEF ListInv
      <4>3. at[t] \in Mapped
        BY <3>2, MappedAreObjects
      <4>4. o = IF k = Len(linkMap) THEN NoOne ELSE linkMap[k + 1]
        BY <4>3 DEF Following
      <4> HIDE DEF k
      <4> QED BY <4>2, <4>4
    <3>4. /\ Len(entries'[t]) = n + 1 /\ n + 1 =< m
          /\ \A i \in 1 .. n + 1 : entries'[t][i] = linkMap[i]
      <4>1. \A i \in 1 .. n + 1 : i \in 1 .. n \/ i = n + 1
        BY <3>1
      <4> QED BY <1>e, <1>f, <3>1, <3>2, <4>1
    <3> HIDE DEF n, m, e
    <3>5. m = Len(linkMap)
      BY DEF m
    <3> QED BY <1>a, <1>b, <1>f, <2>2, <3>1, <3>3, <3>4, <3>5 DEF Writing
  <2>3. CASE u # t \/ raced[t]
    BY <1>a, <1>f, <2>1, <2>3 DEF Writing
  <2> QED BY <2>2, <2>3
<1>7. \A u \in Threads : Current(u)'
  BY <1>a, PlaceTypes DEF ThreadInv, Current, Mapped, MapEntry
<1>8. \A u \in Threads : Resolvable(u)'
  BY <1>a, PlaceTypes DEF ThreadInv, Resolvable, MapEntry
<1> QED BY <1>1, <1>2, <1>3, <1>4, <1>5, <1>6, <1>7, <1>8 DEF ThreadInv

LEMMA MapEndKeeps ==
  ASSUME IInv, NEW t \in Threads, NameFits, MapEnd(t) PROVE IInv'
<1> USE DEF IInv
<1>a. UNCHANGED << linkMap, rState, loading, loads, callable, registered, pending, callee, stack, count, at, entries, raced, forks >>
  BY DEF MapEnd, loader, walk
<1>b. /\ pc[t] = "entry" /\ at[t] = NoOne /\ pc' = [pc EXCEPT ![t] = "clear"]
      /\ lastMap' = [lastMap EXCEPT ![t] = ToSet(entries[t])]
      /\ entries[t] \in Seq(All) /\ Len(entries[t]) \in Nat
  BY SequenceTypes DEF MapEnd
<1>c. ToSet(entries[t]) \subseteq All
  BY <1>b, InToSet, ElementOfSeq
<1>d. /\ pc'[t] = "clear" /\ lastMap'[t] = ToSet(entries[t]) /\ Mapped' = Mapped
      /\ \A u \in Threads : u # t => pc'[u] = pc[u] /\ lastMap'[u] = lastMap[u]
  BY <1>a, <1>b, PlaceTypes DEF Mapped
\* The walk has come to the end of the list.
<1>e. ~raced[t] => /\ loading.stage # "last_trap" /\ Len(entries[t]) = count[t]
                   /\ ToSet(entries[t]) = Mapped
  <2> SUFFICES ASSUME ~raced[t]
               PROVE  /\ loading.stage # "last_trap" /\ Len(entries[t]) = count[t]
                      /\ ToSet(entries[t]) = Mapped
    OBVIOUS
  <2>1. Writing(t)
    BY DEF ThreadInv
  <2>2. /\ linkMap \in Seq(All) /\ Len(linkMap) \in Nat
        /\ \A i \in 1 .. Len(linkMap) : linkMap[i] # NoOne
    BY SequenceTypes, MappedAreObjects
  <2>3. /\ loading.stage # "last_trap" /\ count[t] = Len(linkMap)
        /\ Len(entries[t]) =< Len(linkMap)
        /\ \A i \in 1 .. Len(entries[t]) : entries[t][i] = linkMap[i]
        /\ at[t] = IF Len(entries[t]) = Len(linkMap) THEN NoOne
                   ELSE linkMap[Len(entries[t]) + 1]
    BY <1>b, <2>1 DEF Writing
  <2>4. Len(entries[t]) = Len(linkMap)
    <3> DEFINE n == Len(entries[t])
               m == Len(linkMap)
    <3>1. n \in Nat /\ m \in Nat /\ n =< m
      BY <1>b, <2>2, <2>3
    <3> HIDE DEF n, m
    <3>2. n # m => n + 1 \in 1 .. m
      BY <3>1
    <3> QED BY <1>b, <2>2, <2>3, <3>2 DEF n, m
  <2>5. \A x : x \in ToSet(entries[t]) <=> x \in ToSet(linkMap)
    BY <1>b, <2>2, <2>3, <2>4, InToSet
  <2> QED BY <2>3, <2>4, <2>5 DEF Mapped
<1>1. TypeOK'
  BY <1>a, <1>b, <1>c DEF TypeOK
<1>2. ListInv'
  BY <1>a DEF ListInv, Mapped, MapEnd
<1>3. LoadingInv'
  BY <1>a, PlaceTypes DEF LoadingInv, Mapped, MapEnd
<1>4. \A u \in Threads : Using(u)'
  BY <1>a, PlaceTypes DEF ThreadInv, Using, Entering, MapEnd
<1>5. \A u \in Threads : Marking(u)'
  BY <1>a, PlaceTypes DEF ThreadInv, Marking, Entering, MapEnd
<1>6. \A u \in Threads : Writing(u)'
  BY <1>a, <1>d, <1>e DEF ThreadInv, Writing
<1>7. \A u \in Threads : Current(u)'
  BY <1>a, PlaceTypes DEF ThreadInv, Current, Mapped, MapEnd
<1>8. \A u \in Threads : Resolvable(u)'
  <2> TAKE u \in Threads
  <2>1. CASE u = t
    BY <1>a, <1>d, <1>e, <2>1, UsedIsMapped DEF Resolvable
  <2>2. CASE u # t
    BY <1>a, <1>d, <2>2 DEF ThreadInv, Resolvable
  <2> QED BY <2>1, <2>2
<1> QED BY <1>1, <1>2, <1>3, <1>4, <1>5, <1>6, <1>7, <1>8 DEF ThreadInv

LEMMA ClearPendingKeeps ==
  ASSUME IInv, NEW t \in Threads, ClearPending(t) PROVE IInv'
<1> USE DEF IInv
<1>a. UNCHANGED << linkMap, rState, loading, loads, callable, registered, callee, stack, count, at, entries, lastMap, raced, forks >>
  BY DEF ClearPending, loader, walk
<1>b. /\ pc[t] = "clear" /\ pc'[t] = "emit" /\ Mapped' = Mapped
      /\ \A u \in Threads : u # t => pc'[u] = pc[u] /\ pending'[u] = pending[u]
      /\ Writing(t)
  BY <1>a, PlaceTypes DEF ClearPending, Mapped, ThreadInv
<1>1. TypeOK'
  BY <1>a, PlaceTypes DEF TypeOK, ClearPending
<1>2. ListInv'
  BY <1>a DEF ListInv, Mapped, ClearPending
<1>3. LoadingInv'
  BY <1>a, PlaceTypes DEF LoadingInv, Mapped, ClearPending
<1>4. \A u \in Threads : Using(u)'
  BY <1>a, PlaceTypes DEF ThreadInv, Using, Entering, ClearPending
<1>5. \A u \in Threads : Marking(u)'
  BY <1>a, PlaceTypes DEF ThreadInv, Marking, Entering, ClearPending
<1>6. \A u \in Threads : Writing(u)'
  BY <1>a, PlaceTypes DEF ThreadInv, Writing, Mapped, ClearPending
<1>7. \A u \in Threads : Current(u)'
  <2> TAKE u \in Threads
  <2>1. CASE u = t
    BY <1>a, <1>b, <2>1 DEF Writing, Current
  <2>2. CASE u # t
    BY <1>a, <1>b, <2>2 DEF ThreadInv, Current
  <2> QED BY <2>1, <2>2
<1>8. \A u \in Threads : Resolvable(u)'
  <2> TAKE u \in Threads
  <2>1. CASE u = t
    BY <1>a, <1>b, <2>1, UsedIsMapped DEF Writing, Resolvable, Entering
  <2>2. CASE u # t
    BY <1>a, <1>b, <2>2 DEF ThreadInv, Resolvable
  <2> QED BY <2>1, <2>2
<1> QED BY <1>1, <1>2, <1>3, <1>4, <1>5, <1>6, <1>7, <1>8 DEF ThreadInv

LEMMA EmitEnterKeeps ==
  ASSUME IInv, NEW t \in Threads, EmitEnter(t) PROVE IInv'
<1> USE DEF IInv
<1>a. UNCHANGED << linkMap, rState, loading, loads, callable, registered, pending, count, at, entries, lastMap, raced, forks >>
  BY DEF EmitEnter, loader, walk
<1>b. /\ pc[t] = "emit" /\ callee[t] \in All /\ callee[t] \in Mapped \ {loading.obj}
      /\ stack[t] \in Seq(All)
      /\ callee[t] \in callable \ {loading.obj}
      /\ stack' = [stack EXCEPT ![t] = Append(stack[t], callee[t])]
      /\ callee' = [callee EXCEPT ![t] = NoOne] /\ pc' = [pc EXCEPT ![t] = "app"]
  <2>1. pc[t] = "emit" /\ callee[t] # NoOne
    BY UsedIsMapped DEF EmitEnter, Entering
  <2> QED BY <2>1, PlaceTypes, SequenceTypes, UsedIsMapped DEF EmitEnter, ThreadInv, Using
<1>c. /\ Append(stack[t], callee[t]) \in Seq(All)
      /\ ToSet(Append(stack[t], callee[t])) = ToSet(stack[t]) \cup {callee[t]}
  BY <1>b, ToSetOfAppend
<1>d. /\ stack'[t] = Append(stack[t], callee[t]) /\ callee'[t] = NoOne /\ pc'[t] = "app"
      /\ \A u \in Threads : u # t =>
           stack'[u] = stack[u] /\ callee'[u] = callee[u] /\ pc'[u] = pc[u]
  BY <1>b, PlaceTypes, SequenceTypes
<1>1. TypeOK'
  <2>1. stack' \in [Threads -> Seq(All)]
    BY <1>b, <1>c, SequenceTypes
  <2>2. callee' \in [Threads -> All \cup {NoOne}]
    BY <1>b, PlaceTypes
  <2> QED BY <1>a, <1>b, <2>1, <2>2 DEF TypeOK
<1>2. ListInv'
  BY <1>a DEF ListInv, Mapped, EmitEnter
<1>3. LoadingInv'
  BY <1>a, PlaceTypes DEF LoadingInv, Mapped, EmitEnter
<1>4. \A u \in Threads : Using(u)'
  BY <1>a, <1>b, <1>c, <1>d DEF ThreadInv, Using, Entering
<1>5. \A u \in Threads : Marking(u)'
  BY <1>a, PlaceTypes DEF ThreadInv, Marking, Entering, EmitEnter
<1>6. \A u \in Threads : Writing(u)'
  BY <1>a, PlaceTypes DEF ThreadInv, Writing, Mapped, EmitEnter
<1>7. \A u \in Threads : Current(u)'
  BY <1>a, PlaceTypes DEF ThreadInv, Current, Mapped, EmitEnter
<1>8. \A u \in Threads : Resolvable(u)'
  <2> TAKE u \in Threads
  <2>1. Resolvable(u)
    BY DEF ThreadInv
  <2>2. CASE u = t
    BY <1>a, <1>b, <1>c, <1>d, <2>1, <2>2 DEF Resolvable
  <2>3. CASE u # t
    BY <1>a, <1>d, <2>1, <2>3 DEF Resolvable
  <2> QED BY <2>2, <2>3
<1> QED BY <1>1, <1>2, <1>3, <1>4, <1>5, <1>6, <1>7, <1>8 DEF ThreadInv

LEMMA LeaveKeeps ==
  ASSUME IInv, NEW t \in Threads, Leave(t) PROVE IInv'
<1> USE DEF IInv
<1>a. UNCHANGED << linkMap, rState, loading, loads, callable, registered, pending, pc, callee, count, at, entries, lastMap, raced, forks >>
  BY DEF Leave, loader, walk
<1>b. /\ Front(stack[t]) \in Seq(All) /\ ToSet(Front(stack[t])) \subseteq ToSet(stack[t])
      /\ stack' = [stack EXCEPT ![t] = Front(stack[t])]
  BY SequenceTypes, ToSetOfFront DEF Leave
<1>c. \A u \in Threads : ToSet(stack'[u]) \subseteq ToSet(stack[u])
  BY <1>b, SequenceTypes
<1>1. TypeOK'
  <2>1. stack' \in [Threads -> Seq(All)]
    BY <1>b, SequenceTypes
  <2> QED BY <1>a, <2>1 DEF TypeOK
<1>2. ListInv'
  BY <1>a DEF ListInv, Mapped, Leave
<1>3. LoadingInv'
  BY <1>a, PlaceTypes DEF LoadingInv, Mapped, Leave
<1>4. \A u \in Threads : Using(u)'
  BY <1>a, <1>c DEF ThreadInv, Using
<1>5. \A u \in Threads : Marking(u)'
  BY <1>a, PlaceTypes DEF ThreadInv, Marking, Entering, Leave
<1>6. \A u \in Threads : Writing(u)'
  BY <1>a, PlaceTypes DEF ThreadInv, Writing, Mapped, Leave
<1>7. \A u \in Threads : Current(u)'
  BY <1>a, PlaceTypes DEF ThreadInv, Current, Mapped, Leave
<1>8. \A u \in Threads : Resolvable(u)'
  BY <1>a, <1>c DEF ThreadInv, Resolvable
<1> QED BY <1>1, <1>2, <1>3, <1>4, <1>5, <1>6, <1>7, <1>8 DEF ThreadInv

LEMMA ForkKeeps ==
  ASSUME IInv, NEW t \in Threads, Fork(t) PROVE IInv'
<1> USE DEF IInv
<1>a. /\ UNCHANGED << linkMap, rState, loads, count, at, entries, raced >>
      /\ loading' = Idle /\ callable' = callable \ {loading.obj} /\ Mapped' = Mapped
      /\ loading'.obj = NoOne /\ loading'.stage = "none"
  BY DEF Fork, loader, walk, Idle, Mapped
<1>b. /\ stack' = [u \in Threads |-> IF u = t THEN stack[t] ELSE << >>]
      /\ \A u \in Threads : ToSet(stack'[u]) \subseteq ToSet(stack[u])
  BY ToSetOfEmpty DEF Fork
\* The program itself is never what is being loaded.
<1>c. /\ loading.obj \in Objects \cup {NoOne} /\ NoOne \notin All /\ Main \notin Objects
      /\ callable \subseteq All /\ forks \in Nat /\ Main # NoOne
  BY PlaceTypes, MapChangeAssumption
<1>d. /\ forks' = forks + 1 /\ registered' = {t} /\ pending'[t] = TRUE /\ lastMap'[t] = {}
      /\ \A u \in Threads : callee'[u] = NoOne /\ pc'[u] = IF u = t THEN "app" ELSE "gone"
      /\ \A u \in Threads : u # t => pending'[u] = pending[u] /\ lastMap'[u] = lastMap[u]
  BY PlaceTypes DEF Fork
<1>1. TypeOK'
  <2>1. stack' \in [Threads -> Seq(All)]
    BY <1>b, SequenceTypes
  <2>2. /\ callee' \in [Threads -> All \cup {NoOne}] /\ lastMap' \in [Threads -> SUBSET All]
        /\ pending' \in [Threads -> BOOLEAN] /\ registered' \subseteq Threads
        /\ forks' \in 0 .. MaxForks
    BY PlaceTypes, MapChangeAssumption DEF Fork
  <2>3. pc' \in [Threads -> {"app", "register", "check", "map", "header", "entry",
                             "clear", "emit", "gone"}]
    BY DEF Fork
  <2>4. /\ loading' \in [by : Threads \cup {NoOne}, obj : Objects \cup {NoOne},
                        stage : {"none", "first_trap", "change", "last_trap"}]
        /\ callable' \subseteq All
    BY <1>a, <1>c DEF Idle
  <2> QED BY <1>a, <2>1, <2>2, <2>3, <2>4 DEF TypeOK
<1>2. ListInv'
  BY <1>a, <1>c DEF ListInv
<1>3. LoadingInv'
  BY <1>a DEF LoadingInv
<1>4. \A u \in Threads : Using(u)'
  <2> TAKE u \in Threads
  <2>1. ToSet(stack'[u]) \subseteq callable \ {loading.obj}
    BY <1>b DEF ThreadInv, Using
  <2>2. callable' \ {loading'.obj} = callable \ {loading.obj}
    BY <1>a, <1>c DEF All
  <2>3. callee'[u] = NoOne /\ pc'[u] \notin Entering
    BY <1>d DEF Entering
  <2> QED BY <2>1, <2>2, <2>3 DEF Using
<1>5. \A u \in Threads : Marking(u)'
  BY <1>d DEF Marking, Entering
<1>6. \A u \in Threads : Writing(u)'
  BY <1>d DEF Writing
<1>7. \A u \in Threads : Current(u)'
  BY <1>d DEF Current
<1>8. \A u \in Threads : Resolvable(u)'
  BY <1>c, <1>d DEF Resolvable
<1> QED BY <1>1, <1>2, <1>3, <1>4, <1>5, <1>6, <1>7, <1>8 DEF ThreadInv

-----------------------------------------------------------------------------
(* The invariant *)

LEMMA InitInvariant == ASSUME Init PROVE IInv
<1> USE DEF Init
<1>a. NoOne \notin All /\ Main \in All /\ Main \notin Objects
  BY MapChangeAssumption DEF All
<1>b. /\ linkMap \in Seq(All) /\ Len(linkMap) = 1 /\ linkMap[1] = Main /\ linkMap # << >>
  BY <1>a
<1>c. Mapped = {Main}
  <2>1. \A o : o \in Mapped <=> \E i \in 1 .. Len(linkMap) : linkMap[i] = o
    <3> HIDE DEF Init
    <3>1. linkMap \in Seq(All)
      BY <1>b
    <3> QED BY <3>1, InToSet DEF Mapped
  <2>2. \A i \in 1 .. Len(linkMap) : i = 1
    BY <1>b
  <2> QED BY <1>b, <2>1, <2>2
<1>1. TypeOK
  <2>1. << >> \in Seq(All) /\ 0 \in Nat /\ 0 \in 0 .. MaxForks
    BY MapChangeAssumption
  <2> QED BY <1>a, <1>b, <2>1 DEF TypeOK, Idle
<1>2. ListInv
  <2>1. \A i, j \in 1 .. Len(linkMap) : i = j
    BY <1>b
  <2> QED BY <1>a, <1>b, <1>c, <2>1 DEF ListInv
<1>3. LoadingInv
  BY DEF LoadingInv, Idle
<1>4. ThreadInv
  BY <1>a, <1>c, ToSetOfEmpty DEF ThreadInv, Using, Marking, Writing, Current, Resolvable,
     Entering, Idle
<1> QED BY <1>1, <1>2, <1>3, <1>4 DEF IInv

LEMMA StutteringInvariant == ASSUME IInv, UNCHANGED vars PROVE IInv'
<1>1. /\ UNCHANGED << linkMap, rState, loading, loads, callable, registered, pending >>
      /\ UNCHANGED << pc, callee, stack, count, at, entries, lastMap, raced, forks >>
  BY DEF vars, loader, walk
<1>2. TypeOK'
  BY <1>1 DEF IInv, TypeOK
<1>3. ListInv' /\ LoadingInv'
  BY <1>1 DEF IInv, ListInv, LoadingInv, Mapped
<1>4. \A t \in Threads : Using(t)' /\ Marking(t)'
  BY <1>1 DEF IInv, ThreadInv, Using, Marking
<1>5. \A t \in Threads : Writing(t)' /\ Current(t)' /\ Resolvable(t)'
  BY <1>1 DEF IInv, ThreadInv, Writing, Current, Resolvable, Mapped
<1> QED BY <1>2, <1>3, <1>4, <1>5 DEF IInv, ThreadInv

LEMMA NextInvariant == ASSUME NameFits, IInv, [Next]_vars PROVE IInv'
<1>1. CASE UNCHANGED vars
  BY <1>1, StutteringInvariant
<1>2. ASSUME NEW t \in Threads, NEW o \in Objects, BeginOpen(t, o) \/ BeginClose(t, o)
      PROVE  IInv'
  BY <1>2, BeginOpenKeeps, BeginCloseKeeps
<1>3. ASSUME NEW t \in Threads, NEW o \in All, Enter(t, o) PROVE IInv'
  BY <1>3, EnterKeeps
<1>4. ASSUME NEW t \in Threads,
             \/ ChangeList(t) \/ TrapHandler(t) \/ Register(t) \/ CheckPending(t)
             \/ GetLinkMap(t) \/ MapHeader(t) \/ MapEntry(t) \/ MapEnd(t) \/ ClearPending(t)
             \/ EmitEnter(t) \/ Leave(t) \/ Fork(t)
      PROVE  IInv'
  BY <1>4, ChangeListKeeps, TrapHandlerKeeps, RegisterKeeps, CheckPendingKeeps,
     GetLinkMapKeeps, MapHeaderKeeps, MapEntryKeeps, MapEndKeeps, ClearPendingKeeps,
     EmitEnterKeeps, LeaveKeeps, ForkKeeps
<1> QED BY <1>1, <1>2, <1>3, <1>4 DEF Next

\* In every state of a program whose name fits in the buffer of write_map.
THEOREM Invariance == ASSUME NameFits PROVE Spec => []IInv
<1>1. ASSUME IInv, [Next]_vars PROVE IInv'
  BY <1>1, NextInvariant
<1> QED BY <1>1, InitInvariant, PTL DEF Spec

-----------------------------------------------------------------------------
(* What follows from it *)

\* The object of an ENTER record is in the last map before it, if the loader has
\* not changed its list while the thread wrote that map.
THEOREM EnterIsResolvable == ASSUME NameFits PROVE Spec => []EnterUnlessRaced
<1>1. ASSUME IInv PROVE EnterUnlessRaced
  BY <1>1 DEF IInv, ThreadInv, Resolvable, EnterUnlessRaced
<1> QED BY <1>1, Invariance, PTL

\* A registered thread that trap_handler has not marked since its last map has
\* the list of the loader in that map, with nothing missing and nothing gone.
THEOREM MapIsCurrent == ASSUME NameFits PROVE Spec => []MapCurrent
<1>1. ASSUME IInv PROVE MapCurrent
  <2> SUFFICES ASSUME NEW t \in registered, pc[t] \in {"app", "check", "emit"},
                      loading = Idle, ~pending[t], ~raced[t]
               PROVE  lastMap[t] = Mapped
    BY DEF MapCurrent
  <2>1. t \in Threads /\ loading.stage = "none"
    BY <1>1, PlaceTypes DEF IInv, Idle
  <2> QED BY <1>1, <2>1 DEF IInv, ThreadInv, Current
<1> QED BY <1>1, Invariance, PTL

\* The object of a LEAVE record is in the last map before it, however many maps
\* ago the call began; or no map precedes it, in the dump of a forked child.
THEOREM LeaveIsResolvable == ASSUME NameFits PROVE Spec => LeaveUnlessRaced
<1>1. ASSUME IInv, NEW t \in Threads, Leave(t), ~raced[t]
      PROVE  Last(stack[t]) \in lastMap[t] \/ (lastMap[t] = {} /\ forks > 0)
  <2>1. Last(stack[t]) \in ToSet(stack[t]) /\ pc[t] = "app"
    BY <1>1, SequenceTypes, ToSetOfFront DEF IInv, Leave
  <2> QED BY <1>1, <2>1 DEF IInv, ThreadInv, Resolvable
<1>2. ASSUME IInv
      PROVE  [\A t \in Threads : Leave(t) /\ ~raced[t] =>
                \/ Last(stack[t]) \in lastMap[t]
                \/ lastMap[t] = {} /\ forks > 0]_vars
  BY <1>1, <1>2
<1> QED BY <1>2, Invariance, PTL DEF LeaveUnlessRaced
===============================================================================
