----------------------------- MODULE ManagerProofs ----------------------------
(***************************************************************************)
(* Whatever its threads do and however often it forks, a profiled program  *)
(* whose main thread has recorded before it creates other threads has all  *)
(* its records in its dumps, in order and once: for every set of threads,  *)
(* number of processes, number of records and size of the buffers.         *)
(***************************************************************************)
EXTENDS Manager, SequenceTheorems, TLAPS

(* The inductive invariant *)

Booting  == {"reset", "hook", "create", "mark"}
Entering == Booting \cup {"child", "check", "register", "insert"}

\* While the manager of a process is being started there is one thread in it,
\* but for the manager thread itself once it has been created.
Alone ==
  \A t \in App, u \in Threads :
    /\ Proc(t) = Proc(u) /\ t # u /\ pc[t] # "unborn"
    /\ ~initialized[Proc(t)] \/ pc[t] = "child"
    => pc[u] = "unborn" \/ (pc[t] = "mark" /\ u \notin App)

\* What a thread knows of the manager of its process.
Starting(t) ==
  LET p == Proc(t) IN
  /\ pc[t] \in Booting => ~initialized[p]
  /\ pc[t] \in {"register", "insert"} => initialized[p]
  /\ pc[t] \in {"app", "check", "prepare", "parent"} /\ list[p] = << >> => ~initialized[p]
  /\ pc[t] \in {"app", "prepare", "parent"} /\ ~initialized[p] =>
       handlers[p] = 0 /\ list[p] = << >> /\ ~known[t]
  /\ pc[t] \in {"prepare", "parent"} /\ initialized[p] => calls[t] > 0
  /\ pc[t] \in {"prepare", "parent"} /\ ~initialized[p] => calls[t] = 0
  /\ pc[t] \in {"create", "mark"} => handlers[p] > 0
  /\ pc[t] = "child" => list[p] # << >>

\* pthread_atfork has been called before the manager is marked as started.
Hooked(p) == initialized[p] => handlers[p] > 0

\* A thread holds the mutex where the code of its place relies on it.
Critical(t) ==
  \/ pc[t] \in {"insert", "flush", "write", "commit", "child"}
  \/ t \in App /\ pc[t] = "prepare" /\ locked[t] > 0
  \/ t \in App /\ pc[t] = "parent" /\ calls[t] > 0

Locked(t) == Critical(t) => mutex[Proc(t)] = t

Unlocked(t) == pc[t] \notin {"prepare", "parent"} => locked[t] = 0

\* A thread that is known is in the list.
Listed(o) == known[o] /\ pc[o] \notin Entering => o \in ToSet(list[Proc(o)])

\* A list holds threads of its process, except the one a child has from its
\* parent; so does what is left of it to a thread that flushes.
OwnList(p) ==
  (\A u \in App : Proc(u) = p => pc[u] # "child") =>
    \A o \in ToSet(list[p]) : Proc(o) = p

OwnCursor(t) ==
  /\ pc[t] \in {"flush", "write", "commit"} => \A o \in ToSet(cursor[t]) : Proc(o) = Proc(t)
  /\ pc[t] \in {"write", "commit"} => cursor[t] # << >>

\* Threads that have not begun, or not recorded, have left nothing anywhere.
Silent(o) ==
  /\ pc[o] \in Entering \/ ~known[o] => made[o] = 0
  /\ pc[o] = "unborn" =>
       ~known[o] /\ dump[o] = << >> /\ \A p \in Procs : buf[p][o] = << >>

\* The records of a thread: a dump without junk, and behind it the buffer, of
\* which a thread that is about to commit has written a part already.
Committing(t, o) == pc[t] = "commit" /\ Head(cursor[t]) = o

Records(o) ==
  LET b == buf[Proc(o)][o] IN
  /\ \A i \in 1 .. Len(dump[o]) : dump[o][i] \in {i, Junk}
  /\ \A i \in 1 .. Len(b) : b[i] = made[o] - Len(b) + i
  /\ Clean(o) =>
       /\ (\A t \in Threads : ~Committing(t, o)) => Len(dump[o]) + Len(b) = made[o]
       /\ \A t \in Threads : Committing(t, o) =>
            taken[t] =< Len(b) /\ Len(dump[o]) + Len(b) = made[o] + taken[t]

\* What get_read_size has seen is still there when it is written, and is all
\* that the thread that exits has to write of this buffer.
Writing(t, o) == pc[t] = "write" /\ Head(cursor[t]) = o

Seen(o) ==
  \A t \in Threads : Writing(t, o) =>
    /\ taken[t] =< Len(buf[Proc(o)][o])
    /\ t \in App /\ Clean(o) => Len(dump[o]) + taken[t] >= atExit[o]

\* What the thread that exits has still to write it will find in its cursor.
Exiting(o) ==
  /\ atExit[o] =< made[o]
  /\ \A t \in App : Proc(t) = Proc(o) /\ pc[t] \in {"flush", "write", "commit"} =>
       \/ ~Clean(o) \/ Len(dump[o]) >= atExit[o]
       \/ o \in ToSet(cursor[t]) /\ ~Committing(t, o)
  /\ Proc(o) \in ended /\ Clean(o) => Len(dump[o]) >= atExit[o]

ThreadInv ==
  \A t \in Threads : Locked(t) /\ OwnCursor(t)
AppInv ==
  \A t \in App : /\ Starting(t) /\ Unlocked(t) /\ Listed(t) /\ Silent(t)
                 /\ Records(t) /\ Seen(t) /\ Exiting(t)

ProcInv ==
  \A p \in Procs : Hooked(p) /\ OwnList(p)

IInv == TypeOK /\ Alone /\ ThreadInv /\ AppInv /\ ProcInv

-----------------------------------------------------------------------------
(* Threads, types and sequences *)

LEMMA ThreadFacts ==
  /\ Threads = App \cup Flushers /\ Free \notin Threads
  /\ \A t \in Threads : Proc(t) \in Procs
  /\ \A t \in App : t \notin Flushers
BY ManagerAssumption DEF Threads, App, Flushers, Procs, Proc

LEMMA ChildFacts ==
  ASSUME NEW t \in App, NEW c \in Procs
  PROVE  << c, Name(t) >> \in App /\ Proc(<< c, Name(t) >>) = c
BY DEF App, Proc, Name

\* The types of what has no sequences in it, and of what has.
LEMMA PlaceTypes ==
  ASSUME TypeOK
  PROVE  /\ pc \in [Threads -> Places] /\ known \in [App -> BOOLEAN]
         /\ calls \in [App -> Nat] /\ locked \in [App -> Nat]
         /\ initialized \in [Procs -> BOOLEAN] /\ handlers \in [Procs -> Nat]
         /\ mutex \in [Procs -> Threads \cup {Free}]
         /\ made \in [App -> 0 .. MaxRecords] /\ atExit \in [App -> 0 .. MaxRecords]
         /\ \A t \in Flushers : pc[t] \in {"unborn", "sleep", "flush", "write", "commit"}
         /\ \A t \in App : pc[t] # "sleep"
         /\ ended \subseteq Procs /\ taken \in [Threads -> Nat]
BY DEF TypeOK

LEMMA SequenceTypes ==
  ASSUME TypeOK
  PROVE  /\ list \in [Procs -> Seq(App)] /\ cursor \in [Threads -> Seq(App)]
         /\ buf \in [Procs -> [App -> Seq(1 .. MaxRecords)]]
         /\ dump \in [App -> Seq(0 .. MaxRecords)]
         /\ \A p \in Procs, o \in App : Len(buf[p][o]) \in Nat /\ Len(buf[p][o]) =< BufferSize
         /\ \A o \in App : Len(dump[o]) \in Nat
BY DEF TypeOK

LEMMA ToSetOfEmpty == ToSet(<< >>) = {}
BY DEF ToSet

LEMMA InToSet ==
  ASSUME NEW S, NEW s \in Seq(S), NEW e
  PROVE  e \in ToSet(s) <=> \E i \in 1 .. Len(s) : s[i] = e
BY LenProperties DEF ToSet

LEMMA ToSetOfSequence ==
  ASSUME NEW S, NEW s \in Seq(S)
  PROVE  /\ ToSet(s) \subseteq S
         /\ s # << >> => ToSet(s) = {Head(s)} \cup ToSet(Tail(s))
         /\ \A e \in S : ToSet(<< e >> \o s) = {e} \cup ToSet(s)
<1>1. ToSet(s) \subseteq S
  BY ElementOfSeq, LenProperties DEF ToSet
<1>2. ASSUME s # << >> PROVE ToSet(s) = {Head(s)} \cup ToSet(Tail(s))
  <2>1. /\ Len(s) \in Nat \ {0} /\ DOMAIN s = 1 .. Len(s)
        /\ Tail(s) \in Seq(S) /\ Len(Tail(s)) = Len(s) - 1 /\ DOMAIN Tail(s) = 1 .. Len(s) - 1
        /\ \A i \in 1 .. Len(s) - 1 : Tail(s)[i] = s[i + 1]
    BY <1>2, EmptySeq, LenProperties, HeadTailProperties
  <2>2. \A i \in 1 .. Len(s) : i = 1 \/ (i - 1 \in 1 .. Len(s) - 1 /\ Tail(s)[i - 1] = s[i])
    BY <2>1
  <2>3. \A e : (\E i \in 1 .. Len(s) : s[i] = e)
                 <=> e = Head(s) \/ \E i \in 1 .. Len(Tail(s)) : Tail(s)[i] = e
    BY <1>2, <2>1, <2>2, HeadTailProperties
  <2>4. \A e : e \in ToSet(s) <=> e = Head(s) \/ e \in ToSet(Tail(s))
    BY ZenonT(40), <2>1, <2>3, InToSet
  <2> QED BY <2>4
<1>3. ASSUME NEW e \in S PROVE ToSet(<< e >> \o s) = {e} \cup ToSet(s)
  <2> DEFINE r == << e >> \o s
  <2>1. << e >> \in Seq(S) /\ Len(<< e >>) = 1 /\ << e >>[1] = e
    OBVIOUS
  <2>2. /\ Len(s) \in Nat /\ DOMAIN s = 1 .. Len(s)
        /\ r \in Seq(S) /\ DOMAIN r = 1 .. Len(s) + 1 /\ r[1] = e
        /\ \A i \in 1 .. Len(s) : r[i + 1] = s[i]
    BY <2>1, LenProperties, ConcatProperties
  <2>3. \A i \in 1 .. Len(s) + 1 : i = 1 \/ (i - 1 \in 1 .. Len(s) /\ r[i] = s[i - 1])
    BY <2>2
  <2> HIDE DEF r
  <2>4. \A x : x \in ToSet(r) <=> x = e \/ x \in ToSet(s)
    BY SMTT(30), <2>2, <2>3, InToSet
  <2> QED BY <2>4 DEF r
<1> QED BY <1>1, <1>2, <1>3

-----------------------------------------------------------------------------
(* What the parts of the invariant say where they are used *)

\* The thread that starts the manager, and the one that begins in a child, has
\* its process to itself.
LEMMA NobodyElse ==
  ASSUME IInv, NEW t \in App, NEW u \in Threads, Proc(u) = Proc(t), u # t,
         pc[t] \notin {"unborn", "mark"}, ~initialized[Proc(t)] \/ pc[t] = "child"
  PROVE  pc[u] = "unborn"
BY DEF IInv, Alone

\* What is said of a thread stays true while what it is about stays the same.
LEMMA StartingStays ==
  ASSUME NEW x \in App, Starting(x), pc'[x] = pc[x], known'[x] = known[x], calls'[x] = calls[x],
         initialized'[Proc(x)] = initialized[Proc(x)], handlers'[Proc(x)] = handlers[Proc(x)],
         \/ list'[Proc(x)] = list[Proc(x)]
         \/ list'[Proc(x)] # << >> /\ initialized[Proc(x)]
  PROVE  Starting(x)'
BY DEF Starting

LEMMA StartingUnborn ==
  ASSUME NEW x \in App, pc'[x] = "unborn" PROVE Starting(x)'
BY DEF Starting, Booting

\* Only one thread of a process flushes, and threads of its process.
LEMMA OneCommits ==
  ASSUME IInv, NEW t \in Threads, NEW o \in App, Writing(t, o) \/ Committing(t, o)
  PROVE  Proc(t) = Proc(o) /\ mutex[Proc(o)] = t
<1>1. cursor[t] # << >> /\ cursor[t] \in Seq(App)
  BY SequenceTypes DEF IInv, ThreadInv, OwnCursor, Committing, Writing
<1>2. o \in ToSet(cursor[t])
  BY <1>1, ToSetOfSequence DEF Committing, Writing
<1> QED BY <1>2 DEF IInv, ThreadInv, OwnCursor, Locked, Critical, Committing, Writing

\* Who is in the list, of all that have recorded.
LEMMA RecordersAreListed ==
  ASSUME IInv, NEW o \in App, made[o] # 0 PROVE o \in ToSet(list[Proc(o)])
BY PlaceTypes DEF IInv, AppInv, Silent, Listed

\* The records of a thread are in order while none is made, written or dropped.
LEMMA RecordsStay ==
  ASSUME NEW o \in App, Records(o), dump'[o] = dump[o], made'[o] = made[o],
         buf'[Proc(o)][o] = buf[Proc(o)][o],
         \A t \in Threads : Committing(t, o)' <=> Committing(t, o),
         \A t \in Threads : Committing(t, o) => taken'[t] = taken[t]
  PROVE  Records(o)'
BY DEF Records, Clean

-----------------------------------------------------------------------------
(* What is done to numbered records *)

LEMMA RecordsAppended ==
  ASSUME NEW S \in SUBSET Int, NEW b \in Seq(S), NEW n \in Nat, n + 1 \in S,
         \A i \in 1 .. Len(b) : b[i] = n - Len(b) + i
  PROVE  /\ Append(b, n + 1) \in Seq(S) /\ Len(Append(b, n + 1)) = Len(b) + 1
         /\ \A i \in 1 .. Len(b) + 1 : Append(b, n + 1)[i] = n + 1 - (Len(b) + 1) + i
<1>1. /\ Append(b, n + 1) \in Seq(S) /\ Len(Append(b, n + 1)) = Len(b) + 1
      /\ \A i \in 1 .. Len(b) : Append(b, n + 1)[i] = b[i]
      /\ Append(b, n + 1)[Len(b) + 1] = n + 1 /\ Len(b) \in Nat
  BY AppendProperties, LenProperties
<1> DEFINE a == Append(b, n + 1)
<1> HIDE DEF a
<1>2. ASSUME NEW i \in 1 .. Len(b) + 1 PROVE a[i] = n + 1 - (Len(b) + 1) + i
  <2>1. CASE i = Len(b) + 1
    BY <1>1, <2>1 DEF a
  <2>2. CASE i \in 1 .. Len(b)
    BY <1>1, <2>2 DEF a
  <2> QED BY <1>1, <2>1, <2>2
<1> QED BY <1>1, <1>2 DEF a

\* The first k of them are put behind the dump, and then some junk is.
LEMMA RecordsWritten ==
  ASSUME NEW S \in SUBSET Int, NEW d \in Seq(S), NEW b \in Seq(S), NEW k \in Nat,
         k =< Len(b), \A i \in 1 .. Len(d) : d[i] = i,
         \A i \in 1 .. Len(b) : b[i] = Len(d) + i
  PROVE  LET e == d \o SubSeq(b, 1, k) IN
         e \in Seq(S) /\ Len(e) = Len(d) + k /\ \A i \in 1 .. Len(e) : e[i] = i
<1> DEFINE a == SubSeq(b, 1, k)
           e == d \o a
<1>1. Len(b) \in Nat /\ Len(d) \in Nat
  BY LenProperties
<1>2. a \in Seq(S) /\ Len(a) = k /\ \A i \in 1 .. k : a[i] = b[i]
  BY <1>1, SubSeqProperties
<1> HIDE DEF a
<1>3. /\ e \in Seq(S) /\ Len(e) = Len(d) + k
      /\ \A i \in 1 .. Len(d) + k : e[i] = IF i =< Len(d) THEN d[i] ELSE a[i - Len(d)]
  BY <1>1, <1>2, ConcatProperties
<1> DEFINE n == Len(d)
<1> HIDE DEF e, n
<1>4. /\ n \in Nat /\ \A i \in 1 .. n + k : e[i] = IF i =< n THEN d[i] ELSE a[i - n]
      /\ \A i \in 1 .. n : d[i] = i
      /\ \A i \in 1 .. k : a[i] = n + i
  <2>1. \A i \in 1 .. k : a[i] = n + i
    <3> DEFINE l == Len(b)
    <3>1. l \in Nat /\ k =< l /\ \A i \in 1 .. l : b[i] = n + i
      BY <1>1 DEF n
    <3> HIDE DEF l
    <3> QED BY <1>2, <3>1
  <2> QED BY <1>1, <1>3, <2>1 DEF n
<1>5. ASSUME NEW i \in 1 .. n + k PROVE e[i] = i
  <2>1. CASE i =< n
    BY <1>4, <2>1
  <2>2. CASE i > n
    <3>1. i - n \in 1 .. k /\ e[i] = a[i - n]
      BY <1>4, <2>2
    <3> QED BY <1>4, <3>1
  <2> QED BY <1>4, <2>1, <2>2
<1> QED BY <1>3, <1>5 DEF e, a, n

LEMMA JunkWritten ==
  ASSUME NEW S, NEW d \in Seq(S), NEW a \in Seq(S), NEW j \in S
  PROVE  /\ d \o Append(a, j) \in Seq(S)
         /\ Len(d \o Append(a, j)) = Len(d \o a) + 1
         /\ (d \o Append(a, j))[Len(d \o a) + 1] = j
         /\ \A i \in 1 .. Len(d \o a) : (d \o Append(a, j))[i] = (d \o a)[i]
<1> DEFINE r == Append(a, j)
           m == Len(a)
           n == Len(d)
<1>1. /\ r \in Seq(S) /\ Len(r) = m + 1 /\ m \in Nat /\ n \in Nat /\ r[m + 1] = j
      /\ \A i \in 1 .. m : r[i] = a[i]
  BY AppendProperties, LenProperties
<1>2. /\ d \o a \in Seq(S) /\ Len(d \o a) = n + m
      /\ \A i \in 1 .. n + m : (d \o a)[i] = IF i =< n THEN d[i] ELSE a[i - n]
  BY ConcatProperties
<1> HIDE DEF r
<1>3. /\ d \o r \in Seq(S) /\ Len(d \o r) = n + Len(r)
      /\ \A i \in 1 .. n + Len(r) : (d \o r)[i] = IF i =< n THEN d[i] ELSE r[i - n]
  BY <1>1, ConcatProperties
<1> DEFINE e == d \o a
           f == d \o r
<1> HIDE DEF e, f, m, n
<1>4. /\ m \in Nat /\ n \in Nat /\ f \in Seq(S) /\ Len(f) = n + m + 1 /\ Len(e) = n + m
      /\ \A i \in 1 .. n + m + 1 : f[i] = IF i =< n THEN d[i] ELSE r[i - n]
      /\ \A i \in 1 .. n + m : e[i] = IF i =< n THEN d[i] ELSE a[i - n]
      /\ r[m + 1] = j /\ \A i \in 1 .. m : r[i] = a[i]
  BY <1>1, <1>2, <1>3 DEF e, f
<1>5. f[n + m + 1] = j
  <2>1. n + m + 1 \in 1 .. n + m + 1 /\ ~(n + m + 1 =< n) /\ n + m + 1 - n = m + 1
    BY <1>4
  <2> QED BY <1>4, <2>1
<1>6. ASSUME NEW i \in 1 .. n + m PROVE f[i] = e[i]
  <2>1. i \in 1 .. n + m + 1
    BY <1>4
  <2>2. CASE i =< n
    BY <1>4, <2>1, <2>2
  <2>3. CASE i > n
    <3>1. i - n \in 1 .. m /\ ~(i =< n)
      BY <1>4, <2>3
    <3> QED BY <1>4, <2>1, <3>1
  <2> QED BY <1>4, <2>2, <2>3
<1> QED BY <1>4, <1>5, <1>6 DEF e, f, r

\* A dump with junk in it is not clean, and one that is clean has no junk.
LEMMA CleanDumps ==
  ASSUME NEW o \in App, dump[o] \in Seq(0 .. MaxRecords)
  PROVE  Clean(o) <=> \A i \in 1 .. Len(dump[o]) : dump[o][i] # Junk
BY InToSet DEF Clean

LEMMA CleanDumpsAfter ==
  ASSUME NEW o \in App, dump'[o] \in Seq(0 .. MaxRecords)
  PROVE  Clean(o)' <=> \A i \in 1 .. Len(dump'[o]) : dump'[o][i] # Junk
BY InToSet DEF Clean

LEMMA RecordsAreNumbers ==
  ASSUME NEW b \in Seq(1 .. MaxRecords) PROVE b \in Seq(0 .. MaxRecords)
<1>1. 1 .. MaxRecords \subseteq 0 .. MaxRecords
  BY ManagerAssumption
<1> QED BY <1>1, SeqMonotonic

LEMMA RecordsDropped ==
  ASSUME NEW S \in SUBSET Int, NEW b \in Seq(S), NEW n \in Nat, NEW k \in Nat, k =< Len(b),
         \A i \in 1 .. Len(b) : b[i] = n - Len(b) + i
  PROVE  /\ SubSeq(b, k + 1, Len(b)) \in Seq(S)
         /\ Len(SubSeq(b, k + 1, Len(b))) = Len(b) - k
         /\ \A i \in 1 .. Len(b) - k : SubSeq(b, k + 1, Len(b))[i] = n - (Len(b) - k) + i
<1> DEFINE a == SubSeq(b, k + 1, Len(b))
<1>1. Len(b) \in Nat
  BY LenProperties
<1>2. /\ a \in Seq(S) /\ Len(a) = Len(b) - k
      /\ \A i \in 1 .. Len(b) - k : a[i] = b[k + i]
  BY <1>1, SubSeqProperties
<1> HIDE DEF a
<1>3. ASSUME NEW i \in 1 .. Len(b) - k PROVE a[i] = n - (Len(b) - k) + i
  <2>1. k + i \in 1 .. Len(b)
    BY <1>1, <1>2
  <2> QED BY <1>1, <1>2, <2>1
<1> QED BY <1>2, <1>3 DEF a

-----------------------------------------------------------------------------
(* What each action keeps: one lemma for each, with one step for each part *)
(* of the invariant. *)

LEMMA SpawnKeeps ==
  ASSUME IInv, NEW t \in App, NEW u \in App, MainFirst, Spawn(t, u) PROVE IInv'
<1> USE ThreadFacts DEF IInv
<1>a. UNCHANGED << initialized, mutex, list, handlers, buf, dump, made, known, calls, locked, cursor, taken, ended, atExit >>
  BY DEF Spawn, Lock, Unlock, shared, records, forking, flush, life
<1>b. /\ pc' = [pc EXCEPT ![u] = "app"] /\ pc[u] = "unborn" /\ Proc(u) = Proc(t)
      /\ pc[t] = "app" /\ initialized[Proc(t)] /\ list[Proc(t)] # << >>
  BY PlaceTypes DEF AppInv, Starting, Spawn, At, Goto
<1>1. TypeOK'
  BY ZenonT(40), <1>a, ManagerAssumption DEF TypeOK, Places, Spawn, At, Goto, Running, Lock, Unlock
<1>2. Alone'
  <2>1. \A x \in App : Proc(x) = Proc(t) => pc[x] # "child"
    BY <1>b, NobodyElse
  <2> QED BY SMTT(30), <1>a, <1>b, <2>1, PlaceTypes DEF Alone
<1>3. \A x \in App : Starting(x)'
  <2>1. Starting(u)'
    BY <1>a, <1>b, PlaceTypes DEF Starting, Booting
  <2>2. ASSUME NEW x \in App, x # u PROVE Starting(x)'
    BY <1>a, <1>b, <2>2, PlaceTypes, StartingStays DEF AppInv
  <2> QED BY <2>1, <2>2
<1>4. \A x \in App : Unlocked(x)'
  BY <1>a, PlaceTypes DEF AppInv, Unlocked, Spawn, At, Goto, Running, Lock, Unlock
<1>5. \A x \in App : Listed(x)'
  BY <1>a, PlaceTypes DEF AppInv, Listed, Entering, Booting, Spawn, At, Goto, Running, Lock, Unlock
<1>6. \A x \in App : Silent(x)'
  BY <1>a, PlaceTypes DEF AppInv, Silent, Entering, Booting, Spawn, At, Goto, Running, Lock, Unlock
<1>7. \A x \in App : Records(x)'
  BY ZenonT(40), <1>a, PlaceTypes DEF AppInv, Records, Committing, Clean, Spawn, At, Goto, Running, Lock, Unlock
<1>8. \A x \in App : Exiting(x)'
  BY <1>a, PlaceTypes DEF AppInv, Exiting, Committing, Clean, Spawn, At, Goto, Running, Lock, Unlock
<1>9. \A x \in Threads : Locked(x)'
  BY <1>a, PlaceTypes DEF AppInv, ThreadInv, Locked, Critical, Unlocked, Spawn, At, Goto, Running, Lock, Unlock
<1>10. \A x \in Threads : OwnCursor(x)'
  BY <1>a, PlaceTypes DEF ThreadInv, OwnCursor, Spawn, At, Goto, Running, Lock, Unlock
<1>11. \A q \in Procs : Hooked(q)' /\ OwnList(q)'
  BY <1>a, PlaceTypes DEF ProcInv, Hooked, OwnList, Spawn, At, Goto, Running, Lock, Unlock
<1>12. \A x \in App : Seen(x)'
  BY <1>a, PlaceTypes DEF AppInv, Seen, Writing, Clean, Spawn, At, Goto, Running, Lock, Unlock
<1> QED BY <1>1, <1>2, <1>3, <1>4, <1>5, <1>6, <1>7, <1>8, <1>9, <1>10, <1>11,
           <1>12 DEF AppInv, ThreadInv, ProcInv

LEMMA RecordKeeps ==
  ASSUME IInv, NEW t \in App, Record(t) PROVE IInv'
<1> USE ThreadFacts DEF IInv
<1>a. UNCHANGED << initialized, mutex, list, handlers, dump, known, pc, calls, locked, cursor, taken, ended, atExit >>
  BY DEF Record, Lock, Unlock, shared, records, forking, flush, life
<1> DEFINE b == buf[Proc(t)][t]
           a == Append(b, made[t] + 1)
           S == 1 .. MaxRecords
<1>b. /\ Proc(t) \in Procs /\ b \in Seq(S) /\ S \in SUBSET Int /\ Len(b) \in Nat
      /\ made[t] \in Nat /\ made[t] + 1 \in S /\ Len(b) + 1 =< BufferSize
      /\ buf' = [buf EXCEPT ![Proc(t)][t] = a]
      /\ made' = [made EXCEPT ![t] = made[t] + 1]
  BY SMTT(30), ManagerAssumption, PlaceTypes, SequenceTypes DEF Record
<1>c. /\ \A i \in 1 .. Len(b) : b[i] = made[t] - Len(b) + i
      /\ \A i \in 1 .. Len(dump[t]) : dump[t][i] \in {i, Junk}
      /\ Clean(t) => /\ (\A u \in Threads : ~Committing(u, t)) => Len(dump[t]) + Len(b) = made[t]
                     /\ \A u \in Threads : Committing(u, t) =>
                          taken[u] =< Len(b) /\ Len(dump[t]) + Len(b) = made[t] + taken[u]
  BY DEF AppInv, Records
<1> HIDE DEF b, S
<1>d. /\ a \in Seq(S) /\ Len(a) = Len(b) + 1
      /\ \A i \in 1 .. Len(b) + 1 : a[i] = made[t] + 1 - (Len(b) + 1) + i
  BY <1>b, <1>c, RecordsAppended
<1> HIDE DEF a
<1>e. /\ buf' \in [Procs -> [App -> Seq(S)]] /\ buf'[Proc(t)][t] = a
      /\ \A q \in Procs, x \in App : q # Proc(t) \/ x # t => buf'[q][x] = buf[q][x]
      /\ \A q \in Procs, x \in App : Len(buf'[q][x]) =< BufferSize
  <2>1. Len(a) =< BufferSize
    BY <1>b, <1>d
  <2> QED BY <1>b, <1>d, <2>1, SequenceTypes DEF S
<1>1. TypeOK'
  <2>1. made' \in [App -> 0 .. MaxRecords]
    BY <1>b, PlaceTypes DEF S
  <2> QED BY <1>a, <1>e, <2>1 DEF TypeOK, S
<1>2. Alone'
  BY <1>a, PlaceTypes DEF Alone, Record, At, Goto, Running, Lock, Unlock
<1>3. \A x \in App : Starting(x)'
  <2>1. Starting(t)'
    BY <1>a, PlaceTypes DEF AppInv, Starting, Booting, Record, At, Goto, Running, Lock, Unlock
  <2>2. ASSUME NEW x \in App, x # t PROVE Starting(x)'
    BY <1>a, <2>2, PlaceTypes, StartingStays DEF AppInv, Record, At, Goto, Running, Lock, Unlock
  <2> QED BY <2>1, <2>2
<1>4. \A x \in App : Unlocked(x)'
  BY <1>a, PlaceTypes DEF AppInv, Unlocked, Record, At, Goto, Running, Lock, Unlock
<1>5. \A x \in App : Listed(x)'
  BY <1>a, PlaceTypes DEF AppInv, Listed, Entering, Booting, Record, At, Goto, Running, Lock, Unlock
<1>6. \A x \in App : Silent(x)'
  BY SMTT(30), <1>a, PlaceTypes DEF AppInv, Silent, Entering, Booting, Record, At, Goto, Running, Lock, Unlock
<1>7. \A x \in App : Records(x)'
  <2>1. Records(t)'
    <3>1. /\ Len(dump[t]) \in Nat /\ made'[t] = made[t] + 1
          /\ \A u \in Threads : taken[u] \in Nat
      BY <1>b, PlaceTypes, SequenceTypes
    <3>2. \A u \in Threads : Committing(u, t)' <=> Committing(u, t)
      BY <1>a DEF Committing
    <3>3. /\ \A i \in 1 .. Len(a) : a[i] = made'[t] - Len(a) + i
          /\ Clean(t) =>
               /\ (\A u \in Threads : ~Committing(u, t)) => Len(dump[t]) + Len(a) = made'[t]
               /\ \A u \in Threads : Committing(u, t) =>
                    taken[u] =< Len(a) /\ Len(dump[t]) + Len(a) = made'[t] + taken[u]
      <4> DEFINE d == Len(dump[t])
                 l == Len(b)
      <4> HIDE DEF d, l
      <4>1. /\ d \in Nat /\ l \in Nat /\ Len(a) = l + 1
            /\ \A i \in 1 .. Len(a) : a[i] = made'[t] - Len(a) + i
        BY <1>b, <1>d, <3>1 DEF d, l
      <4>2. ASSUME Clean(t), \A u \in Threads : ~Committing(u, t) PROVE d + Len(a) = made'[t]
        <5>1. d + l = made[t]
          BY <1>c, <4>2 DEF d, l
        <5> QED BY <1>b, <3>1, <4>1, <5>1
      <4>3. ASSUME Clean(t), NEW u \in Threads, Committing(u, t)
            PROVE  taken[u] =< Len(a) /\ d + Len(a) = made'[t] + taken[u]
        <5>1. taken[u] =< l /\ d + l = made[t] + taken[u]
          BY <1>c, <4>3 DEF d, l
        <5>2. taken[u] \in Nat
          BY <3>1
        <5> QED BY <1>b, <3>1, <4>1, <5>1, <5>2
      <4> QED BY <4>1, <4>2, <4>3 DEF d
    <3>4. Clean(t)' <=> Clean(t)
      BY <1>a DEF Clean
    <3> QED BY <1>a, <1>b, <1>c, <1>e, <3>2, <3>3, <3>4 DEF Records
  <2>2. ASSUME NEW x \in App, x # t PROVE Records(x)'
    BY <1>a, <1>b, <1>e, <2>2, RecordsStay, PlaceTypes DEF AppInv, Committing
  <2> QED BY <2>1, <2>2
<1>8. \A x \in App : Exiting(x)'
  BY <1>a, PlaceTypes DEF AppInv, Exiting, Committing, Clean, Record, At, Goto, Running, Lock, Unlock
<1>9. \A x \in Threads : Locked(x)'
  BY <1>a, PlaceTypes DEF AppInv, ThreadInv, Locked, Critical, Unlocked, Record, At, Goto, Running, Lock, Unlock
<1>10. \A x \in Threads : OwnCursor(x)'
  BY <1>a, PlaceTypes DEF ThreadInv, OwnCursor, Record, At, Goto, Running, Lock, Unlock
<1>11. \A q \in Procs : Hooked(q)' /\ OwnList(q)'
  BY <1>a, PlaceTypes DEF ProcInv, Hooked, OwnList, Record, At, Goto, Running, Lock, Unlock
<1>12. \A x \in App : Seen(x)'
  <2> TAKE x \in App
  <2>1. Len(buf[Proc(x)][x]) =< Len(buf'[Proc(x)][x])
    <3>1. CASE x = t
      <4>1. Len(b) =< Len(a)
        BY <1>b, <1>d
      <4> QED BY <1>e, <3>1, <4>1 DEF b
    <3>2. CASE x # t
      <4>1. buf'[Proc(x)][x] = buf[Proc(x)][x]
        BY <1>e, <3>2
      <4> QED BY <4>1, SequenceTypes
    <3> QED BY <3>1, <3>2
  <2>2. Len(buf'[Proc(x)][x]) \in Nat /\ Len(buf[Proc(x)][x]) \in Nat
    BY <1>e, SequenceTypes, LenProperties
  <2>3. Seen(x) /\ \A u \in Threads : taken[u] \in Nat
    BY PlaceTypes DEF AppInv
  <2> DEFINE l == Len(buf[Proc(x)][x])
             r == Len(buf'[Proc(x)][x])
  <2>4. l \in Nat /\ r \in Nat /\ l =< r
    BY <2>1, <2>2
  <2>5. ASSUME NEW u \in Threads, taken[u] =< l PROVE taken[u] =< r
    <3> HIDE DEF l, r
    <3> QED BY <2>3, <2>4, <2>5
  <2> QED BY <1>a, <2>3, <2>5 DEF Seen, Writing, Clean
<1> QED BY <1>1, <1>2, <1>3, <1>4, <1>5, <1>6, <1>7, <1>8, <1>9, <1>10, <1>11,
           <1>12 DEF AppInv, ThreadInv, ProcInv

LEMMA RecordInitKeeps ==
  ASSUME IInv, NEW t \in App, RecordInit(t) PROVE IInv'
<1> USE ThreadFacts DEF IInv
<1>a. UNCHANGED << initialized, mutex, list, handlers, buf, dump, made, known, calls, locked, cursor, taken, ended, atExit >>
  BY DEF RecordInit, Lock, Unlock, shared, records, forking, flush, life
<1>1. TypeOK'
  BY <1>a, ManagerAssumption DEF TypeOK, Places, RecordInit, At, Goto, Running, Lock, Unlock
<1>2. Alone'
  BY <1>a, PlaceTypes DEF Alone, RecordInit, At, Goto, Running, Lock, Unlock
<1>3. \A x \in App : Starting(x)'
  <2>1. Starting(t)'
    BY <1>a, PlaceTypes DEF AppInv, Starting, Booting, RecordInit, At, Goto, Running, Lock, Unlock
  <2>2. ASSUME NEW x \in App, x # t PROVE Starting(x)'
    BY <1>a, <2>2, PlaceTypes, StartingStays DEF AppInv, RecordInit, At, Goto, Running, Lock, Unlock
  <2> QED BY <2>1, <2>2
<1>4. \A x \in App : Unlocked(x)'
  BY <1>a, PlaceTypes DEF AppInv, Unlocked, RecordInit, At, Goto, Running, Lock, Unlock
<1>5. \A x \in App : Listed(x)'
  BY <1>a, PlaceTypes DEF AppInv, Listed, Entering, Booting, RecordInit, At, Goto, Running, Lock, Unlock
<1>6. \A x \in App : Silent(x)'
  BY <1>a, PlaceTypes DEF AppInv, Silent, Entering, Booting, RecordInit, At, Goto, Running, Lock, Unlock
<1>7. \A x \in App : Records(x)'
  BY <1>a, PlaceTypes DEF AppInv, Records, Committing, Clean, RecordInit, At, Goto, Running, Lock, Unlock
<1>8. \A x \in App : Exiting(x)'
  BY <1>a, PlaceTypes DEF AppInv, Exiting, Committing, Clean, RecordInit, At, Goto, Running, Lock, Unlock
<1>9. \A x \in Threads : Locked(x)'
  BY <1>a, PlaceTypes DEF AppInv, ThreadInv, Locked, Critical, Unlocked, RecordInit, At, Goto, Running, Lock, Unlock
<1>10. \A x \in Threads : OwnCursor(x)'
  BY <1>a, PlaceTypes DEF ThreadInv, OwnCursor, RecordInit, At, Goto, Running, Lock, Unlock
<1>11. \A q \in Procs : Hooked(q)' /\ OwnList(q)'
  BY <1>a, PlaceTypes DEF ProcInv, Hooked, OwnList, RecordInit, At, Goto, Running, Lock, Unlock
<1>12. \A x \in App : Seen(x)'
  BY <1>a, PlaceTypes DEF AppInv, Seen, Writing, Clean, RecordInit, At, Goto, Running, Lock, Unlock
<1> QED BY <1>1, <1>2, <1>3, <1>4, <1>5, <1>6, <1>7, <1>8, <1>9, <1>10, <1>11,
           <1>12 DEF AppInv, ThreadInv, ProcInv

LEMMA ExitKeeps ==
  ASSUME IInv, NEW t \in App, Exit(t) PROVE IInv'
<1> USE ThreadFacts DEF IInv
<1>a. UNCHANGED << initialized, mutex, list, handlers, buf, dump, made, known, calls, locked, cursor, taken, ended >>
  BY DEF Exit, Lock, Unlock, shared, records, forking, flush, life
<1>1. TypeOK'
  BY <1>a, ManagerAssumption DEF TypeOK, Places, Exit, At, Goto, Running, Lock, Unlock
<1>2. Alone'
  BY <1>a, PlaceTypes DEF Alone, Exit, At, Goto, Running, Lock, Unlock
<1>3. \A x \in App : Starting(x)'
  <2>1. Starting(t)'
    BY <1>a, PlaceTypes DEF AppInv, Starting, Booting, Exit, At, Goto, Running, Lock, Unlock
  <2>2. ASSUME NEW x \in App, x # t PROVE Starting(x)'
    BY <1>a, <2>2, PlaceTypes, StartingStays DEF AppInv, Exit, At, Goto, Running, Lock, Unlock
  <2> QED BY <2>1, <2>2
<1>4. \A x \in App : Unlocked(x)'
  BY <1>a, PlaceTypes DEF AppInv, Unlocked, Exit, At, Goto, Running, Lock, Unlock
<1>5. \A x \in App : Listed(x)'
  BY <1>a, PlaceTypes DEF AppInv, Listed, Entering, Booting, Exit, At, Goto, Running, Lock, Unlock
<1>6. \A x \in App : Silent(x)'
  BY <1>a, PlaceTypes DEF AppInv, Silent, Entering, Booting, Exit, At, Goto, Running, Lock, Unlock
<1>7. \A x \in App : Records(x)'
  BY <1>a, PlaceTypes DEF AppInv, Records, Committing, Clean, Exit, At, Goto, Running, Lock, Unlock
<1>8. \A x \in App : Exiting(x)'
  BY SMTT(30), <1>a, PlaceTypes DEF AppInv, Exiting, Committing, Clean, Exit, At, Goto, Running, Lock, Unlock
<1>9. \A x \in Threads : Locked(x)'
  BY <1>a, PlaceTypes DEF AppInv, ThreadInv, Locked, Critical, Unlocked, Exit, At, Goto, Running, Lock, Unlock
<1>10. \A x \in Threads : OwnCursor(x)'
  BY <1>a, PlaceTypes DEF ThreadInv, OwnCursor, Exit, At, Goto, Running, Lock, Unlock
<1>11. \A q \in Procs : Hooked(q)' /\ OwnList(q)'
  BY <1>a, PlaceTypes DEF ProcInv, Hooked, OwnList, Exit, At, Goto, Running, Lock, Unlock
<1>12. \A x \in App : Seen(x)'
  <2> TAKE x \in App
  <2>1. \A u \in Threads : Writing(u, x)' => Writing(u, x)
    BY <1>a, PlaceTypes DEF Writing, Exit, At, Goto
  <2>2. ASSUME NEW u \in App, Writing(u, x) PROVE atExit'[x] = atExit[x]
    <3>1. Proc(u) = Proc(x)
      BY <2>2, OneCommits
    <3> QED BY <2>2, <3>1, PlaceTypes DEF Writing, Exit
  <2> QED BY <1>a, <2>1, <2>2 DEF AppInv, Seen, Clean
<1> QED BY <1>1, <1>2, <1>3, <1>4, <1>5, <1>6, <1>7, <1>8, <1>9, <1>10, <1>11,
           <1>12 DEF AppInv, ThreadInv, ProcInv

LEMMA EnsureCheckKeeps ==
  ASSUME IInv, NEW t \in App, EnsureCheck(t) PROVE IInv'
<1> USE ThreadFacts DEF IInv
<1>a. UNCHANGED << initialized, mutex, list, handlers, buf, dump, made, known, calls, locked, cursor, taken, ended, atExit >>
  BY DEF EnsureCheck, Lock, Unlock, shared, records, forking, flush, life
<1>1. TypeOK'
  BY <1>a, ManagerAssumption DEF TypeOK, Places, EnsureCheck, At, Goto, Running, Lock, Unlock
<1>2. Alone'
  BY <1>a, PlaceTypes DEF Alone, EnsureCheck, At, Goto, Running, Lock, Unlock
<1>3. \A x \in App : Starting(x)'
  <2>1. Starting(t)'
    BY <1>a, PlaceTypes DEF AppInv, Starting, Booting, EnsureCheck, At, Goto, Running, Lock, Unlock
  <2>2. ASSUME NEW x \in App, x # t PROVE Starting(x)'
    BY <1>a, <2>2, PlaceTypes, StartingStays DEF AppInv, EnsureCheck, At, Goto, Running, Lock, Unlock
  <2> QED BY <2>1, <2>2
<1>4. \A x \in App : Unlocked(x)'
  BY <1>a, PlaceTypes DEF AppInv, Unlocked, EnsureCheck, At, Goto, Running, Lock, Unlock
<1>5. \A x \in App : Listed(x)'
  BY <1>a, PlaceTypes DEF AppInv, Listed, Entering, Booting, EnsureCheck, At, Goto, Running, Lock, Unlock
<1>6. \A x \in App : Silent(x)'
  BY <1>a, PlaceTypes DEF AppInv, Silent, Entering, Booting, EnsureCheck, At, Goto, Running, Lock, Unlock
<1>7. \A x \in App : Records(x)'
  BY <1>a, PlaceTypes DEF AppInv, Records, Committing, Clean, EnsureCheck, At, Goto, Running, Lock, Unlock
<1>8. \A x \in App : Exiting(x)'
  BY <1>a, PlaceTypes DEF AppInv, Exiting, Committing, Clean, EnsureCheck, At, Goto, Running, Lock, Unlock
<1>9. \A x \in Threads : Locked(x)'
  BY <1>a, PlaceTypes DEF AppInv, ThreadInv, Locked, Critical, Unlocked, EnsureCheck, At, Goto, Running, Lock, Unlock
<1>10. \A x \in Threads : OwnCursor(x)'
  BY <1>a, PlaceTypes DEF ThreadInv, OwnCursor, EnsureCheck, At, Goto, Running, Lock, Unlock
<1>11. \A q \in Procs : Hooked(q)' /\ OwnList(q)'
  BY <1>a, PlaceTypes DEF ProcInv, Hooked, OwnList, EnsureCheck, At, Goto, Running, Lock, Unlock
<1>12. \A x \in App : Seen(x)'
  BY <1>a, PlaceTypes DEF AppInv, Seen, Writing, Clean, EnsureCheck, At, Goto, Running, Lock, Unlock
<1> QED BY <1>1, <1>2, <1>3, <1>4, <1>5, <1>6, <1>7, <1>8, <1>9, <1>10, <1>11,
           <1>12 DEF AppInv, ThreadInv, ProcInv

LEMMA EnsureResetKeeps ==
  ASSUME IInv, NEW t \in App, EnsureReset(t) PROVE IInv'
<1> USE ThreadFacts DEF IInv
<1>a. UNCHANGED << initialized, handlers, buf, dump, made, known, calls, locked, cursor, taken, ended, atExit >>
  BY DEF EnsureReset, Lock, Unlock, shared, records, forking, flush, life
<1>b. \A x \in Threads : x # t /\ Proc(x) = Proc(t) => pc[x] = "unborn" /\ pc'[x] = "unborn"
  BY NobodyElse, PlaceTypes DEF AppInv, Starting, Booting, EnsureReset, At, Goto, Running, Lock, Unlock
<1>1. TypeOK'
  <2>1. list' \in [Procs -> Seq(App)]
    BY SequenceTypes DEF EnsureReset
  <2> QED BY <1>a, <2>1 DEF TypeOK, Places, EnsureReset, At, Goto, Running, Lock, Unlock
<1>2. Alone'
  BY <1>a, PlaceTypes DEF Alone, EnsureReset, At, Goto, Running, Lock, Unlock
<1>3. \A x \in App : Starting(x)'
  <2>1. Starting(t)'
    BY <1>a, PlaceTypes DEF AppInv, Starting, Booting, EnsureReset, At, Goto, Running, Lock, Unlock
  <2>2. ASSUME NEW x \in App, x # t PROVE Starting(x)'
    <3>1. CASE Proc(x) = Proc(t)
      BY <1>b, <2>2, <3>1, StartingUnborn
    <3>2. CASE Proc(x) # Proc(t)
      BY <1>a, <1>b, <2>2, <3>2, PlaceTypes, SequenceTypes, StartingStays DEF AppInv, EnsureReset, At, Goto, Running, Lock, Unlock
    <3> QED BY <3>1, <3>2
  <2> QED BY <2>1, <2>2
<1>4. \A x \in App : Unlocked(x)'
  BY <1>a, PlaceTypes DEF AppInv, Unlocked, EnsureReset, At, Goto, Running, Lock, Unlock
<1>5. \A x \in App : Listed(x)'
  <2>1. \A q \in Procs : list'[q] = IF q = Proc(t) THEN << >> ELSE list[q]
    BY SequenceTypes DEF EnsureReset
  <2>2. Listed(t)'
    BY PlaceTypes DEF Listed, Entering, Booting, EnsureReset, At, Goto, Running, Lock, Unlock
  <2>3. ASSUME NEW x \in App, x # t PROVE Listed(x)'
    BY <1>a, <1>b, <2>1, <2>3, PlaceTypes DEF AppInv, Listed, Silent, EnsureReset, At, Goto, Running, Lock, Unlock
  <2> QED BY <2>2, <2>3
<1>6. \A x \in App : Silent(x)'
  BY <1>a, PlaceTypes DEF AppInv, Silent, Entering, Booting, EnsureReset, At, Goto, Running, Lock, Unlock
<1>7. \A x \in App : Records(x)'
  BY <1>a, PlaceTypes DEF AppInv, Records, Committing, Clean, EnsureReset, At, Goto, Running, Lock, Unlock
<1>8. \A x \in App : Exiting(x)'
  BY <1>a, PlaceTypes DEF AppInv, Exiting, Committing, Clean, EnsureReset, At, Goto, Running, Lock, Unlock
<1>9. \A x \in Threads : Locked(x)'
  BY <1>a, <1>b, PlaceTypes DEF ThreadInv, Locked, Critical, EnsureReset, At, Goto, Running, Lock, Unlock
<1>10. \A x \in Threads : OwnCursor(x)'
  BY <1>a, PlaceTypes DEF ThreadInv, OwnCursor, EnsureReset, At, Goto, Running, Lock, Unlock
<1>11. \A q \in Procs : Hooked(q)' /\ OwnList(q)'
  <2>1. \A q \in Procs : list'[q] = IF q = Proc(t) THEN << >> ELSE list[q]
    BY SequenceTypes DEF EnsureReset
  <2>2. \A u \in App : pc'[u] = "child" <=> pc[u] = "child"
    BY PlaceTypes DEF EnsureReset, At, Goto, Running, Lock, Unlock
  <2> QED BY <1>a, <2>1, <2>2, ToSetOfEmpty DEF ProcInv, Hooked, OwnList
<1>12. \A x \in App : Seen(x)'
  BY <1>a, PlaceTypes DEF AppInv, Seen, Writing, Clean, EnsureReset, At, Goto, Running, Lock, Unlock
<1> QED BY <1>1, <1>2, <1>3, <1>4, <1>5, <1>6, <1>7, <1>8, <1>9, <1>10, <1>11,
           <1>12 DEF AppInv, ThreadInv, ProcInv

LEMMA EnsureHookKeeps ==
  ASSUME IInv, NEW t \in App, EnsureHook(t) PROVE IInv'
<1> USE ThreadFacts DEF IInv
<1>a. UNCHANGED << initialized, mutex, list, buf, dump, made, known, calls, locked, cursor, taken, ended, atExit >>
  BY DEF EnsureHook, Lock, Unlock, shared, records, forking, flush, life
<1>b. \A x \in Threads : x # t /\ Proc(x) = Proc(t) => pc[x] = "unborn" /\ pc'[x] = "unborn"
  BY NobodyElse, PlaceTypes DEF AppInv, Starting, Booting, EnsureHook, At, Goto, Running, Lock, Unlock
<1>1. TypeOK'
  <2>1. handlers' \in [Procs -> Nat]
    BY PlaceTypes DEF EnsureHook
  <2> QED BY <1>a, <2>1 DEF TypeOK, Places, EnsureHook, At, Goto, Running, Lock, Unlock
<1>2. Alone'
  BY <1>a, PlaceTypes DEF Alone, EnsureHook, At, Goto, Running, Lock, Unlock
<1>3. \A x \in App : Starting(x)'
  <2>1. Starting(t)'
    BY <1>a, PlaceTypes DEF AppInv, Starting, Booting, EnsureHook, At, Goto, Running, Lock, Unlock
  <2>2. ASSUME NEW x \in App, x # t PROVE Starting(x)'
    <3>1. CASE Proc(x) = Proc(t)
      BY <1>b, <2>2, <3>1, StartingUnborn
    <3>2. CASE Proc(x) # Proc(t)
      BY <1>a, <1>b, <2>2, <3>2, PlaceTypes, SequenceTypes, StartingStays DEF AppInv, EnsureHook, At, Goto, Running, Lock, Unlock
    <3> QED BY <3>1, <3>2
  <2> QED BY <2>1, <2>2
<1>4. \A x \in App : Unlocked(x)'
  BY <1>a, PlaceTypes DEF AppInv, Unlocked, EnsureHook, At, Goto, Running, Lock, Unlock
<1>5. \A x \in App : Listed(x)'
  BY <1>a, PlaceTypes DEF AppInv, Listed, Entering, Booting, EnsureHook, At, Goto, Running, Lock, Unlock
<1>6. \A x \in App : Silent(x)'
  BY <1>a, PlaceTypes DEF AppInv, Silent, Entering, Booting, EnsureHook, At, Goto, Running, Lock, Unlock
<1>7. \A x \in App : Records(x)'
  BY <1>a, PlaceTypes DEF AppInv, Records, Committing, Clean, EnsureHook, At, Goto, Running, Lock, Unlock
<1>8. \A x \in App : Exiting(x)'
  BY <1>a, PlaceTypes DEF AppInv, Exiting, Committing, Clean, EnsureHook, At, Goto, Running, Lock, Unlock
<1>9. \A x \in Threads : Locked(x)'
  BY <1>a, PlaceTypes DEF AppInv, ThreadInv, Locked, Critical, Unlocked, EnsureHook, At, Goto, Running, Lock, Unlock
<1>10. \A x \in Threads : OwnCursor(x)'
  BY <1>a, PlaceTypes DEF ThreadInv, OwnCursor, EnsureHook, At, Goto, Running, Lock, Unlock
<1>11. \A q \in Procs : Hooked(q)' /\ OwnList(q)'
  BY <1>a, PlaceTypes DEF ProcInv, Hooked, OwnList, EnsureHook, At, Goto, Running, Lock, Unlock
<1>12. \A x \in App : Seen(x)'
  BY <1>a, PlaceTypes DEF AppInv, Seen, Writing, Clean, EnsureHook, At, Goto, Running, Lock, Unlock
<1> QED BY <1>1, <1>2, <1>3, <1>4, <1>5, <1>6, <1>7, <1>8, <1>9, <1>10, <1>11,
           <1>12 DEF AppInv, ThreadInv, ProcInv

LEMMA EnsureCreateKeeps ==
  ASSUME IInv, NEW t \in App, NEW m \in Flushers, EnsureCreate(t, m) PROVE IInv'
<1> USE ThreadFacts DEF IInv
<1>a. UNCHANGED << initialized, mutex, list, handlers, buf, dump, made, known, calls, locked, cursor, taken, ended, atExit >>
  BY DEF EnsureCreate, Lock, Unlock, shared, records, forking, flush, life
<1>1. TypeOK'
  BY ZenonT(40), <1>a, ManagerAssumption DEF TypeOK, Places, EnsureCreate, At, Goto, Running, Lock, Unlock
<1>2. Alone'
  BY <1>a, PlaceTypes DEF Alone, EnsureCreate, At, Goto, Running, Lock, Unlock
<1>3. \A x \in App : Starting(x)'
  <2>1. Starting(t)'
    BY <1>a, PlaceTypes DEF AppInv, Starting, Booting, EnsureCreate, At, Goto, Running, Lock, Unlock
  <2>2. ASSUME NEW x \in App, x # t PROVE Starting(x)'
    BY <1>a, <2>2, PlaceTypes, StartingStays DEF AppInv, EnsureCreate, At, Goto, Running, Lock, Unlock
  <2> QED BY <2>1, <2>2
<1>4. \A x \in App : Unlocked(x)'
  BY <1>a, PlaceTypes DEF AppInv, Unlocked, EnsureCreate, At, Goto, Running, Lock, Unlock
<1>5. \A x \in App : Listed(x)'
  BY <1>a, PlaceTypes DEF AppInv, Listed, Entering, Booting, EnsureCreate, At, Goto, Running, Lock, Unlock
<1>6. \A x \in App : Silent(x)'
  BY <1>a, PlaceTypes DEF AppInv, Silent, Entering, Booting, EnsureCreate, At, Goto, Running, Lock, Unlock
<1>7. \A x \in App : Records(x)'
  BY <1>a, PlaceTypes DEF AppInv, Records, Committing, Clean, EnsureCreate, At, Goto, Running, Lock, Unlock
<1>8. \A x \in App : Exiting(x)'
  BY <1>a, PlaceTypes DEF AppInv, Exiting, Committing, Clean, EnsureCreate, At, Goto, Running, Lock, Unlock
<1>9. \A x \in Threads : Locked(x)'
  BY <1>a, PlaceTypes DEF AppInv, ThreadInv, Locked, Critical, Unlocked, EnsureCreate, At, Goto, Running, Lock, Unlock
<1>10. \A x \in Threads : OwnCursor(x)'
  BY <1>a, PlaceTypes DEF ThreadInv, OwnCursor, EnsureCreate, At, Goto, Running, Lock, Unlock
<1>11. \A q \in Procs : Hooked(q)' /\ OwnList(q)'
  BY <1>a, PlaceTypes DEF ProcInv, Hooked, OwnList, EnsureCreate, At, Goto, Running, Lock, Unlock
<1>12. \A x \in App : Seen(x)'
  BY <1>a, PlaceTypes DEF AppInv, Seen, Writing, Clean, EnsureCreate, At, Goto, Running, Lock, Unlock
<1> QED BY <1>1, <1>2, <1>3, <1>4, <1>5, <1>6, <1>7, <1>8, <1>9, <1>10, <1>11,
           <1>12 DEF AppInv, ThreadInv, ProcInv

LEMMA EnsureMarkKeeps ==
  ASSUME IInv, NEW t \in App, EnsureMark(t) PROVE IInv'
<1> USE ThreadFacts DEF IInv
<1>a. UNCHANGED << mutex, list, handlers, buf, dump, made, known, calls, locked, cursor, taken, ended, atExit >>
  BY DEF EnsureMark, Lock, Unlock, shared, records, forking, flush, life
<1>b. \A x \in App : x # t /\ Proc(x) = Proc(t) => pc[x] = "unborn" /\ pc'[x] = "unborn"
  BY PlaceTypes DEF Alone, AppInv, Starting, Booting, EnsureMark, At, Goto, Running, Lock, Unlock
<1>1. TypeOK'
  BY <1>a, ManagerAssumption DEF TypeOK, Places, EnsureMark, At, Goto, Running, Lock, Unlock
<1>2. Alone'
  BY <1>a, PlaceTypes DEF Alone, EnsureMark, At, Goto, Running, Lock, Unlock
<1>3. \A x \in App : Starting(x)'
  <2>1. Starting(t)'
    BY <1>a, PlaceTypes DEF AppInv, Starting, Booting, EnsureMark, At, Goto, Running, Lock, Unlock
  <2>2. ASSUME NEW x \in App, x # t PROVE Starting(x)'
    <3>1. CASE Proc(x) = Proc(t)
      BY <1>b, <2>2, <3>1, StartingUnborn
    <3>2. CASE Proc(x) # Proc(t)
      BY <1>a, <1>b, <2>2, <3>2, PlaceTypes, SequenceTypes, StartingStays DEF AppInv, EnsureMark, At, Goto, Running, Lock, Unlock
    <3> QED BY <3>1, <3>2
  <2> QED BY <2>1, <2>2
<1>4. \A x \in App : Unlocked(x)'
  BY <1>a, PlaceTypes DEF AppInv, Unlocked, EnsureMark, At, Goto, Running, Lock, Unlock
<1>5. \A x \in App : Listed(x)'
  BY <1>a, PlaceTypes DEF AppInv, Listed, Entering, Booting, EnsureMark, At, Goto, Running, Lock, Unlock
<1>6. \A x \in App : Silent(x)'
  BY <1>a, PlaceTypes DEF AppInv, Silent, Entering, Booting, EnsureMark, At, Goto, Running, Lock, Unlock
<1>7. \A x \in App : Records(x)'
  BY <1>a, PlaceTypes DEF AppInv, Records, Committing, Clean, EnsureMark, At, Goto, Running, Lock, Unlock
<1>8. \A x \in App : Exiting(x)'
  BY <1>a, PlaceTypes DEF AppInv, Exiting, Committing, Clean, EnsureMark, At, Goto, Running, Lock, Unlock
<1>9. \A x \in Threads : Locked(x)'
  BY <1>a, PlaceTypes DEF AppInv, ThreadInv, Locked, Critical, Unlocked, EnsureMark, At, Goto, Running, Lock, Unlock
<1>10. \A x \in Threads : OwnCursor(x)'
  BY <1>a, PlaceTypes DEF ThreadInv, OwnCursor, EnsureMark, At, Goto, Running, Lock, Unlock
<1>11. \A q \in Procs : Hooked(q)' /\ OwnList(q)'
  <2>1. \A u \in App : pc'[u] = "child" <=> pc[u] = "child"
    BY PlaceTypes DEF EnsureMark, At, Goto, Running, Lock, Unlock
  <2>2. handlers[Proc(t)] > 0
    BY DEF AppInv, Starting, EnsureMark, At, Goto, Running, Lock, Unlock
  <2>3. \A q \in Procs : q # Proc(t) => initialized'[q] = initialized[q]
    BY PlaceTypes DEF EnsureMark
  <2> QED BY <1>a, <2>1, <2>2, <2>3 DEF ProcInv, Hooked, OwnList
<1>12. \A x \in App : Seen(x)'
  BY <1>a, PlaceTypes DEF AppInv, Seen, Writing, Clean, EnsureMark, At, Goto, Running, Lock, Unlock
<1> QED BY <1>1, <1>2, <1>3, <1>4, <1>5, <1>6, <1>7, <1>8, <1>9, <1>10, <1>11,
           <1>12 DEF AppInv, ThreadInv, ProcInv

LEMMA RegisterLockKeeps ==
  ASSUME IInv, NEW t \in App, RegisterLock(t) PROVE IInv'
<1> USE ThreadFacts DEF IInv
<1>a. UNCHANGED << initialized, list, handlers, buf, dump, made, known, calls, locked, cursor, taken, ended, atExit >>
  BY DEF RegisterLock, Lock, Unlock, shared, records, forking, flush, life
<1>1. TypeOK'
  BY <1>a, ManagerAssumption DEF TypeOK, Places, RegisterLock, At, Goto, Running, Lock, Unlock
<1>2. Alone'
  BY <1>a, PlaceTypes DEF Alone, RegisterLock, At, Goto, Running, Lock, Unlock
<1>3. \A x \in App : Starting(x)'
  <2>1. Starting(t)'
    BY <1>a, PlaceTypes DEF AppInv, Starting, Booting, RegisterLock, At, Goto, Running, Lock, Unlock
  <2>2. ASSUME NEW x \in App, x # t PROVE Starting(x)'
    BY <1>a, <2>2, PlaceTypes, StartingStays DEF AppInv, RegisterLock, At, Goto, Running, Lock, Unlock
  <2> QED BY <2>1, <2>2
<1>4. \A x \in App : Unlocked(x)'
  BY <1>a, PlaceTypes DEF AppInv, Unlocked, RegisterLock, At, Goto, Running, Lock, Unlock
<1>5. \A x \in App : Listed(x)'
  BY <1>a, PlaceTypes DEF AppInv, Listed, Entering, Booting, RegisterLock, At, Goto, Running, Lock, Unlock
<1>6. \A x \in App : Silent(x)'
  BY <1>a, PlaceTypes DEF AppInv, Silent, Entering, Booting, RegisterLock, At, Goto, Running, Lock, Unlock
<1>7. \A x \in App : Records(x)'
  BY <1>a, PlaceTypes DEF AppInv, Records, Committing, Clean, RegisterLock, At, Goto, Running, Lock, Unlock
<1>8. \A x \in App : Exiting(x)'
  BY <1>a, PlaceTypes DEF AppInv, Exiting, Committing, Clean, RegisterLock, At, Goto, Running, Lock, Unlock
<1>9. \A x \in Threads : Locked(x)'
  BY <1>a, PlaceTypes DEF AppInv, ThreadInv, Locked, Critical, Unlocked, RegisterLock, At, Goto, Running, Lock, Unlock
<1>10. \A x \in Threads : OwnCursor(x)'
  BY <1>a, PlaceTypes DEF ThreadInv, OwnCursor, RegisterLock, At, Goto, Running, Lock, Unlock
<1>11. \A q \in Procs : Hooked(q)' /\ OwnList(q)'
  BY <1>a, PlaceTypes DEF ProcInv, Hooked, OwnList, RegisterLock, At, Goto, Running, Lock, Unlock
<1>12. \A x \in App : Seen(x)'
  BY <1>a, PlaceTypes DEF AppInv, Seen, Writing, Clean, RegisterLock, At, Goto, Running, Lock, Unlock
<1> QED BY <1>1, <1>2, <1>3, <1>4, <1>5, <1>6, <1>7, <1>8, <1>9, <1>10, <1>11,
           <1>12 DEF AppInv, ThreadInv, ProcInv

LEMMA InsertKeeps ==
  ASSUME IInv, NEW t \in App, Insert(t) PROVE IInv'
<1> USE ThreadFacts DEF IInv
<1>a. UNCHANGED << initialized, handlers, buf, dump, made, calls, locked, cursor, taken, ended, atExit >>
  BY DEF Insert, Lock, Unlock, shared, records, forking, flush, life
<1>b. /\ pc[t] = "insert" /\ initialized[Proc(t)] /\ Proc(t) \in Procs
      /\ list[Proc(t)] \in Seq(App)
  BY SequenceTypes DEF AppInv, Starting, Insert, At
<1> DEFINE l == << t >> \o list[Proc(t)]
<1>c. l \in Seq(App) /\ l # << >> /\ ToSet(l) = {t} \cup ToSet(list[Proc(t)])
  <2>1. << t >> \in Seq(App) /\ Len(<< t >>) = 1
    OBVIOUS
  <2>2. l \in Seq(App) /\ Len(l) = 1 + Len(list[Proc(t)]) /\ Len(list[Proc(t)]) \in Nat
    BY <1>b, <2>1, ConcatProperties, LenProperties
  <2>3. l # << >>
    <3> HIDE DEF l
    <3> QED BY <2>2, EmptySeq
  <2> QED BY <1>b, <2>2, <2>3, ToSetOfSequence
<1>d. \A q \in Procs : list'[q] = IF q = Proc(t) THEN l ELSE list[q]
  BY SequenceTypes DEF Insert
<1> HIDE DEF l
<1>1. TypeOK'
  <2>1. list' \in [Procs -> Seq(App)]
    BY <1>b, <1>c, SequenceTypes DEF Insert, l
  <2> QED BY <1>a, <2>1, PlaceTypes DEF TypeOK, Places, Insert, At, Goto, Running, Lock, Unlock
<1>2. Alone'
  BY <1>a, PlaceTypes DEF Alone, Insert, At, Goto, Running, Lock, Unlock
<1>3. \A x \in App : Starting(x)'
  <2>1. Starting(t)'
    BY <1>a, <1>b, <1>c, <1>d, PlaceTypes DEF Starting, Booting, Insert, At, Goto, Running, Lock, Unlock
  <2>2. ASSUME NEW x \in App, x # t PROVE Starting(x)'
    <3>1. /\ pc'[x] = pc[x] /\ known'[x] = known[x]
          /\ \/ list'[Proc(x)] = list[Proc(x)]
             \/ list'[Proc(x)] # << >> /\ initialized[Proc(x)]
      BY <1>b, <1>c, <1>d, <2>2, PlaceTypes DEF Insert, At, Goto, Running, Lock, Unlock
    <3> QED BY <1>a, <3>1, StartingStays DEF AppInv
  <2> QED BY <2>1, <2>2
<1>4. \A x \in App : Unlocked(x)'
  BY <1>a, PlaceTypes DEF AppInv, Unlocked, Insert, At, Goto, Running, Lock, Unlock
<1>5. \A x \in App : Listed(x)'
  <2> TAKE x \in App
  <2>1. CASE x = t
    BY <1>b, <1>c, <1>d, <2>1 DEF Listed
  <2>2. CASE x # t
    <3>1. pc'[x] = pc[x] /\ known'[x] = known[x]
      BY <2>2, PlaceTypes DEF Insert, At, Goto, Running, Lock, Unlock
    <3>2. ToSet(list[Proc(x)]) \subseteq ToSet(list'[Proc(x)])
      BY <1>b, <1>c, <1>d
    <3> QED BY <3>1, <3>2 DEF AppInv, Listed
  <2> QED BY <2>1, <2>2
<1>6. \A x \in App : Silent(x)'
  BY <1>a, PlaceTypes DEF AppInv, Silent, Entering, Booting, Insert, At, Goto, Running, Lock, Unlock
<1>7. \A x \in App : Records(x)'
  BY <1>a, PlaceTypes DEF AppInv, Records, Committing, Clean, Insert, At, Goto, Running, Lock, Unlock
<1>8. \A x \in App : Exiting(x)'
  BY <1>a, PlaceTypes DEF AppInv, Exiting, Committing, Clean, Insert, At, Goto, Running, Lock, Unlock
<1>9. \A x \in Threads : Locked(x)'
  BY <1>a, PlaceTypes DEF AppInv, ThreadInv, Locked, Critical, Unlocked, Insert, At, Goto, Running, Lock, Unlock
<1>10. \A x \in Threads : OwnCursor(x)'
  BY <1>a, PlaceTypes DEF ThreadInv, OwnCursor, Insert, At, Goto, Running, Lock, Unlock
<1>11. \A q \in Procs : Hooked(q)' /\ OwnList(q)'
  <2>1. \A u \in App : pc'[u] = "child" <=> pc[u] = "child"
    BY <1>b, PlaceTypes DEF Insert, At, Goto, Running, Lock, Unlock
  <2> QED BY <1>a, <1>c, <1>d, <2>1 DEF ProcInv, Hooked, OwnList
<1>12. \A x \in App : Seen(x)'
  BY <1>a, PlaceTypes DEF AppInv, Seen, Writing, Clean, Insert, At, Goto, Running, Lock, Unlock
<1> QED BY <1>1, <1>2, <1>3, <1>4, <1>5, <1>6, <1>7, <1>8, <1>9, <1>10, <1>11,
           <1>12 DEF AppInv, ThreadInv, ProcInv

LEMMA FlushLockKeeps ==
  ASSUME IInv, NEW t \in Threads, FlushLock(t) PROVE IInv'
<1> USE ThreadFacts DEF IInv
<1>a. UNCHANGED << initialized, list, handlers, buf, dump, made, known, calls, locked, taken, ended, atExit >>
  BY DEF FlushLock, Lock, Unlock, shared, records, forking, flush, life
<1>b. /\ pc[t] \in {"sleep", "exit"} /\ pc' = [pc EXCEPT ![t] = "flush"]
      /\ cursor' = [cursor EXCEPT ![t] = list[Proc(t)]] /\ Proc(t) \in Procs
      /\ cursor'[t] = list[Proc(t)] /\ \A u \in Threads : u # t => cursor'[u] = cursor[u]
  BY SequenceTypes DEF FlushLock, At, Goto
<1>c. \A u \in Threads, x \in App : Committing(u, x)' <=> Committing(u, x)
  BY <1>b, PlaceTypes DEF Committing
<1>1. TypeOK'
  BY <1>a, ManagerAssumption DEF TypeOK, Places, FlushLock, At, Goto, Running, Lock, Unlock
<1>2. Alone'
  BY <1>a, PlaceTypes DEF Alone, FlushLock, At, Goto, Running, Lock, Unlock
<1>3. \A x \in App : Starting(x)'
  <2>1. Starting(t)'
    BY <1>a, PlaceTypes DEF AppInv, Starting, Booting, FlushLock, At, Goto, Running, Lock, Unlock
  <2>2. ASSUME NEW x \in App, x # t PROVE Starting(x)'
    BY <1>a, <2>2, PlaceTypes, StartingStays DEF AppInv, FlushLock, At, Goto, Running, Lock, Unlock
  <2> QED BY <2>1, <2>2
<1>4. \A x \in App : Unlocked(x)'
  BY <1>a, PlaceTypes DEF AppInv, Unlocked, FlushLock, At, Goto, Running, Lock, Unlock
<1>5. \A x \in App : Listed(x)'
  BY <1>a, PlaceTypes DEF AppInv, Listed, Entering, Booting, FlushLock, At, Goto, Running, Lock, Unlock
<1>6. \A x \in App : Silent(x)'
  BY <1>a, PlaceTypes DEF AppInv, Silent, Entering, Booting, FlushLock, At, Goto, Running, Lock, Unlock
<1>7. \A x \in App : Records(x)'
  BY <1>a, <1>c, RecordsStay DEF AppInv
<1>8. \A x \in App : Exiting(x)'
  <2> TAKE x \in App
  <2>1. Exiting(x)
    BY DEF AppInv
  <2>2. ASSUME Proc(t) = Proc(x) PROVE Len(dump[x]) >= atExit[x] \/ x \in ToSet(cursor'[t])
    <3>1. CASE made[x] = 0
      <4>1. atExit[x] = 0 /\ Len(dump[x]) \in Nat
        BY <2>1, <3>1, PlaceTypes, SequenceTypes DEF Exiting
      <4> QED BY <4>1
    <3>2. CASE made[x] # 0
      BY <1>b, <2>2, <3>2, RecordersAreListed
    <3> QED BY <3>1, <3>2
  <2>3. ~Committing(t, x)
    BY <1>b DEF Committing
  <2>4. \A u \in App : u # t => pc'[u] = pc[u] /\ cursor'[u] = cursor[u]
    BY <1>b, PlaceTypes
  <2> QED BY <1>a, <1>c, <2>1, <2>2, <2>3, <2>4 DEF Exiting, Clean
<1>9. \A x \in Threads : Locked(x)'
  BY <1>a, PlaceTypes DEF AppInv, ThreadInv, Locked, Critical, Unlocked, FlushLock, At, Goto, Running, Lock, Unlock
<1>10. \A x \in Threads : OwnCursor(x)'
  <2>1. \A o \in ToSet(list[Proc(t)]) : Proc(o) = Proc(t)
    <3>1. \A u \in App : Proc(u) = Proc(t) => pc[u] # "child"
      BY <1>b, NobodyElse
    <3> QED BY <1>b, <3>1 DEF ProcInv, OwnList
  <2> QED BY <1>b, <2>1, PlaceTypes DEF ThreadInv, OwnCursor
<1>11. \A q \in Procs : Hooked(q)' /\ OwnList(q)'
  BY <1>a, PlaceTypes DEF ProcInv, Hooked, OwnList, FlushLock, At, Goto, Running, Lock, Unlock
<1>12. \A x \in App : Seen(x)'
  <2>1. \A u \in Threads, x \in App : Writing(u, x)' <=> Writing(u, x)
    BY <1>b, PlaceTypes DEF Writing
  <2> QED BY <1>a, <2>1 DEF AppInv, Seen, Clean
<1> QED BY <1>1, <1>2, <1>3, <1>4, <1>5, <1>6, <1>7, <1>8, <1>9, <1>10, <1>11,
           <1>12 DEF AppInv, ThreadInv, ProcInv

LEMMA FlushLoadKeeps ==
  ASSUME IInv, NEW t \in Threads, FlushLoad(t) PROVE IInv'
<1> USE ThreadFacts DEF IInv
<1>a. UNCHANGED << initialized, mutex, list, handlers, buf, dump, made, known, calls, locked, cursor, ended, atExit >>
  BY DEF FlushLoad, Lock, Unlock, shared, records, forking, flush, life
<1>o. PICK o \in App : cursor[t] # << >> /\ o = Head(cursor[t])
  BY SequenceTypes, HeadTailProperties DEF FlushLoad
<1> DEFINE b == buf[Proc(t)][o]
<1>b. /\ pc[t] = "flush" /\ pc' = [pc EXCEPT ![t] = "write"]
      /\ cursor[t] \in Seq(App) /\ cursor[t] # << >>
      /\ taken' = [taken EXCEPT ![t] = Len(b)] /\ Proc(t) \in Procs /\ Len(b) \in Nat
      /\ \A u \in Threads : pc'[u] = IF u = t THEN "write" ELSE pc[u]
      /\ taken'[t] = Len(b) /\ \A u \in Threads : u # t => taken'[u] = taken[u]
  BY <1>o, PlaceTypes, SequenceTypes DEF FlushLoad, At, Goto
<1>c. ToSet(cursor[t]) = {o} \cup ToSet(Tail(cursor[t]))
  BY <1>o, <1>b, ToSetOfSequence
<1>d. /\ Proc(o) = Proc(t) /\ \A u \in Threads : ~Committing(u, o)
  <2>1. Proc(o) = Proc(t) /\ mutex[Proc(t)] = t
    BY <1>b, <1>c DEF ThreadInv, OwnCursor, Locked, Critical
  <2> QED BY <1>b, <1>c, <2>1, OneCommits DEF Committing
<1>e. /\ \A u \in Threads, x \in App : Committing(u, x)' <=> Committing(u, x)
      /\ \A u \in Threads, x \in App : Writing(u, x)' <=> Writing(u, x) \/ (u = t /\ x = o)
      /\ \A x \in App : Clean(x)' <=> Clean(x)
  <2>1. \A x \in App : Clean(x)' <=> Clean(x)
    BY <1>a DEF Clean
  <2> QED BY <1>o, <1>a, <1>b, <2>1 DEF Committing, Writing
<1> HIDE DEF b
<1>1. TypeOK'
  <2>1. pc' \in [Threads -> Places] /\ taken' \in [Threads -> Nat]
    BY <1>b, PlaceTypes DEF Places
  <2> QED BY <1>a, <1>b, <2>1 DEF TypeOK
<1>2. Alone'
  BY <1>a, PlaceTypes DEF Alone, FlushLoad, At, Goto, Running, Lock, Unlock
<1>3. \A x \in App : Starting(x)'
  <2>1. Starting(t)'
    BY <1>a, PlaceTypes DEF AppInv, Starting, Booting, FlushLoad, At, Goto, Running, Lock, Unlock
  <2>2. ASSUME NEW x \in App, x # t PROVE Starting(x)'
    BY <1>a, <2>2, PlaceTypes, StartingStays DEF AppInv, FlushLoad, At, Goto, Running, Lock, Unlock
  <2> QED BY <2>1, <2>2
<1>4. \A x \in App : Unlocked(x)'
  BY <1>a, PlaceTypes DEF AppInv, Unlocked, FlushLoad, At, Goto, Running, Lock, Unlock
<1>5. \A x \in App : Listed(x)'
  BY <1>a, PlaceTypes DEF AppInv, Listed, Entering, Booting, FlushLoad, At, Goto, Running, Lock, Unlock
<1>6. \A x \in App : Silent(x)'
  BY <1>a, <1>b DEF AppInv, Silent, Entering, Booting
<1>7. \A x \in App : Records(x)'
  <2>1. \A u \in Threads, x \in App : Committing(u, x) => taken'[u] = taken[u]
    BY <1>b DEF Committing
  <2> QED BY <1>a, <1>e, <2>1, RecordsStay DEF AppInv
<1>8. \A x \in App : Exiting(x)'
  <2>1. \A u \in Threads : pc'[u] \in {"flush", "write", "commit"}
                             <=> pc[u] \in {"flush", "write", "commit"}
    BY <1>b
  <2> QED BY <1>a, <1>e, <2>1 DEF AppInv, Exiting
<1>9. \A x \in Threads : Locked(x)'
  BY <1>a, PlaceTypes DEF AppInv, ThreadInv, Locked, Critical, Unlocked, FlushLoad, At, Goto, Running, Lock, Unlock
<1>10. \A x \in Threads : OwnCursor(x)'
  BY <1>a, PlaceTypes DEF ThreadInv, OwnCursor, FlushLoad, At, Goto, Running, Lock, Unlock
<1>11. \A q \in Procs : Hooked(q)' /\ OwnList(q)'
  BY <1>a, PlaceTypes DEF ProcInv, Hooked, OwnList, FlushLoad, At, Goto, Running, Lock, Unlock
<1>12. \A x \in App : Seen(x)'
  <2>1. taken'[t] =< Len(buf[Proc(o)][o])
    BY <1>b, <1>d DEF b
  <2>2. ASSUME Clean(o) PROVE Len(dump[o]) + taken'[t] >= atExit[o]
    <3>1. Len(dump[o]) + Len(b) = made[o]
      BY <1>d, <2>2 DEF AppInv, Records, b
    <3>2. atExit[o] =< made[o] /\ atExit[o] \in Nat /\ made[o] \in Nat
      BY PlaceTypes DEF AppInv, Exiting
    <3> QED BY <1>b, <3>1, <3>2
  <2>3. \A u \in Threads, x \in App : Writing(u, x) => u # t
    BY <1>b DEF Writing
  <2> QED BY <1>a, <1>b, <1>e, <2>1, <2>2, <2>3 DEF AppInv, Seen
<1> QED BY <1>1, <1>2, <1>3, <1>4, <1>5, <1>6, <1>7, <1>8, <1>9, <1>10, <1>11,
           <1>12 DEF AppInv, ThreadInv, ProcInv

LEMMA FlushWriteKeeps ==
  ASSUME IInv, NEW t \in Threads, FlushWrite(t) PROVE IInv'
<1> USE ThreadFacts DEF IInv
<1>a. UNCHANGED << initialized, mutex, list, handlers, buf, made, known, calls, locked, cursor, ended, atExit >>
  BY DEF FlushWrite, Lock, Unlock, shared, records, forking, flush, life
<1>o. PICK o \in App : cursor[t] # << >> /\ o = Head(cursor[t])
  BY SequenceTypes, HeadTailProperties DEF FlushWrite, At, ThreadInv, OwnCursor
<1> DEFINE b == buf[Proc(t)][o]
           k == taken[t]
           data == SubSeq(b, 1, k)
           e == dump[o] \o data
           f == dump[o] \o Append(data, Junk)
           S == 0 .. MaxRecords
<1>b. /\ pc[t] = "write" /\ pc' = [pc EXCEPT ![t] = "commit"]
      /\ cursor[t] \in Seq(App) /\ cursor[t] # << >>
      /\ \A u \in Threads : pc'[u] = IF u = t THEN "commit" ELSE pc[u]
  BY <1>o, PlaceTypes, SequenceTypes DEF FlushWrite, At, Goto
<1>c. o \in App /\ ToSet(cursor[t]) = {o} \cup ToSet(Tail(cursor[t]))
  BY <1>o, <1>b, ToSetOfSequence
<1>d. /\ Proc(o) = Proc(t) /\ Proc(o) \in Procs /\ Writing(t, o)
      /\ \A u \in Threads : ~Committing(u, o) /\ (u # t => ~Writing(u, o))
  <2>1. Writing(t, o)
    BY <1>o, <1>b DEF Writing
  <2> QED BY <1>b, <2>1, OneCommits DEF Committing
<1>e. /\ dump[o] \in Seq(S) /\ b \in Seq(S) /\ S \in SUBSET Int /\ Junk \in S
      /\ made[o] \in Nat /\ Len(dump[o]) \in Nat /\ Len(b) \in Nat
      /\ k \in Nat /\ k =< Len(b)
      /\ Clean(o) => Len(dump[o]) + Len(b) = made[o]
      /\ \A i \in 1 .. Len(dump[o]) : dump[o][i] \in {i, Junk}
      /\ \A i \in 1 .. Len(b) : b[i] = made[o] - Len(b) + i
      /\ t \in App /\ Clean(o) => Len(dump[o]) + k >= atExit[o]
      /\ atExit[o] =< made[o] /\ atExit[o] \in Nat
  <2>1. /\ dump[o] \in Seq(S) /\ b \in Seq(S) /\ S \in SUBSET Int /\ made[o] \in Nat
        /\ Len(dump[o]) \in Nat /\ Len(b) \in Nat /\ k \in Nat /\ atExit[o] \in Nat
        /\ Junk \in S
    BY <1>d, PlaceTypes, SequenceTypes, ManagerAssumption, RecordsAreNumbers DEF Junk
  <2>2. Records(o) /\ Exiting(o) /\ Seen(o)
    BY DEF AppInv
  <2>3. k =< Len(b) /\ (t \in App /\ Clean(o) => Len(dump[o]) + k >= atExit[o])
    BY <1>d, <2>2 DEF Seen
  <2>4. /\ Clean(o) => Len(dump[o]) + Len(b) = made[o]
        /\ \A i \in 1 .. Len(dump[o]) : dump[o][i] \in {i, Junk}
        /\ \A i \in 1 .. Len(b) : b[i] = made[o] - Len(b) + i
    BY <1>d, <2>2 DEF Records
  <2> QED BY <2>1, <2>2, <2>3, <2>4 DEF Exiting
<1>f. ASSUME Clean(o)
      PROVE  /\ e \in Seq(S) /\ Len(e) = Len(dump[o]) + k /\ \A i \in 1 .. Len(e) : e[i] = i
             /\ f \in Seq(S) /\ f[Len(f)] = Junk /\ Len(f) \in 1 .. Len(f)
             /\ \A i \in 1 .. Len(f) : f[i] \in {i, Junk}
  <2> DEFINE d == dump[o]
  <2>1. \A i \in 1 .. Len(d) : d[i] = i
    BY <1>e, <1>f, CleanDumps
  <2>2. \A i \in 1 .. Len(b) : b[i] = Len(d) + i
    <3> DEFINE m == Len(d)
               l == Len(b)
    <3>1. m \in Nat /\ l \in Nat /\ m + l = made[o] /\ \A i \in 1 .. l : b[i] = made[o] - l + i
      BY <1>e, <1>f
    <3> HIDE DEF m, l
    <3>2. \A i \in 1 .. l : b[i] = m + i
      BY <3>1
    <3> QED BY <3>2 DEF m, l
  <2>3. d \in Seq(S) /\ b \in Seq(S) /\ k \in Nat /\ k =< Len(b) /\ S \in SUBSET Int
    BY <1>e
  <2>4. data \in Seq(S) /\ Junk \in S
    <3> DEFINE l == Len(b)
    <3>1. l \in Nat /\ k \in Nat /\ k =< l /\ b \in Seq(S)
      BY <1>e
    <3> HIDE DEF l, k, b, S
    <3>2. 1 \in 1 .. l + 1 /\ k \in 1 - 1 .. l
      BY <3>1
    <3> QED BY <1>e, <3>1, <3>2, SubSeqProperties DEF l
  <2> HIDE DEF b, k, S, d
  <2>5. e \in Seq(S) /\ Len(e) = Len(d) + k /\ \A i \in 1 .. Len(e) : e[i] = i
    BY <2>1, <2>2, <2>3, RecordsWritten DEF d
  <2> HIDE DEF data
  <2>6. /\ f \in Seq(S) /\ Len(f) = Len(e) + 1 /\ f[Len(e) + 1] = Junk
        /\ \A i \in 1 .. Len(e) : f[i] = e[i]
    <3>1. /\ d \o Append(data, Junk) \in Seq(S)
          /\ Len(d \o Append(data, Junk)) = Len(d \o data) + 1
          /\ (d \o Append(data, Junk))[Len(d \o data) + 1] = Junk
          /\ \A i \in 1 .. Len(d \o data) : (d \o Append(data, Junk))[i] = (d \o data)[i]
      BY <2>3, <2>4, JunkWritten
    <3> QED BY <3>1 DEF d
  <2> DEFINE n == Len(e)
  <2>7. n \in Nat /\ \A i \in 1 .. n : f[i] = i
    BY <2>5, <2>6, LenProperties
  <2> HIDE DEF e, f
  <2>8. ASSUME NEW i \in 1 .. Len(f) PROVE f[i] \in {i, Junk}
    <3>1. Len(f) = n + 1 /\ f[n + 1] = Junk
      BY <2>6
    <3> HIDE DEF n
    <3>2. i = n + 1 \/ i \in 1 .. n
      BY <2>7, <3>1
    <3> QED BY <2>7, <3>1, <3>2
  <2>9. Len(f) \in 1 .. Len(f) /\ f[Len(f)] = Junk
    <3>1. Len(f) = n + 1 /\ f[n + 1] = Junk
      BY <2>6
    <3> HIDE DEF n
    <3> QED BY <2>7, <3>1
  <2> QED BY <2>5, <2>6, <2>8, <2>9 DEF d
<1>g. /\ taken' \in [Threads -> Nat] /\ \A u \in Threads : u # t => taken'[u] = taken[u]
      /\ \/ taken'[t] = k /\ dump' = IF Clean(o) THEN [dump EXCEPT ![o] = e] ELSE dump
         \/ Torn(t, o) /\ dump' = IF Clean(o) THEN [dump EXCEPT ![o] = f] ELSE dump
         \/ k = 0 /\ taken'[t] = 0 /\ dump' = dump
      /\ k > 0 \/ Torn(t, o) \/ dump' = dump
  <2>1. \A n \in 1 .. BufferSize : n \in Nat
    BY ManagerAssumption
  <2> QED BY <1>o, <2>1, PlaceTypes DEF FlushWrite, WriteToFd
<1>u. ASSUME pc[o] = "unborn" PROVE dump' = dump
  <2>1. Len(b) = 0
    BY <1>d, <1>u, PlaceTypes DEF AppInv, Silent
  <2>2. k = 0 /\ ~(Len(buf[Proc(t)][o]) > taken[t])
    <3> DEFINE l == Len(b)
    <3>1. k \in Nat /\ l = 0 /\ k =< l
      BY <1>e, <2>1
    <3> HIDE DEF l, k
    <3>2. k = 0 /\ ~(l > k)
      BY <3>1
    <3> QED BY <3>2 DEF l, k
  <2>3. ~Torn(t, o)
    BY <1>u, <2>2 DEF Torn
  <2>4. ~(k > 0)
    BY <2>2
  <2> QED BY <1>g, <2>3, <2>4
<1> HIDE DEF b, k, data, e, f
<1>h. /\ dump' \in [App -> Seq(S)] /\ \A x \in App : x # o => dump'[x] = dump[x]
      /\ \A i \in 1 .. Len(dump'[o]) : dump'[o][i] \in {i, Junk}
      /\ Clean(o)' => /\ Clean(o) /\ taken'[t] = k /\ Len(dump'[o]) = Len(dump[o]) + k
  <2>1. dump \in [App -> Seq(S)]
    BY SequenceTypes
  <2>2. CASE dump' = dump /\ (~Clean(o) \/ (k = 0 /\ taken'[t] = 0))
    <3>1. Clean(o)' <=> Clean(o)
      BY <2>2 DEF Clean
    <3>2. k = 0 => Len(dump[o]) = Len(dump[o]) + k
      BY <1>e
    <3> QED BY <1>e, <2>1, <2>2, <3>1, <3>2
  <2>3. CASE Clean(o) /\ taken'[t] = k /\ dump' = [dump EXCEPT ![o] = e]
    <3>1. dump'[o] = e /\ e \in Seq(S) /\ Len(e) = Len(dump[o]) + k
          /\ \A i \in 1 .. Len(e) : e[i] = i
      BY <1>f, <2>1, <2>3
    <3> QED BY <2>1, <2>3, <3>1
  <2>4. CASE Clean(o) /\ dump' = [dump EXCEPT ![o] = f]
    <3>1. /\ dump'[o] = f /\ f \in Seq(S) /\ f[Len(f)] = Junk /\ Len(f) \in 1 .. Len(f)
          /\ \A i \in 1 .. Len(f) : f[i] \in {i, Junk}
      BY <1>f, <2>1, <2>4
    <3>2. ~Clean(o)'
      BY <3>1, CleanDumpsAfter
    <3> QED BY <2>1, <2>4, <3>1, <3>2
  <2> QED BY <1>g, <2>2, <2>3, <2>4
<1> HIDE DEF S
<1>k. /\ \A u \in Threads : Committing(u, o)' <=> u = t
      /\ \A u \in Threads : ~Writing(u, o)'
      /\ \A u \in Threads, x \in App : x # o =>
           (Committing(u, x)' <=> Committing(u, x)) /\ (Writing(u, x)' <=> Writing(u, x))
      /\ \A x \in App : x # o => ~Committing(t, x) /\ ~Writing(t, x) /\ (Clean(x)' <=> Clean(x))
  <2>1. \A x \in App : x # o => (Clean(x)' <=> Clean(x))
    BY <1>h DEF Clean
  <2> QED BY <1>o, <1>a, <1>b, <1>d, <2>1 DEF Committing, Writing
<1>1. TypeOK'
  <2>1. pc' \in [Threads -> Places]
    BY <1>b, PlaceTypes DEF Places
  <2> QED BY <1>a, <1>b, <1>g, <1>h, <2>1 DEF TypeOK, S
<1>2. Alone'
  BY <1>a, PlaceTypes DEF Alone, FlushWrite, At, Goto, Running, Lock, Unlock
<1>3. \A x \in App : Starting(x)'
  <2>1. Starting(t)'
    BY <1>a, PlaceTypes DEF AppInv, Starting, Booting, FlushWrite, At, Goto, Running, Lock, Unlock
  <2>2. ASSUME NEW x \in App, x # t PROVE Starting(x)'
    BY <1>a, <2>2, PlaceTypes, StartingStays DEF AppInv, FlushWrite, At, Goto, Running, Lock, Unlock
  <2> QED BY <2>1, <2>2
<1>4. \A x \in App : Unlocked(x)'
  BY <1>a, PlaceTypes DEF AppInv, Unlocked, FlushWrite, At, Goto, Running, Lock, Unlock
<1>5. \A x \in App : Listed(x)'
  BY <1>a, PlaceTypes DEF AppInv, Listed, Entering, Booting, FlushWrite, At, Goto, Running, Lock, Unlock
<1>6. \A x \in App : Silent(x)'
  <2>1. \A x \in App : pc[x] = "unborn" => dump'[x] = dump[x]
    BY <1>h, <1>u
  <2> QED BY <1>a, <1>b, <2>1 DEF AppInv, Silent, Entering, Booting
<1>7. \A x \in App : Records(x)'
  <2>1. Records(o)'
    <3>1. buf'[Proc(o)][o] = b /\ made'[o] = made[o]
      BY <1>a, <1>d DEF b
    <3>2. ASSUME Clean(o)'
          PROVE  taken'[t] =< Len(b) /\ Len(dump'[o]) + Len(b) = made[o] + taken'[t]
      <4> DEFINE m == Len(dump[o])
                 l == Len(b)
                 n == Len(dump'[o])
      <4>1. /\ m \in Nat /\ l \in Nat /\ k \in Nat /\ k =< l /\ m + l = made[o] /\ n = m + k
            /\ taken'[t] = k
        BY <1>e, <1>h, <3>2
      <4> HIDE DEF m, l, n
      <4>2. taken'[t] =< l /\ n + l = made[o] + taken'[t]
        BY <4>1
      <4> QED BY <4>2 DEF l, n
    <3> QED BY <1>e, <1>h, <1>k, <3>1, <3>2 DEF Records
  <2>2. ASSUME NEW x \in App, x # o PROVE Records(x)'
    <3>1. \A u \in Threads : Committing(u, x) => taken'[u] = taken[u]
      BY <1>g, <1>k, <2>2
    <3> QED BY <1>a, <1>h, <1>k, <2>2, <3>1, RecordsStay DEF AppInv
  <2> QED BY <2>1, <2>2
<1>8. \A x \in App : Exiting(x)'
  <2>1. ASSUME Clean(o)' PROVE t \in App => Len(dump'[o]) >= atExit[o]
    BY <1>e, <1>h, <2>1
  <2>2. ASSUME Clean(o)', Len(dump[o]) >= atExit[o] PROVE Len(dump'[o]) >= atExit[o]
    <3> DEFINE m == Len(dump[o])
               n == Len(dump'[o])
    <3>1. m \in Nat /\ k \in Nat /\ n = m + k /\ m >= atExit[o] /\ atExit[o] \in Nat
      BY <1>e, <1>h, <2>2
    <3> HIDE DEF m, n
    <3>2. n >= atExit[o]
      BY <3>1
    <3> QED BY <3>2 DEF n
  <2>3. Exiting(o)'
    <3>1. Exiting(o)
      BY DEF AppInv
    <3>2. ASSUME NEW u \in App, Proc(u) = Proc(o), pc'[u] \in {"flush", "write", "commit"}, Clean(o)'
          PROVE  \/ Len(dump'[o]) >= atExit[o]
                 \/ o \in ToSet(cursor'[u]) /\ ~Committing(u, o)'
      <4>1. CASE u = t
        BY <2>1, <3>2, <4>1
      <4>2. CASE u # t
        <5>1. pc[u] = pc'[u] /\ Clean(o) /\ ~Committing(u, o)'
          BY <1>b, <1>h, <1>k, <3>2, <4>2
        <5> QED BY <1>a, <2>2, <3>1, <3>2, <5>1 DEF Exiting
      <4> QED BY <4>1, <4>2
    <3>3. Proc(o) \in ended /\ Clean(o)' => Len(dump'[o]) >= atExit[o]
      BY <1>h, <2>2, <3>1 DEF Exiting
    <3> QED BY <1>a, <3>1, <3>2, <3>3 DEF Exiting
  <2>4. ASSUME NEW x \in App, x # o PROVE Exiting(x)'
    <3>1. \A u \in Threads : pc'[u] \in {"flush", "write", "commit"}
                               <=> pc[u] \in {"flush", "write", "commit"}
      BY <1>b
    <3> QED BY <1>a, <1>h, <1>k, <2>4, <3>1 DEF AppInv, Exiting
  <2> QED BY <2>3, <2>4
<1>9. \A x \in Threads : Locked(x)'
  BY <1>a, PlaceTypes DEF AppInv, ThreadInv, Locked, Critical, Unlocked, FlushWrite, At, Goto, Running, Lock, Unlock
<1>10. \A x \in Threads : OwnCursor(x)'
  BY <1>a, PlaceTypes DEF ThreadInv, OwnCursor, FlushWrite, At, Goto, Running, Lock, Unlock
<1>11. \A q \in Procs : Hooked(q)' /\ OwnList(q)'
  BY <1>a, PlaceTypes DEF ProcInv, Hooked, OwnList, FlushWrite, At, Goto, Running, Lock, Unlock
<1>12. \A x \in App : Seen(x)'
  <2>1. Seen(o)'
    BY <1>k DEF Seen
  <2>2. ASSUME NEW x \in App, x # o PROVE Seen(x)'
    BY <1>a, <1>g, <1>h, <1>k, <2>2 DEF AppInv, Seen
  <2> QED BY <2>1, <2>2
<1> QED BY <1>1, <1>2, <1>3, <1>4, <1>5, <1>6, <1>7, <1>8, <1>9, <1>10, <1>11,
           <1>12 DEF AppInv, ThreadInv, ProcInv

LEMMA FlushCommitKeeps ==
  ASSUME IInv, NEW t \in Threads, FlushCommit(t) PROVE IInv'
<1> USE ThreadFacts DEF IInv
<1>a. UNCHANGED << initialized, mutex, list, handlers, dump, made, known, calls, locked, ended, atExit >>
  BY DEF FlushCommit, Lock, Unlock, shared, records, forking, flush, life
<1>o. PICK o \in App : cursor[t] # << >> /\ o = Head(cursor[t])
  BY SequenceTypes, HeadTailProperties DEF FlushCommit, At, ThreadInv, OwnCursor
<1> DEFINE b == buf[Proc(t)][o]
           a == IF taken[t] =< Len(b) THEN SubSeq(b, taken[t] + 1, Len(b)) ELSE b
           n == IF taken[t] =< Len(b) THEN taken[t] ELSE 0
           S == 1 .. MaxRecords
<1>b. /\ pc[t] = "commit" /\ cursor[t] \in Seq(App) /\ cursor[t] # << >>
      /\ pc' = [pc EXCEPT ![t] = "flush"] /\ cursor' = [cursor EXCEPT ![t] = Tail(cursor[t])]
      /\ taken' = [taken EXCEPT ![t] = 0] /\ taken[t] \in Nat
  BY PlaceTypes, SequenceTypes DEF FlushCommit, At, Goto, ThreadInv, OwnCursor
<1>c. /\ o \in App /\ Tail(cursor[t]) \in Seq(App)
      /\ ToSet(cursor[t]) = {o} \cup ToSet(Tail(cursor[t]))
  BY <1>o, <1>b, HeadTailProperties, ToSetOfSequence
<1>d. /\ Committing(t, o) /\ Proc(o) = Proc(t) /\ Proc(o) \in Procs
      /\ \A u \in Threads : u # t => ~Committing(u, o)
  <2>1. Committing(t, o)
    BY <1>o, <1>b DEF Committing
  <2> QED BY <1>c, <2>1, OneCommits
<1>e. /\ b \in Seq(S) /\ S \in SUBSET Int /\ made[o] \in Nat
      /\ Len(dump[o]) \in Nat /\ Len(b) \in Nat
      /\ Clean(o) => taken[t] =< Len(b) /\ Len(dump[o]) + Len(b) = made[o] + taken[t]
      /\ Len(b) =< BufferSize /\ n \in Nat /\ n =< Len(b) /\ (Clean(o) => n = taken[t])
      /\ \A i \in 1 .. Len(dump[o]) : dump[o][i] \in {i, Junk}
      /\ \A i \in 1 .. Len(b) : b[i] = made[o] - Len(b) + i
  <2>1. /\ b \in Seq(S) /\ S \in SUBSET Int /\ made[o] \in Nat
        /\ Len(dump[o]) \in Nat /\ Len(b) \in Nat /\ Len(b) =< BufferSize
    BY <1>d, PlaceTypes, SequenceTypes, ManagerAssumption
  <2>2. Records(o)
    BY DEF AppInv
  <2>3. Clean(o) => taken[t] =< Len(b) /\ Len(dump[o]) + Len(b) = made[o] + taken[t]
    BY <1>c, <1>d, <2>2 DEF Records
  <2>4. n \in Nat /\ n =< Len(b) /\ (Clean(o) => n = taken[t])
    <3> DEFINE l == Len(b)
               k == taken[t]
    <3>1. l \in Nat /\ k \in Nat /\ (Clean(o) => k =< l) /\ n = IF k =< l THEN k ELSE 0
      BY <1>b, <2>1, <2>3
    <3> HIDE DEF l, k, n
    <3>2. n \in Nat /\ n =< l /\ (Clean(o) => n = k)
      BY <3>1
    <3> QED BY <3>2 DEF l, k
  <2> QED BY <1>c, <1>d, <2>1, <2>2, <2>3, <2>4 DEF Records
<1>f. buf' = [buf EXCEPT ![Proc(t)][o] = a]
  BY <1>o, <1>c, <1>d, SequenceTypes DEF FlushCommit
<1>g. /\ a \in Seq(S) /\ Len(a) = Len(b) - n
      /\ \A i \in 1 .. Len(b) - n : a[i] = made[o] - (Len(b) - n) + i
  <2>1. CASE taken[t] =< Len(b)
    <3>1. n = taken[t] /\ a = SubSeq(b, n + 1, Len(b))
      BY <2>1
    <3> DEFINE m == made[o]
    <3> HIDE DEF a, b, n, S, m
    <3>2. /\ S \in SUBSET Int /\ b \in Seq(S) /\ m \in Nat /\ n \in Nat /\ n =< Len(b)
          /\ \A i \in 1 .. Len(b) : b[i] = m - Len(b) + i
      BY <1>e DEF m
    <3>3. /\ SubSeq(b, n + 1, Len(b)) \in Seq(S) /\ Len(SubSeq(b, n + 1, Len(b))) = Len(b) - n
          /\ \A i \in 1 .. Len(b) - n :
               SubSeq(b, n + 1, Len(b))[i] = m - (Len(b) - n) + i
      BY <3>2, RecordsDropped
    <3> QED BY <3>1, <3>3 DEF m
  <2>2. CASE ~(taken[t] =< Len(b))
    <3>1. n = 0 /\ a = b
      BY <2>2
    <3> HIDE DEF a, b, n, S
    <3>2. Len(b) - n = Len(b)
      BY <1>e, <3>1
    <3> QED BY <1>e, <3>1, <3>2
  <2> QED BY <2>1, <2>2
<1> HIDE DEF a, b, n, S
<1>h. Len(a) =< BufferSize /\ (Clean(o) => Len(dump[o]) + Len(a) = made[o])
  <2> DEFINE d == Len(dump[o])
             l == Len(b)
  <2>1. /\ d \in Nat /\ l \in Nat /\ n \in Nat /\ n =< l
        /\ Clean(o) => d + l = made[o] + n
        /\ l =< BufferSize /\ Len(a) = l - n
    BY <1>e, <1>g
  <2>2. made[o] \in Nat /\ BufferSize \in Nat
    BY <1>e, ManagerAssumption
  <2> HIDE DEF d, l
  <2>3. Len(a) =< BufferSize
    BY <2>1, <2>2
  <2>4. ASSUME Clean(o) PROVE d + Len(a) = made[o]
    BY <2>1, <2>2, <2>4
  <2> QED BY <2>3, <2>4 DEF d
<1>i. /\ buf' \in [Procs -> [App -> Seq(S)]] /\ buf'[Proc(t)][o] = a
      /\ \A q \in Procs, x \in App : q # Proc(t) \/ x # o => buf'[q][x] = buf[q][x]
      /\ \A q \in Procs, x \in App : Len(buf'[q][x]) =< BufferSize
  BY <1>c, <1>d, <1>f, <1>g, <1>h, SequenceTypes DEF S
<1>j. /\ taken'[t] = 0 /\ cursor'[t] = Tail(cursor[t])
      /\ \A u \in Threads : u # t => taken'[u] = taken[u] /\ cursor'[u] = cursor[u]
      /\ \A u \in Threads : pc'[u] = IF u = t THEN "flush" ELSE pc[u]
  BY <1>b, PlaceTypes, SequenceTypes
<1>k. /\ \A u \in Threads : ~Committing(u, o)'
      /\ \A u \in Threads, x \in App : x # o => (Committing(u, x)' <=> Committing(u, x))
  BY <1>o, <1>b, <1>d, <1>j DEF Committing
<1>1. TypeOK'
  <2>1. taken' \in [Threads -> Nat] /\ cursor' \in [Threads -> Seq(App)]
    BY <1>b, <1>c, PlaceTypes, SequenceTypes
  <2>2. pc' \in [Threads -> Places] /\ \A u \in Threads : pc'[u] = IF u = t THEN "flush" ELSE pc[u]
    BY <1>b, PlaceTypes DEF Places
  <2> QED BY <1>a, <1>i, <2>1, <2>2 DEF TypeOK, S
<1>2. Alone'
  BY <1>a, PlaceTypes DEF Alone, FlushCommit, At, Goto, Running, Lock, Unlock
<1>3. \A x \in App : Starting(x)'
  <2>1. Starting(t)'
    BY <1>a, PlaceTypes DEF AppInv, Starting, Booting, FlushCommit, At, Goto, Running, Lock, Unlock
  <2>2. ASSUME NEW x \in App, x # t PROVE Starting(x)'
    BY <1>a, <2>2, PlaceTypes, StartingStays DEF AppInv, FlushCommit, At, Goto, Running, Lock, Unlock
  <2> QED BY <2>1, <2>2
<1>4. \A x \in App : Unlocked(x)'
  BY <1>a, PlaceTypes DEF AppInv, Unlocked, FlushCommit, At, Goto, Running, Lock, Unlock
<1>5. \A x \in App : Listed(x)'
  BY <1>a, PlaceTypes DEF AppInv, Listed, Entering, Booting, FlushCommit, At, Goto, Running, Lock, Unlock
<1>6. \A x \in App : Silent(x)'
  <2>1. ASSUME b = << >> PROVE a = << >>
    <3>1. Len(b) = 0
      BY <1>e, <2>1, EmptySeq
    <3>2. Len(a) = 0
      <4> DEFINE l == Len(b)
      <4>1. l = 0 /\ Len(a) = l - n /\ n =< l /\ n \in Nat
        BY <1>e, <1>g, <3>1
      <4> HIDE DEF l
      <4> QED BY <4>1
    <3> QED BY <1>g, <3>2, EmptySeq
  <2>2. Proc(o) \in Procs /\ b = buf[Proc(t)][o] /\ Proc(t) = Proc(o)
    BY <1>d DEF b
  <2>3. ASSUME NEW x \in App, pc[x] = "unborn" PROVE \A q \in Procs : buf'[q][x] = << >>
    <3>1. \A q \in Procs : buf[q][x] = << >>
      BY <2>3 DEF AppInv, Silent
    <3> QED BY <1>i, <2>1, <2>2, <3>1
  <2>4. \A x \in App : (pc'[x] = "unborn" <=> pc[x] = "unborn") /\ (pc'[x] \in Entering <=> pc[x] \in Entering)
    BY <1>b, <1>j DEF Entering, Booting
  <2> QED BY <1>a, <2>3, <2>4 DEF AppInv, Silent
<1>7. \A x \in App : Records(x)'
  <2>1. Records(o)'
    <3>1. \A i \in 1 .. Len(a) : a[i] = made[o] - Len(a) + i
      BY <1>g
    <3>2. Clean(o)' <=> Clean(o)
      BY <1>a DEF Clean
    <3> QED BY <1>a, <1>c, <1>d, <1>e, <1>h, <1>i, <1>k, <3>1, <3>2 DEF Records
  <2>2. ASSUME NEW x \in App, x # o PROVE Records(x)'
    <3>1. \A u \in Threads : Committing(u, x) => taken'[u] = taken[u]
      BY <1>o, <1>j, <2>2 DEF Committing
    <3>2. buf'[Proc(x)][x] = buf[Proc(x)][x]
      BY <1>i, <2>2
    <3> QED BY <1>a, <1>k, <2>2, <3>1, <3>2, RecordsStay DEF AppInv
  <2> QED BY <2>1, <2>2
<1>8. \A x \in App : Exiting(x)'
  <2> TAKE x \in App
  <2>1. Exiting(x) /\ Exiting(o)
    BY <1>c DEF AppInv
  <2>2. Exiting(o)'
    <3>1. ASSUME NEW u \in App, Proc(u) = Proc(o), pc'[u] \in {"flush", "write", "commit"}
          PROVE  ~Clean(o) \/ Len(dump[o]) >= atExit[o] \/ (o \in ToSet(cursor'[u]) /\ ~Committing(u, o)')
      <4>1. CASE u = t
        BY <1>b, <1>d, <2>1, <3>1, <4>1 DEF Exiting
      <4>2. CASE u # t
        BY <1>j, <1>k, <2>1, <3>1, <4>2 DEF Exiting
      <4> QED BY <4>1, <4>2
    <3> QED BY <1>a, <2>1, <3>1 DEF Exiting, Clean
  <2>3. CASE x # o
    BY <1>a, <1>b, <1>c, <1>j, <1>k, <2>1, <2>3 DEF Exiting, Committing, Clean
  <2> QED BY <2>2, <2>3
<1>9. \A x \in Threads : Locked(x)'
  BY <1>a, PlaceTypes DEF AppInv, ThreadInv, Locked, Critical, Unlocked, FlushCommit, At, Goto, Running, Lock, Unlock
<1>10. \A x \in Threads : OwnCursor(x)'
  BY <1>b, <1>c, <1>j DEF ThreadInv, OwnCursor
<1>11. \A q \in Procs : Hooked(q)' /\ OwnList(q)'
  BY <1>a, PlaceTypes DEF ProcInv, Hooked, OwnList, FlushCommit, At, Goto, Running, Lock, Unlock
<1>12. \A x \in App : Seen(x)'
  <2>1. \A u \in Threads, x \in App : Writing(u, x)' => Writing(u, x) /\ u # t
    BY <1>b, <1>j DEF Writing
  <2>2. ASSUME NEW u \in Threads, Writing(u, o) PROVE u = t
    BY <1>c, <1>d, <2>2, OneCommits
  <2>3. \A x \in App : x # o => buf'[Proc(x)][x] = buf[Proc(x)][x]
    BY <1>i
  <2> QED BY <1>a, <1>j, <2>1, <2>2, <2>3 DEF AppInv, Seen, Clean
<1> QED BY <1>1, <1>2, <1>3, <1>4, <1>5, <1>6, <1>7, <1>8, <1>9, <1>10, <1>11,
           <1>12 DEF AppInv, ThreadInv, ProcInv

LEMMA FlushUnlockKeeps ==
  ASSUME IInv, NEW t \in Threads, FlushUnlock(t) PROVE IInv'
<1> USE ThreadFacts DEF IInv
<1>a. UNCHANGED << initialized, list, handlers, buf, dump, made, known, calls, locked, cursor, taken, atExit >>
  BY DEF FlushUnlock, Lock, Unlock, shared, records, forking, flush, life
<1>b. /\ pc[t] = "flush" /\ cursor[t] = << >> /\ mutex' = [mutex EXCEPT ![Proc(t)] = Free]
      /\ pc' = [pc EXCEPT ![t] = IF t \in Flushers THEN "sleep" ELSE "gone"]
      /\ ended' = IF t \in Flushers THEN ended ELSE ended \cup {Proc(t)}
  BY DEF FlushUnlock, At, Goto, Running, Lock, Unlock
<1>c. /\ t \in Flushers => pc'[t] = "sleep"
      /\ t \notin Flushers => t \in App /\ pc'[t] = "gone"
      /\ \A u \in Threads : u # t => pc'[u] = pc[u]
  BY <1>b, PlaceTypes
<1>d. \A u \in Threads, x \in App : Committing(u, x)' <=> Committing(u, x)
  BY <1>a, <1>b, <1>c DEF Committing
<1>1. TypeOK'
  <2>1. /\ pc' \in [Threads -> Places] /\ mutex' \in [Procs -> Threads \cup {Free}]
        /\ ended' \subseteq Procs
    BY <1>b, PlaceTypes DEF Places
  <2> QED BY <1>a, <1>c, <2>1, PlaceTypes DEF TypeOK
<1>2. Alone'
  BY <1>a, <1>b, <1>c, PlaceTypes DEF Alone
<1>3. \A x \in App : Starting(x)'
  <2>1. Starting(t)'
    BY <1>a, PlaceTypes DEF AppInv, Starting, Booting, FlushUnlock, At, Goto, Running, Lock, Unlock
  <2>2. ASSUME NEW x \in App, x # t PROVE Starting(x)'
    BY <1>a, <2>2, PlaceTypes, StartingStays DEF AppInv, FlushUnlock, At, Goto, Running, Lock, Unlock
  <2> QED BY <2>1, <2>2
<1>4. \A x \in App : Unlocked(x)'
  BY <1>a, PlaceTypes DEF AppInv, Unlocked, FlushUnlock, At, Goto, Running, Lock, Unlock
<1>5. \A x \in App : Listed(x)'
  BY ZenonT(40), <1>a, PlaceTypes DEF AppInv, Listed, Entering, Booting, FlushUnlock, At, Goto, Running, Lock, Unlock
<1>6. \A x \in App : Silent(x)'
  BY <1>a, PlaceTypes DEF AppInv, Silent, Entering, Booting, FlushUnlock, At, Goto, Running, Lock, Unlock
<1>7. \A x \in App : Records(x)'
  BY <1>a, <1>d, RecordsStay DEF AppInv
<1>8. \A x \in App : Exiting(x)'
  <2> TAKE x \in App
  <2>1. Exiting(x) /\ (t \in App /\ Proc(t) = Proc(x) /\ Clean(x) => Len(dump[x]) >= atExit[x])
    BY <1>b, ToSetOfEmpty DEF AppInv, Exiting
  <2>2. Proc(x) \in ended' /\ Clean(x) => Len(dump[x]) >= atExit[x]
    BY <1>b, <1>c, <2>1 DEF Exiting
  <2> QED BY <1>a, <1>c, <1>d, <2>1, <2>2 DEF Exiting, Clean
<1>9. \A x \in Threads : Locked(x)'
  BY <1>a, PlaceTypes DEF AppInv, ThreadInv, Locked, Critical, Unlocked, FlushUnlock, At, Goto, Running, Lock, Unlock
<1>10. \A x \in Threads : OwnCursor(x)'
  BY ZenonT(40), <1>a, PlaceTypes DEF ThreadInv, OwnCursor, FlushUnlock, At, Goto, Running, Lock, Unlock
<1>11. \A q \in Procs : Hooked(q)' /\ OwnList(q)'
  BY ZenonT(40), <1>a, PlaceTypes DEF ProcInv, Hooked, OwnList, FlushUnlock, At, Goto, Running, Lock, Unlock
<1>12. \A x \in App : Seen(x)'
  <2>1. \A u \in Threads, x \in App : Writing(u, x)' <=> Writing(u, x)
    BY <1>a, <1>b, <1>c DEF Writing
  <2> QED BY <1>a, <2>1 DEF AppInv, Seen, Clean
<1> QED BY <1>1, <1>2, <1>3, <1>4, <1>5, <1>6, <1>7, <1>8, <1>9, <1>10, <1>11,
           <1>12 DEF AppInv, ThreadInv, ProcInv

LEMMA ForkKeeps ==
  ASSUME IInv, NEW t \in App, Fork(t) PROVE IInv'
<1> USE ThreadFacts DEF IInv
<1>a. UNCHANGED << initialized, mutex, list, handlers, buf, dump, made, known, locked, cursor, taken, ended, atExit >>
  BY DEF Fork, Lock, Unlock, shared, records, forking, flush, life
<1>1. TypeOK'
  BY <1>a, ManagerAssumption DEF TypeOK, Places, Fork, At, Goto, Running, Lock, Unlock
<1>2. Alone'
  BY <1>a, PlaceTypes DEF Alone, Fork, At, Goto, Running, Lock, Unlock
<1>3. \A x \in App : Starting(x)'
  <2>1. Starting(t)'
    BY <1>a, PlaceTypes DEF AppInv, ProcInv, Hooked, Starting, Booting, Fork, At, Goto, Running, Lock, Unlock
  <2>2. ASSUME NEW x \in App, x # t PROVE Starting(x)'
    BY <1>a, <2>2, PlaceTypes, StartingStays DEF AppInv, Fork, At, Goto, Running, Lock, Unlock
  <2> QED BY <2>1, <2>2
<1>4. \A x \in App : Unlocked(x)'
  BY <1>a, PlaceTypes DEF AppInv, Unlocked, Fork, At, Goto, Running, Lock, Unlock
<1>5. \A x \in App : Listed(x)'
  BY <1>a, PlaceTypes DEF AppInv, Listed, Entering, Booting, Fork, At, Goto, Running, Lock, Unlock
<1>6. \A x \in App : Silent(x)'
  BY <1>a, PlaceTypes DEF AppInv, Silent, Entering, Booting, Fork, At, Goto, Running, Lock, Unlock
<1>7. \A x \in App : Records(x)'
  BY <1>a, PlaceTypes DEF AppInv, Records, Committing, Clean, Fork, At, Goto, Running, Lock, Unlock
<1>8. \A x \in App : Exiting(x)'
  BY <1>a, PlaceTypes DEF AppInv, Exiting, Committing, Clean, Fork, At, Goto, Running, Lock, Unlock
<1>9. \A x \in Threads : Locked(x)'
  BY <1>a, PlaceTypes DEF AppInv, ThreadInv, Locked, Critical, Unlocked, Fork, At, Goto, Running, Lock, Unlock
<1>10. \A x \in Threads : OwnCursor(x)'
  BY <1>a, PlaceTypes DEF ThreadInv, OwnCursor, Fork, At, Goto, Running, Lock, Unlock
<1>11. \A q \in Procs : Hooked(q)' /\ OwnList(q)'
  BY <1>a, PlaceTypes DEF ProcInv, Hooked, OwnList, Fork, At, Goto, Running, Lock, Unlock
<1>12. \A x \in App : Seen(x)'
  BY <1>a, PlaceTypes DEF AppInv, Seen, Writing, Clean, Fork, At, Goto, Running, Lock, Unlock
<1> QED BY <1>1, <1>2, <1>3, <1>4, <1>5, <1>6, <1>7, <1>8, <1>9, <1>10, <1>11,
           <1>12 DEF AppInv, ThreadInv, ProcInv

LEMMA PrepareKeeps ==
  ASSUME IInv, NEW t \in App, Prepare(t) PROVE IInv'
<1> USE ThreadFacts DEF IInv
<1>a. UNCHANGED << initialized, list, handlers, buf, dump, made, known, pc, calls, cursor, taken, ended, atExit >>
  BY DEF Prepare, Lock, Unlock, shared, records, forking, flush, life
<1>1. TypeOK'
  <2>1. locked' \in [App -> Nat] /\ mutex' \in [Procs -> Threads \cup {Free}]
    BY PlaceTypes DEF Prepare, At, Goto, Running, Lock, Unlock
  <2> QED BY <1>a, <2>1 DEF TypeOK
<1>2. Alone'
  BY <1>a, PlaceTypes DEF Alone, Prepare, At, Goto, Running, Lock, Unlock
<1>3. \A x \in App : Starting(x)'
  <2>1. Starting(t)'
    BY <1>a, PlaceTypes DEF AppInv, Starting, Booting, Prepare, At, Goto, Running, Lock, Unlock
  <2>2. ASSUME NEW x \in App, x # t PROVE Starting(x)'
    BY <1>a, <2>2, PlaceTypes, StartingStays DEF AppInv, Prepare, At, Goto, Running, Lock, Unlock
  <2> QED BY <2>1, <2>2
<1>4. \A x \in App : Unlocked(x)'
  BY <1>a, PlaceTypes DEF AppInv, Unlocked, Prepare, At, Goto, Running, Lock, Unlock
<1>5. \A x \in App : Listed(x)'
  BY <1>a, PlaceTypes DEF AppInv, Listed, Entering, Booting, Prepare, At, Goto, Running, Lock, Unlock
<1>6. \A x \in App : Silent(x)'
  BY <1>a, PlaceTypes DEF AppInv, Silent, Entering, Booting, Prepare, At, Goto, Running, Lock, Unlock
<1>7. \A x \in App : Records(x)'
  BY ZenonT(40), <1>a, PlaceTypes DEF AppInv, Records, Committing, Clean, Prepare, At, Goto, Running, Lock, Unlock
<1>8. \A x \in App : Exiting(x)'
  BY <1>a, PlaceTypes DEF AppInv, Exiting, Committing, Clean, Prepare, At, Goto, Running, Lock, Unlock
<1>9. \A x \in Threads : Locked(x)'
  BY <1>a, PlaceTypes DEF AppInv, ThreadInv, Locked, Critical, Unlocked, Prepare, At, Goto, Running, Lock, Unlock
<1>10. \A x \in Threads : OwnCursor(x)'
  BY <1>a, PlaceTypes DEF ThreadInv, OwnCursor, Prepare, At, Goto, Running, Lock, Unlock
<1>11. \A q \in Procs : Hooked(q)' /\ OwnList(q)'
  BY <1>a, PlaceTypes DEF ProcInv, Hooked, OwnList, Prepare, At, Goto, Running, Lock, Unlock
<1>12. \A x \in App : Seen(x)'
  BY <1>a, PlaceTypes DEF AppInv, Seen, Writing, Clean, Prepare, At, Goto, Running, Lock, Unlock
<1> QED BY <1>1, <1>2, <1>3, <1>4, <1>5, <1>6, <1>7, <1>8, <1>9, <1>10, <1>11,
           <1>12 DEF AppInv, ThreadInv, ProcInv

LEMMA DoForkKeeps ==
  ASSUME IInv, NEW t \in App, NEW c \in Procs, DoFork(t, c) PROVE IInv'
<1> USE ThreadFacts DEF IInv
<1>a. UNCHANGED << dump, made, calls, locked, cursor, taken, ended, atExit >>
  BY DEF DoFork, Lock, Unlock, shared, records, forking, flush, life
<1> DEFINE p == Proc(t)
           u == << c, Name(t) >>
<1>b. /\ pc[t] = "prepare" /\ locked[t] = calls[t] /\ p \in Procs
      /\ \A x \in Threads : Proc(x) = c => pc[x] = "unborn"
      /\ u \in App /\ u \in Threads /\ Proc(u) = c /\ c # p /\ u # t /\ pc[u] = "unborn"
  <2>1. u \in App /\ u \in Threads /\ Proc(u) = c /\ p \in Procs
    BY ChildFacts
  <2>2. /\ pc[t] = "prepare" /\ locked[t] = calls[t]
        /\ \A x \in Threads : Proc(x) = c => pc[x] = "unborn"
    BY DEF DoFork, At, Unborn
  <2> QED BY <2>1, <2>2
<1>c. /\ pc' = [pc EXCEPT ![t] = "parent", ![u] = IF calls[t] > 0 THEN "child" ELSE "app"]
      /\ known' = [known EXCEPT ![u] = known[t]]
      /\ initialized' = [initialized EXCEPT ![c] = initialized[p]]
      /\ mutex' = [mutex EXCEPT ![c] = IF mutex[p] = t THEN u ELSE mutex[p]]
      /\ list' = [list EXCEPT ![c] = list[p]] /\ handlers' = [handlers EXCEPT ![c] = handlers[p]]
      /\ buf' = [buf EXCEPT ![c] = buf[p]]
  BY DEF DoFork
<1> HIDE DEF p, u
<1>d. /\ pc'[t] = "parent" /\ pc'[u] = IF calls[t] > 0 THEN "child" ELSE "app"
      /\ \A x \in Threads : x # t /\ x # u => pc'[x] = pc[x]
      /\ \A x \in Threads : x # u /\ Proc(x) = c => pc'[x] = "unborn"
      /\ known'[u] = known[t] /\ \A x \in App : x # u => known'[x] = known[x]
  BY <1>b, <1>c, PlaceTypes DEF p
<1>e. /\ initialized'[c] = initialized[p] /\ handlers'[c] = handlers[p]
      /\ list'[c] = list[p] /\ mutex'[c] = IF mutex[p] = t THEN u ELSE mutex[p]
      /\ \A x \in App : buf'[c][x] = buf[p][x]
      /\ \A q \in Procs : q # c =>
           /\ initialized'[q] = initialized[q] /\ handlers'[q] = handlers[q]
           /\ list'[q] = list[q] /\ mutex'[q] = mutex[q] /\ buf'[q] = buf[q]
  BY <1>b, <1>c, PlaceTypes, SequenceTypes
<1>f. /\ calls[t] \in Nat
      /\ calls[t] > 0 => initialized[p] /\ list[p] # << >> /\ mutex[p] = t
      /\ calls[t] = 0 => ~initialized[p] /\ handlers[p] = 0 /\ list[p] = << >> /\ ~known[t]
  <2>1. calls[t] \in Nat /\ Starting(t) /\ Locked(t) /\ (calls[t] > 0 => Critical(t))
    BY <1>b, PlaceTypes DEF AppInv, ThreadInv, Critical
  <2> QED BY <1>b, <2>1 DEF Starting, Locked, p
<1>g. \A x \in Threads, o \in App : Committing(x, o)' <=> Committing(x, o)
  BY <1>a, <1>b, <1>d DEF Committing
<1>1. TypeOK'
  <2>1. /\ pc' \in [Threads -> Places] /\ known' \in [App -> BOOLEAN]
        /\ initialized' \in [Procs -> BOOLEAN] /\ handlers' \in [Procs -> Nat]
        /\ mutex' \in [Procs -> Threads \cup {Free}]
    BY <1>b, <1>c, PlaceTypes DEF Places
  <2>2. list' \in [Procs -> Seq(App)] /\ buf' \in [Procs -> [App -> Seq(1 .. MaxRecords)]]
    BY <1>b, <1>c, SequenceTypes
  <2>3. \A q \in Procs, x \in App : Len(buf'[q][x]) =< BufferSize
    <3> TAKE q \in Procs, x \in App
    <3>1. buf'[q][x] = buf[p][x] \/ buf'[q][x] = buf[q][x]
      BY <1>e
    <3> QED BY <1>b, <3>1, SequenceTypes
  <2>4. /\ \A x \in Flushers : pc'[x] \in {"unborn", "sleep", "flush", "write", "commit"}
        /\ \A x \in App : pc'[x] # "sleep"
    BY <1>b, <1>d, PlaceTypes
  <2> QED BY <1>a, <2>1, <2>2, <2>3, <2>4 DEF TypeOK
<1>2. Alone'
  BY <1>b, <1>d, <1>e DEF Alone, p
<1>3. \A x \in App : Starting(x)'
  <2>1. Starting(t)'
    BY <1>a, <1>b, <1>d, <1>e, <1>f DEF AppInv, Starting, Booting, p
  <2>2. Starting(u)'
    BY <1>a, <1>b, <1>d, <1>e, <1>f DEF Starting, Booting
  <2>3. ASSUME NEW x \in App, x # t, x # u PROVE Starting(x)'
    <3>1. CASE Proc(x) = c
      BY <1>d, <2>3, <3>1, StartingUnborn
    <3>2. CASE Proc(x) # c
      BY <1>a, <1>d, <1>e, <2>3, <3>2, StartingStays DEF AppInv
    <3> QED BY <3>1, <3>2
  <2> QED BY <2>1, <2>2, <2>3
<1>4. \A x \in App : Unlocked(x)'
  BY <1>a, <1>b, <1>d DEF AppInv, Unlocked
<1>5. \A x \in App : Listed(x)'
  <2> TAKE x \in App
  <2>1. CASE x = u
    BY <1>b, <1>d, <1>f, <2>1 DEF Listed, Entering
  <2>2. CASE x # u /\ Proc(x) = c
    BY <1>b, <1>d, <2>2 DEF AppInv, Silent, Listed
  <2>3. CASE x # u /\ Proc(x) # c
    BY <1>b, <1>d, <1>e, <2>3 DEF AppInv, Listed, Entering, Booting
  <2> QED BY <2>1, <2>2, <2>3
<1>6. \A x \in App : Silent(x)'
  <2> TAKE x \in App
  <2>1. Silent(x) /\ Silent(u) /\ Silent(t)
    BY <1>b DEF AppInv
  <2>2. CASE x = u
    BY <1>a, <1>b, <1>d, <2>1, <2>2 DEF Silent
  <2>3. CASE x = t
    BY <1>a, <1>b, <1>d, <2>1, <2>3 DEF Silent, Entering, Booting
  <2>4. CASE x # u /\ x # t
    <3>1. pc'[x] = pc[x] /\ known'[x] = known[x]
      BY <1>d, <2>4
    <3>2. (\A q \in Procs : buf[q][x] = << >>) => \A q \in Procs : buf'[q][x] = << >>
      BY <1>b, <1>e
    <3> QED BY <1>a, <2>1, <3>1, <3>2 DEF Silent
  <2> QED BY <2>2, <2>3, <2>4
<1>7. \A x \in App : Records(x)'
  <2> TAKE x \in App
  <2>1. buf'[Proc(x)][x] = buf[Proc(x)][x]
    <3>1. CASE Proc(x) = c
      BY <1>b, <1>e, <3>1 DEF AppInv, Silent
    <3>2. CASE Proc(x) # c
      BY <1>e, <3>2
    <3> QED BY <3>1, <3>2
  <2> QED BY <1>a, <1>g, <2>1, RecordsStay DEF AppInv
<1>8. \A x \in App : Exiting(x)'
  BY <1>a, <1>b, <1>d, <1>g DEF AppInv, Exiting, Clean
<1>9. \A x \in Threads : Locked(x)'
  <2> TAKE x \in Threads
  <2>1. CASE x = u
    BY <1>b, <1>d, <1>e, <1>f, <2>1 DEF Locked, Critical
  <2>2. CASE x = t
    BY <1>a, <1>b, <1>d, <1>e, <1>f, <2>2 DEF Locked, Critical, p
  <2>3. CASE x # u /\ x # t /\ Proc(x) = c
    BY <1>d, <2>3 DEF Locked, Critical
  <2>4. CASE x # u /\ x # t /\ Proc(x) # c
    BY <1>a, <1>d, <1>e, <2>4 DEF ThreadInv, Locked, Critical
  <2> QED BY <2>1, <2>2, <2>3, <2>4
<1>10. \A x \in Threads : OwnCursor(x)'
  BY <1>a, PlaceTypes DEF ThreadInv, OwnCursor, DoFork, At, Goto, Running, Lock, Unlock
<1>11. \A q \in Procs : Hooked(q)' /\ OwnList(q)'
  <2> TAKE q \in Procs
  <2>1. CASE q = c
    <3>1. Hooked(c)'
      BY <1>b, <1>e DEF ProcInv, Hooked
    <3>2. OwnList(c)'
      BY <1>b, <1>d, <1>e, <1>f, ToSetOfEmpty DEF OwnList
    <3> QED BY <2>1, <3>1, <3>2
  <2>2. CASE q # c
    <3>1. \A x \in App : Proc(x) = q => (pc'[x] = "child" <=> pc[x] = "child")
      BY <1>b, <1>d, <2>2
    <3> QED BY <1>e, <2>2, <3>1 DEF ProcInv, Hooked, OwnList
  <2> QED BY <2>1, <2>2
<1>12. \A x \in App : Seen(x)'
  <2> TAKE x \in App
  <2>1. \A w \in Threads : Writing(w, x)' <=> Writing(w, x)
    BY <1>a, <1>b, <1>d DEF Writing
  <2>2. buf'[Proc(x)][x] = buf[Proc(x)][x]
    <3>1. CASE Proc(x) = c
      BY <1>b, <1>e, <3>1 DEF AppInv, Silent
    <3>2. CASE Proc(x) # c
      BY <1>e, <3>2
    <3> QED BY <3>1, <3>2
  <2> QED BY <1>a, <2>1, <2>2 DEF AppInv, Seen, Clean
<1> QED BY <1>1, <1>2, <1>3, <1>4, <1>5, <1>6, <1>7, <1>8, <1>9, <1>10, <1>11,
           <1>12 DEF AppInv, ThreadInv, ProcInv

LEMMA AtForkParentKeeps ==
  ASSUME IInv, NEW t \in App, AtForkParent(t) PROVE IInv'
<1> USE ThreadFacts DEF IInv
<1>a. UNCHANGED << initialized, list, handlers, buf, dump, made, known, cursor, taken, ended, atExit >>
  BY DEF AtForkParent, Lock, Unlock, shared, records, forking, flush, life
<1>1. TypeOK'
  BY ZenonT(40), <1>a, ManagerAssumption DEF TypeOK, Places, AtForkParent, At, Goto, Running, Lock, Unlock
<1>2. Alone'
  BY <1>a, PlaceTypes DEF Alone, AtForkParent, At, Goto, Running, Lock, Unlock
<1>3. \A x \in App : Starting(x)'
  <2>1. Starting(t)'
    BY <1>a, PlaceTypes DEF AppInv, Starting, Booting, AtForkParent, At, Goto, Running, Lock, Unlock
  <2>2. ASSUME NEW x \in App, x # t PROVE Starting(x)'
    BY <1>a, <2>2, PlaceTypes, StartingStays DEF AppInv, AtForkParent, At, Goto, Running, Lock, Unlock
  <2> QED BY <2>1, <2>2
<1>4. \A x \in App : Unlocked(x)'
  BY <1>a, PlaceTypes DEF AppInv, Unlocked, AtForkParent, At, Goto, Running, Lock, Unlock
<1>5. \A x \in App : Listed(x)'
  BY <1>a, PlaceTypes DEF AppInv, Listed, Entering, Booting, AtForkParent, At, Goto, Running, Lock, Unlock
<1>6. \A x \in App : Silent(x)'
  BY <1>a, PlaceTypes DEF AppInv, Silent, Entering, Booting, AtForkParent, At, Goto, Running, Lock, Unlock
<1>7. \A x \in App : Records(x)'
  BY <1>a, PlaceTypes DEF AppInv, Records, Committing, Clean, AtForkParent, At, Goto, Running, Lock, Unlock
<1>8. \A x \in App : Exiting(x)'
  BY <1>a, PlaceTypes DEF AppInv, Exiting, Committing, Clean, AtForkParent, At, Goto, Running, Lock, Unlock
<1>9. \A x \in Threads : Locked(x)'
  BY <1>a, PlaceTypes DEF AppInv, ThreadInv, Locked, Critical, Unlocked, AtForkParent, At, Goto, Running, Lock, Unlock
<1>10. \A x \in Threads : OwnCursor(x)'
  BY <1>a, PlaceTypes DEF ThreadInv, OwnCursor, AtForkParent, At, Goto, Running, Lock, Unlock
<1>11. \A q \in Procs : Hooked(q)' /\ OwnList(q)'
  BY <1>a, PlaceTypes DEF ProcInv, Hooked, OwnList, AtForkParent, At, Goto, Running, Lock, Unlock
<1>12. \A x \in App : Seen(x)'
  BY <1>a, PlaceTypes DEF AppInv, Seen, Writing, Clean, AtForkParent, At, Goto, Running, Lock, Unlock
<1> QED BY <1>1, <1>2, <1>3, <1>4, <1>5, <1>6, <1>7, <1>8, <1>9, <1>10, <1>11,
           <1>12 DEF AppInv, ThreadInv, ProcInv

LEMMA AtForkChildKeeps ==
  ASSUME IInv, NEW t \in App, AtForkChild(t) PROVE IInv'
<1> USE ThreadFacts DEF IInv
<1>a. UNCHANGED << handlers, dump, made, known, calls, locked, cursor, taken, ended, atExit >>
  BY DEF AtForkChild, Lock, Unlock, shared, records, forking, flush, life
<1>b. \A x \in Threads : x # t /\ Proc(x) = Proc(t) => pc[x] = "unborn" /\ pc'[x] = "unborn"
  BY NobodyElse, PlaceTypes DEF AppInv, Starting, Booting, AtForkChild, At, Goto, Running, Lock, Unlock
<1>1. TypeOK'
  <2>1. /\ buf' \in [Procs -> [App -> Seq(1 .. MaxRecords)]]
        /\ \A q \in Procs, x \in App : Len(buf'[q][x]) =< BufferSize
    BY SMTT(30), SequenceTypes, ManagerAssumption DEF AtForkChild
  <2>2. list' \in [Procs -> Seq(App)]
    BY SequenceTypes DEF AtForkChild
  <2> QED BY <1>a, <2>1, <2>2, PlaceTypes DEF TypeOK, Places, AtForkChild, At, Goto, Running, Lock, Unlock
<1>2. Alone'
  BY <1>a, PlaceTypes DEF Alone, AtForkChild, At, Goto, Running, Lock, Unlock
<1>3. \A x \in App : Starting(x)'
  <2>1. Starting(t)'
    BY <1>a, PlaceTypes DEF AppInv, Starting, Booting, AtForkChild, At, Goto, Running, Lock, Unlock
  <2>2. ASSUME NEW x \in App, x # t PROVE Starting(x)'
    <3>1. CASE Proc(x) = Proc(t)
      BY <1>b, <2>2, <3>1, StartingUnborn
    <3>2. CASE Proc(x) # Proc(t)
      BY <1>a, <1>b, <2>2, <3>2, PlaceTypes, SequenceTypes, StartingStays DEF AppInv, AtForkChild, At, Goto, Running, Lock, Unlock
    <3> QED BY <3>1, <3>2
  <2> QED BY <2>1, <2>2
<1>4. \A x \in App : Unlocked(x)'
  BY <1>a, PlaceTypes DEF AppInv, Unlocked, AtForkChild, At, Goto, Running, Lock, Unlock
<1>5. \A x \in App : Listed(x)'
  <2>1. \A q \in Procs : list'[q] = IF q = Proc(t) THEN << >> ELSE list[q]
    BY SequenceTypes DEF AtForkChild
  <2>2. Listed(t)'
    BY PlaceTypes DEF Listed, Entering, Booting, AtForkChild, At, Goto, Running, Lock, Unlock
  <2>3. ASSUME NEW x \in App, x # t PROVE Listed(x)'
    BY <1>a, <1>b, <2>1, <2>3, PlaceTypes DEF AppInv, Listed, Silent, AtForkChild, At, Goto, Running, Lock, Unlock
  <2> QED BY <2>2, <2>3
<1>6. \A x \in App : Silent(x)'
  BY <1>a, PlaceTypes DEF AppInv, Silent, Entering, Booting, AtForkChild, At, Goto, Running, Lock, Unlock
<1>7. \A x \in App : Records(x)'
  <2>1. \A u \in Threads, x \in App : Committing(u, x)' <=> Committing(u, x)
    BY <1>a, PlaceTypes DEF Committing, AtForkChild, At, Goto, Running, Lock, Unlock
  <2>2. \A q \in Procs, x \in App : buf'[q][x] = IF q = Proc(t) THEN << >> ELSE buf[q][x]
    BY SequenceTypes DEF AtForkChild
  <2> TAKE x \in App
  <2>3. CASE Proc(x) = Proc(t)
    <3>1. made[x] = 0
      BY <1>b, <2>3 DEF AppInv, Silent, Entering, AtForkChild, At, Goto, Running, Lock, Unlock
    <3>2. \A u \in Threads : ~Committing(u, x)
      <4> SUFFICES ASSUME NEW u \in Threads, Committing(u, x) PROVE FALSE
        OBVIOUS
      <4>1. Proc(u) = Proc(t) /\ pc[u] = "commit" /\ pc[t] = "child"
        BY <2>3, OneCommits DEF Committing, AtForkChild, At, Goto, Running, Lock, Unlock
      <4> QED BY <1>b, <4>1
    <3>3. ASSUME Clean(x) PROVE Len(dump[x]) = 0 /\ Len(dump[x]) + 0 = made[x]
      <4>1. Len(dump[x]) + Len(buf[Proc(x)][x]) = made[x]
        BY <3>2, <3>3 DEF AppInv, Records
      <4>2. Len(dump[x]) \in Nat /\ Len(buf[Proc(x)][x]) \in Nat
        BY SequenceTypes
      <4> DEFINE d == Len(dump[x])
                 l == Len(buf[Proc(x)][x])
      <4>3. d \in Nat /\ l \in Nat /\ d + l = 0
        BY <3>1, <4>1, <4>2
      <4> HIDE DEF d, l
      <4>4. d = 0
        BY <4>3
      <4> QED BY <3>1, <4>4 DEF d
    <3>4. buf'[Proc(x)][x] = << >> /\ Len(<< >>) = 0
      BY <2>2, <2>3
    <3>5. \A i \in 1 .. Len(dump[x]) : dump[x][i] \in {i, Junk}
      BY DEF AppInv, Records
    <3>6. Clean(x)' <=> Clean(x)
      BY <1>a DEF Clean
    <3> QED BY <1>a, <2>1, <3>2, <3>3, <3>4, <3>5, <3>6 DEF Records
  <2>4. CASE Proc(x) # Proc(t)
    BY <1>a, <2>1, <2>2, <2>4, RecordsStay DEF AppInv
  <2> QED BY <2>3, <2>4
<1>8. \A x \in App : Exiting(x)'
  BY <1>a, PlaceTypes DEF AppInv, Exiting, Committing, Clean, AtForkChild, At, Goto, Running, Lock, Unlock
<1>9. \A x \in Threads : Locked(x)'
  BY <1>a, PlaceTypes DEF AppInv, ThreadInv, Locked, Critical, Unlocked, AtForkChild, At, Goto, Running, Lock, Unlock
<1>10. \A x \in Threads : OwnCursor(x)'
  BY <1>a, PlaceTypes DEF ThreadInv, OwnCursor, AtForkChild, At, Goto, Running, Lock, Unlock
<1>11. \A q \in Procs : Hooked(q)' /\ OwnList(q)'
  <2>1. \A q \in Procs : list'[q] = IF q = Proc(t) THEN << >> ELSE list[q]
    BY SequenceTypes DEF AtForkChild
  <2>2. \A u \in App : Proc(u) # Proc(t) => (pc'[u] = "child" <=> pc[u] = "child")
    BY PlaceTypes DEF AtForkChild, At, Goto, Running, Lock, Unlock
  <2>3. \A q \in Procs : initialized'[q] = IF q = Proc(t) THEN FALSE ELSE initialized[q]
    BY PlaceTypes DEF AtForkChild
  <2> QED BY <1>a, <2>1, <2>2, <2>3, ToSetOfEmpty DEF ProcInv, Hooked, OwnList
<1>12. \A x \in App : Seen(x)'
  <2> TAKE x \in App
  <2>1. \A u \in Threads : Writing(u, x)' => Writing(u, x) /\ u # t
    BY <1>a, PlaceTypes DEF Writing, AtForkChild, At, Goto
  <2>2. ASSUME NEW u \in Threads, Writing(u, x), u # t PROVE buf'[Proc(x)][x] = buf[Proc(x)][x]
    <3>1. Proc(u) = Proc(x) /\ pc[u] # "unborn"
      BY <2>2, OneCommits DEF Writing
    <3>2. Proc(x) # Proc(t)
      BY <1>b, <2>2, <3>1
    <3> QED BY <3>2, SequenceTypes DEF AtForkChild
  <2> QED BY <1>a, <2>1, <2>2 DEF AppInv, Seen, Clean
<1> QED BY <1>1, <1>2, <1>3, <1>4, <1>5, <1>6, <1>7, <1>8, <1>9, <1>10, <1>11,
           <1>12 DEF AppInv, ThreadInv, ProcInv

-----------------------------------------------------------------------------
(* The invariant *)

LEMMA InitInvariant == ASSUME Init PROVE IInv
<1> USE ThreadFacts DEF Init
<1>3. << 0, First >> \in App
  BY ManagerAssumption DEF App, Procs
<1>1. TypeOK
  <2>1. << >> \in Seq(App) /\ << >> \in Seq(1 .. MaxRecords) /\ << >> \in Seq(0 .. MaxRecords) /\ Len(<< >>) = 0
    OBVIOUS
  <2>2. /\ 0 \in Nat /\ 0 \in 0 .. MaxRecords /\ 0 =< BufferSize /\ FALSE \in BOOLEAN
    BY ManagerAssumption
  <2>3. /\ list \in [Procs -> Seq(App)] /\ cursor \in [Threads -> Seq(App)]
        /\ buf \in [Procs -> [App -> Seq(1 .. MaxRecords)]]
        /\ dump \in [App -> Seq(0 .. MaxRecords)]
    BY <2>1
  <2>4. \A p \in Procs, o \in App : Len(buf[p][o]) =< BufferSize
    BY <2>1, <2>2
  <2>5. /\ pc \in [Threads -> Places]
        /\ \A t \in Flushers : pc[t] \in {"unborn", "sleep", "flush", "write", "commit"}
        /\ \A t \in App : pc[t] # "sleep"
    BY <1>3 DEF Places
  <2>6. /\ initialized \in [Procs -> BOOLEAN] /\ mutex \in [Procs -> Threads \cup {Free}]
        /\ handlers \in [Procs -> Nat] /\ made \in [App -> 0 .. MaxRecords]
        /\ known \in [App -> BOOLEAN] /\ calls \in [App -> Nat] /\ locked \in [App -> Nat]
        /\ taken \in [Threads -> Nat] /\ ended \subseteq Procs
        /\ atExit \in [App -> 0 .. MaxRecords]
    BY <2>2
  <2> QED BY <2>3, <2>4, <2>5, <2>6 DEF TypeOK
<1>2. \A t \in Threads : pc[t] = IF t = << 0, First >> THEN "app" ELSE "unborn"
  OBVIOUS
<1>4. Alone
  BY <1>2, <1>3 DEF Alone
<1>5. ThreadInv
  BY <1>2 DEF ThreadInv, Locked, Critical, OwnCursor
<1>6. AppInv
  <2>1. /\ \A p \in Procs, o \in App : buf[p][o] = << >> /\ Len(buf[p][o]) = 0
        /\ \A o \in App : dump[o] = << >> /\ Len(dump[o]) = 0
    OBVIOUS
  <2> QED BY <1>2, <2>1 DEF AppInv, Starting, Booting, Unlocked, Listed, Silent, Records,
             Seen, Writing, Exiting, Committing, Clean
<1>7. ProcInv
  BY ToSetOfEmpty DEF ProcInv, Hooked, OwnList
<1> QED BY <1>1, <1>4, <1>5, <1>6, <1>7 DEF IInv

\* The manager threads only flush.
LEMMA AppOnly ==
  ASSUME TypeOK, NEW t \in Threads, pc[t] \notin {"unborn", "sleep", "flush", "write", "commit"}
  PROVE  t \in App
BY PlaceTypes, ThreadFacts

LEMMA StutteringInvariant == ASSUME IInv, UNCHANGED vars PROVE IInv'
<1>1. /\ UNCHANGED << initialized, mutex, list, handlers, buf, dump, made, known, pc >>
      /\ UNCHANGED << calls, locked, cursor, taken, ended, atExit >>
  BY DEF vars, shared, records, forking, flush, life
<1> QED BY <1>1 DEF IInv, TypeOK, Alone, ThreadInv, AppInv, ProcInv, Starting, Hooked, Critical,
           Locked, Unlocked, Listed, OwnList, OwnCursor, Silent, Committing, Writing, Clean, Seen, Records, Exiting

LEMMA WorkingKeeps ==
  ASSUME IInv, NEW t \in Threads, Locking(t) \/ Working(t) PROVE IInv'
<1>a. TypeOK
  BY DEF IInv
<1>1. CASE RegisterLock(t)
  BY <1>a, <1>1, AppOnly, RegisterLockKeeps DEF RegisterLock, At
<1>2. CASE FlushLock(t)
  BY <1>2, FlushLockKeeps
<1>3. CASE Prepare(t)
  BY <1>a, <1>3, AppOnly, PrepareKeeps DEF Prepare, At
<1>4. CASE EnsureCheck(t)
  BY <1>a, <1>4, AppOnly, EnsureCheckKeeps DEF EnsureCheck, At
<1>5. CASE EnsureReset(t)
  BY <1>a, <1>5, AppOnly, EnsureResetKeeps DEF EnsureReset, At
<1>6. CASE EnsureHook(t)
  BY <1>a, <1>6, AppOnly, EnsureHookKeeps DEF EnsureHook, At
<1>7. ASSUME NEW m \in Flushers, EnsureCreate(t, m) PROVE IInv'
  BY <1>a, <1>7, AppOnly, EnsureCreateKeeps DEF EnsureCreate, At
<1>8. CASE EnsureMark(t)
  BY <1>a, <1>8, AppOnly, EnsureMarkKeeps DEF EnsureMark, At
<1>9. CASE Insert(t)
  BY <1>a, <1>9, AppOnly, InsertKeeps DEF Insert, At
<1>10. CASE FlushWrite(t)
  BY <1>10, FlushWriteKeeps
<1>16. CASE FlushLoad(t)
  BY <1>16, FlushLoadKeeps
<1>11. CASE FlushCommit(t)
  BY <1>11, FlushCommitKeeps
<1>12. CASE FlushUnlock(t)
  BY <1>12, FlushUnlockKeeps
<1>13. ASSUME NEW c \in Procs, DoFork(t, c) PROVE IInv'
  BY <1>a, <1>13, AppOnly, DoForkKeeps DEF DoFork, At
<1>14. CASE AtForkParent(t)
  BY <1>a, <1>14, AppOnly, AtForkParentKeeps DEF AtForkParent, At
<1>15. CASE AtForkChild(t)
  BY <1>a, <1>15, AppOnly, AtForkChildKeeps DEF AtForkChild, At
<1> QED BY <1>1, <1>2, <1>3, <1>4, <1>5, <1>6, <1>7, <1>8, <1>9, <1>10, <1>11, <1>12, <1>13,
           <1>14, <1>15, <1>16 DEF Locking, Working

LEMMA ChoosingKeeps ==
  ASSUME IInv, MainFirst, NEW t \in App, Choosing(t) PROVE IInv'
BY SpawnKeeps, RecordKeeps, RecordInitKeeps, ForkKeeps, ExitKeeps DEF Choosing

LEMMA NextInvariant == ASSUME IInv, MainFirst, [Next]_vars PROVE IInv'
BY StutteringInvariant, WorkingKeeps, ChoosingKeeps DEF Next

\* In every state of a program whose main thread is the first to record.
THEOREM Invariance == ASSUME MainFirst PROVE Spec => []IInv
<1>1. ASSUME IInv, [Next]_vars PROVE IInv'
  BY <1>1, NextInvariant
<1> QED BY <1>1, InitInvariant, PTL DEF Spec

-----------------------------------------------------------------------------
(* What follows from it *)

\* Up to the first bytes that a torn load lets through, the dump of a thread has
\* its records, the first ones, once each and in the order in which they were
\* made, however often the program forked: the child writes nothing of what its
\* parent had in its buffers.
THEOREM DumpsInOrder == ASSUME MainFirst PROVE Spec => []DumpInOrder
<1>1. ASSUME IInv PROVE DumpInOrder
  BY <1>1 DEF IInv, AppInv, Records, DumpInOrder
<1> QED BY <1>1, Invariance, PTL

\* What a thread has recorded and its dump does not have yet is in its buffer.
THEOREM RecordsAreKept == ASSUME MainFirst PROVE Spec => []NothingLost
<1>1. ASSUME IInv PROVE NothingLost
  <2> SUFFICES ASSUME NEW o \in App, Clean(o)
               PROVE  Len(dump[o]) + Len(buf[Proc(o)][o]) >= made[o]
    BY DEF NothingLost
  <2> DEFINE d == Len(dump[o])
             b == Len(buf[Proc(o)][o])
  <2>1. /\ d \in Nat /\ b \in Nat /\ made[o] \in Nat /\ \A t \in Threads : taken[t] \in Nat
        /\ \/ d + b = made[o]
           \/ \E t \in Threads : d + b = made[o] + taken[t]
    BY <1>1, ThreadFacts, PlaceTypes, SequenceTypes DEF IInv, AppInv, Records
  <2> HIDE DEF d, b
  <2>2. d + b >= made[o]
    BY <2>1
  <2> QED BY <2>2 DEF d, b
<1> QED BY <1>1, Invariance, PTL

\* Who inserts into the list or walks along it has l_mutex.
THEOREM ListIsLocked == ASSUME MainFirst PROVE Spec => []Excluded
<1>1. ASSUME IInv PROVE Excluded
  BY <1>1 DEF IInv, ThreadInv, Locked, Critical, Excluded
<1> QED BY <1>1, Invariance, PTL

\* at_fork_child_callback finds the list it frees with something in it.
THEOREM ChildFreesAList == ASSUME MainFirst PROVE Spec => []ChildHasList
<1>1. ASSUME IInv PROVE ChildHasList
  BY <1>1 DEF IInv, AppInv, Starting, ChildHasList
<1> QED BY <1>1, Invariance, PTL

\* The destructor leaves out nothing that was recorded when exit was called.
THEOREM ExitWritesAll == ASSUME MainFirst PROVE Spec => []ExitFlushes
<1>1. ASSUME IInv PROVE ExitFlushes
  BY <1>1 DEF IInv, AppInv, Exiting, ExitFlushes
<1> QED BY <1>1, Invariance, PTL
================================================================================
