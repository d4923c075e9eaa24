------------------------------- MODULE MapChange -------------------------------
(***************************************************************************)
(* How the dump of a thread learns which objects are mapped: the loader    *)
(* changes its list of objects and stops at a breakpoint, trap_handler     *)
(* (libprofiler/manager.c) marks every registered thread, and a marked     *)
(* thread writes the whole map into its own buffer at its next             *)
(* record_enter (libprofiler/record.c).  read-dump resolves each address   *)
(* against the last map that precedes it in the dump.                      *)
(*                                                                         *)
(* An element of Objects is one load of one object: loading a library      *)
(* again, at another address, is another element.                          *)
(***************************************************************************)
EXTENDS Integers, Sequences, FiniteSets, SequencesExt

CONSTANTS
  Threads,      \* the application's threads
  Main,         \* the program itself, always mapped
  Objects,      \* the loads that dlopen may do
  NoOne,        \* no thread, no object
  MaxDepth,     \* bound on the nesting of instrumented calls
  MaxForks,     \* bound on the number of fork calls
  NameFits      \* whether argv[0] fits in write_map's 1024 bytes

ASSUME MapChangeAssumption ==
  /\ Main \notin Objects /\ NoOne \notin Objects \cup Threads \cup {Main}
  /\ MaxDepth \in Nat /\ MaxForks \in Nat /\ NameFits \in BOOLEAN

VARIABLES
  linkMap,      \* the loader's list of link_map entries
  rState,       \* r_debug.r_state
  loading,      \* the dlopen or dlclose in progress
  loads,        \* the elements of Objects that have not been loaded yet
  callable,     \* the objects whose functions may be called
  registered,   \* the threads in manager->l
  pending,      \* pending_map_change
  pc, callee, stack,    \* what each thread is doing, and inside what
  count,        \* n of write_map
  at,           \* tmp of write_map's second traversal
  entries,      \* the entries written so far
  lastMap,      \* the objects in the last map of the thread's dump
  raced,        \* ghost: the list has changed while the thread wrote its map
  forks

loader == << linkMap, rState, loading, loads, callable >>
walk   == << count, at, entries, lastMap >>
vars   == << loader, registered, pending, pc, callee, stack, walk, raced, forks >>

Idle == [by |-> NoOne, obj |-> NoOne, stage |-> "none"]
Mapped == ToSet(linkMap)
All == Objects \cup {Main}

Init ==
  /\ linkMap = << Main >> /\ rState = "RT_CONSISTENT" /\ loading = Idle
  /\ loads = Objects /\ callable = {Main}
  /\ registered = {} /\ pending = [t \in Threads |-> TRUE]
  /\ pc = [t \in Threads |-> "app"]
  /\ callee = [t \in Threads |-> NoOne] /\ stack = [t \in Threads |-> << >>]
  /\ count = [t \in Threads |-> 0] /\ at = [t \in Threads |-> NoOne]
  /\ entries = [t \in Threads |-> << >>] /\ lastMap = [t \in Threads |-> {}]
  /\ raced = [t \in Threads |-> FALSE]
  /\ forks = 0

-----------------------------------------------------------------------------
(* The loader, driven by a thread that calls dlopen or dlclose *)

BeginOpen(t, o) ==
  /\ pc[t] = "app" /\ loading = Idle /\ o \in loads
  /\ loads' = loads \ {o}
  /\ rState' = "RT_ADD"
  /\ loading' = [by |-> t, obj |-> o, stage |-> "first_trap"]
  /\ UNCHANGED << linkMap, callable, registered, pending, pc, callee, stack, walk,
                  raced, forks >>

\* The program does not unload an object that a thread is inside of.
InUse(o) == \E t \in Threads : callee[t] = o \/ o \in ToSet(stack[t])

BeginClose(t, o) ==
  /\ pc[t] = "app" /\ loading = Idle /\ o \in callable \ {Main} /\ ~InUse(o)
  /\ callable' = callable \ {o}
  /\ rState' = "RT_DELETE"
  /\ loading' = [by |-> t, obj |-> o, stage |-> "first_trap"]
  /\ UNCHANGED << linkMap, loads, registered, pending, pc, callee, stack, walk,
                  raced, forks >>

ChangeList(t) ==
  /\ loading.by = t /\ loading.stage = "change"
  /\ \/ /\ rState = "RT_ADD"
        /\ linkMap' = Append(linkMap, loading.obj) /\ callable' = callable \cup {loading.obj}
     \/ /\ rState = "RT_DELETE" /\ UNCHANGED callable
        /\ \E i \in DOMAIN linkMap :
             linkMap[i] = loading.obj /\ linkMap' = RemoveAt(linkMap, i)
  /\ rState' = "RT_CONSISTENT"
  /\ loading' = [loading EXCEPT !.stage = "last_trap"]
  /\ raced' = [u \in Threads |-> raced[u] \/ pc[u] \in {"header", "entry", "clear"}]
  /\ UNCHANGED << loads, registered, pending, pc, callee, stack, walk, forks >>

\* Mutant of TrapHandler: every trap marks the threads, but the last one.
TrapHandlerTooEarly(t) ==
  /\ loading.by = t /\ loading.stage \in {"first_trap", "last_trap"}
  /\ pending' = [u \in Threads |->
                   pending[u] \/ (u \in registered /\ rState # "RT_CONSISTENT")]
  /\ loading' = IF loading.stage = "first_trap"
                  THEN [loading EXCEPT !.stage = "change"] ELSE Idle
  /\ UNCHANGED << linkMap, rState, loads, callable, registered, pc, callee, stack,
                  walk, raced, forks >>

\* trap_handler; it holds l_mutex while it goes through the list of threads.
TrapHandler(t) ==
  /\ loading.by = t /\ loading.stage \in {"first_trap", "last_trap"}
  /\ IF rState = "RT_CONSISTENT"
       THEN pending' = [u \in Threads |-> pending[u] \/ u \in registered]
       ELSE UNCHANGED pending
  /\ loading' = IF loading.stage = "first_trap"
                  THEN [loading EXCEPT !.stage = "change"] ELSE Idle
  /\ UNCHANGED << linkMap, rState, loads, callable, registered, pc, callee, stack,
                  walk, raced, forks >>

-----------------------------------------------------------------------------
(* The recording functions *)

\* __cyg_profile_func_enter; record_init prepares an unknown thread first.
Enter(t, o) ==
  /\ pc[t] = "app" /\ loading.by # t
  /\ Len(stack[t]) < MaxDepth /\ o \in callable /\ o # loading.obj
  /\ callee' = [callee EXCEPT ![t] = o]
  /\ pc' = [pc EXCEPT ![t] = IF t \in registered THEN "check" ELSE "register"]
  /\ UNCHANGED << loader, registered, pending, stack, walk, raced, forks >>

\* manager_register_thread, in record_init
Register(t) ==
  /\ pc[t] = "register"
  /\ registered' = registered \cup {t}
  /\ pc' = [pc EXCEPT ![t] = "check"]
  /\ UNCHANGED << loader, pending, callee, stack, walk, raced, forks >>

CheckPending(t) ==
  /\ pc[t] = "check"
  /\ pc' = [pc EXCEPT ![t] = IF pending[t] THEN "map" ELSE "emit"]
  /\ raced' = [raced EXCEPT ![t] = @ /\ ~pending[t]]
  /\ UNCHANGED << loader, registered, pending, callee, stack, walk, forks >>

\* write_map calls utils_get_link_map, whose dlopen waits for the loader.
GetLinkMap(t) ==
  /\ pc[t] = "map" /\ loading = Idle
  /\ pc' = [pc EXCEPT ![t] = "header"]
  /\ UNCHANGED << loader, registered, pending, callee, stack, walk, raced, forks >>

\* write_map writes the length of the list it finds in a first traversal.
MapHeader(t) ==
  /\ pc[t] = "header"
  /\ count' = [count EXCEPT ![t] = Len(linkMap)]
  /\ at' = [at EXCEPT ![t] = linkMap[1]]
  /\ entries' = [entries EXCEPT ![t] = << >>]
  /\ pc' = [pc EXCEPT ![t] = "entry"]
  /\ UNCHANGED << loader, registered, pending, callee, stack, lastMap, raced, forks >>

\* l_next of an entry; an entry that was freed may lead anywhere.
Following(o, seen) ==
  IF o \in Mapped
    THEN LET i == CHOOSE j \in DOMAIN linkMap : linkMap[j] = o
         IN  {IF i = Len(linkMap) THEN NoOne ELSE linkMap[i + 1]}
    ELSE (Mapped \ seen) \cup {NoOne}

\* One entry; the name of the program itself may be too long for the buffer.
MapEntry(t) ==
  /\ pc[t] = "entry" /\ at[t] # NoOne /\ (at[t] = Main => NameFits)
  /\ entries' = [entries EXCEPT ![t] = Append(@, at[t])]
  /\ \E o \in Following(at[t], ToSet(entries[t])) : at' = [at EXCEPT ![t] = o]
  /\ UNCHANGED << loader, registered, pending, pc, callee, stack, count, lastMap,
                  raced, forks >>

MapEnd(t) ==
  /\ pc[t] = "entry" /\ (at[t] = NoOne \/ (at[t] = Main /\ ~NameFits))
  /\ lastMap' = [lastMap EXCEPT ![t] = ToSet(entries[t])]
  /\ pc' = [pc EXCEPT ![t] = "clear"]
  /\ UNCHANGED << loader, registered, pending, callee, stack, count, at, entries,
                  raced, forks >>

ClearPending(t) ==
  /\ pc[t] = "clear"
  /\ pending' = [pending EXCEPT ![t] = FALSE]
  /\ pc' = [pc EXCEPT ![t] = "emit"]
  /\ UNCHANGED << loader, registered, callee, stack, walk, raced, forks >>

\* The ENTER record
EmitEnter(t) ==
  /\ pc[t] = "emit"
  /\ stack' = [stack EXCEPT ![t] = Append(@, callee[t])]
  /\ callee' = [callee EXCEPT ![t] = NoOne]
  /\ pc' = [pc EXCEPT ![t] = "app"]
  /\ UNCHANGED << loader, registered, pending, walk, raced, forks >>

\* __cyg_profile_func_exit: the LEAVE record
Leave(t) ==
  /\ pc[t] = "app" /\ loading.by # t /\ stack[t] # << >>
  /\ stack' = [stack EXCEPT ![t] = Front(@)]
  /\ UNCHANGED << loader, registered, pending, pc, callee, walk, raced, forks >>

\* The child of a fork: at_fork_child_callback registers the one thread there
\* is with a new buffer and a new dump, through record_reset.  What another
\* thread was loading or unloading stays as far as it had come: the C library
\* gives the child a new lock of the loader, and nobody there calls that object.
Fork(t) ==
  /\ pc[t] = "app" /\ loading.by # t /\ registered # {} /\ forks < MaxForks
  /\ forks' = forks + 1
  /\ loading' = Idle /\ callable' = callable \ {loading.obj}
  /\ registered' = {t}
  /\ pending' = [pending EXCEPT ![t] = TRUE]
  /\ lastMap' = [lastMap EXCEPT ![t] = {}]
  /\ pc' = [u \in Threads |-> IF u = t THEN "app" ELSE "gone"]
  /\ callee' = [u \in Threads |-> NoOne]
  /\ stack' = [u \in Threads |-> IF u = t THEN stack[t] ELSE << >>]
  /\ UNCHANGED << linkMap, rState, loads, count, at, entries, raced >>

Next ==
  \E t \in Threads :
    \/ \E o \in Objects : BeginOpen(t, o) \/ BeginClose(t, o)
    \/ ChangeList(t) \/ TrapHandler(t)
    \/ \E o \in All : Enter(t, o)
    \/ Register(t) \/ CheckPending(t)
    \/ GetLinkMap(t) \/ MapHeader(t) \/ MapEntry(t) \/ MapEnd(t) \/ ClearPending(t)
    \/ EmitEnter(t) \/ Leave(t) \/ Fork(t)

Spec == Init /\ [][Next]_vars

-----------------------------------------------------------------------------
(* Properties *)

TypeOK ==
  /\ linkMap \in Seq(All) /\ rState \in {"RT_CONSISTENT", "RT_ADD", "RT_DELETE"}
  /\ loading \in [by : Threads \cup {NoOne}, obj : Objects \cup {NoOne},
                  stage : {"none", "first_trap", "change", "last_trap"}]
  /\ loads \subseteq Objects /\ callable \subseteq All
  /\ registered \subseteq Threads /\ pending \in [Threads -> BOOLEAN]
  /\ pc \in [Threads -> {"app", "register", "check", "map", "header", "entry",
                         "clear", "emit", "gone"}]
  /\ callee \in [Threads -> All \cup {NoOne}] /\ stack \in [Threads -> Seq(All)]
  /\ count \in [Threads -> Nat] /\ at \in [Threads -> All \cup {NoOne}]
  /\ entries \in [Threads -> Seq(All)] /\ lastMap \in [Threads -> SUBSET All]
  /\ raced \in [Threads -> BOOLEAN] /\ forks \in 0 .. MaxForks

\* The loader changing its list under write_map is the only way to lose a
\* change: a thread to which that has not happened finds the object of every
\* ENTER in its map, whatever other threads load and unload meanwhile.
EnterUnlessRaced ==
  \A t \in Threads : pc[t] = "emit" /\ ~raced[t] => callee[t] \in lastMap[t]

\* The same of every LEAVE, although record_leave writes no map and the call may
\* have begun several maps ago.  Only the dump of a forked child may begin with
\* LEAVE records that no map precedes.
LeaveUnlessRaced ==
  [][\A t \in Threads : Leave(t) /\ ~raced[t] =>
       \/ Last(stack[t]) \in lastMap[t]
       \/ lastMap[t] = {} /\ forks > 0]_vars

\* A thread that is not marked has the current map, with neither an object
\* missing nor one that is gone.
MapCurrent ==
  \A t \in registered :
    pc[t] \in {"app", "check", "emit"} /\ loading = Idle
      /\ ~pending[t] /\ ~raced[t] => lastMap[t] = Mapped
=============================================================================
