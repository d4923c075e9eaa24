-------------------------------- MODULE Manager --------------------------------
(***************************************************************************)
(* The life of a profiled program as libprofiler/manager.c sees it: how a  *)
(* thread that records for the first time starts the manager and enters    *)
(* its list, how the manager thread empties the buffers of that list into  *)
(* the dump files, what the three pthread_atfork callbacks do to it in a   *)
(* program that forks, and what the destructor does at exit.               *)
(*                                                                         *)
(* A thread is a pair of its process and its name; the child of a fork is  *)
(* the next process, and the only thread in it has the name of the thread  *)
(* that forked.  A thread has one buffer, one dump and numbered records;   *)
(* made counts those that commit_write has recorded.  The buffer is not    *)
(* locked: what its reader sees of it between the loads and stores of its  *)
(* writer is SharedBuffer, of which FlushLoad and FlushWrite here keep     *)
(* the outcome.                                                            *)
(***************************************************************************)
EXTENDS Integers, Sequences, FiniteSets, SequencesExt

CONSTANTS
  Names,        \* the application's threads of one process
  First,        \* the one that runs main()
  Managers,     \* the manager threads a process can come to have
  Free,         \* no thread: the mutex is not locked
  LastProc,     \* processes are numbered from 0; bounds the forks
  Forkers,      \* the names of the threads that call fork
  Exiters,      \* the names of the threads that call exit
  Spawners,     \* the processes whose code creates threads
  MaxRecords,   \* bound on the records of all threads together
  BufferSize,   \* records a buffer holds
  MainFirst     \* main() is instrumented: it records before it creates threads

ASSUME ManagerAssumption ==
  /\ First \in Names /\ Names \cap Managers = {}
  /\ Free \notin (0 .. LastProc) \X (Names \cup Managers)
  /\ LastProc \in Nat /\ Forkers \cup Exiters \subseteq Names /\ Spawners \subseteq 0 .. LastProc
  /\ MaxRecords \in Nat /\ BufferSize \in Nat \ {0} /\ MainFirst \in BOOLEAN

Procs    == 0 .. LastProc
App      == Procs \X Names
Flushers == Procs \X Managers
Threads  == App \cup Flushers
Proc(t)  == t[1]
Name(t)  == t[2]

\* In a dump: bytes that were no record when they were written.
Junk == 0

VARIABLES
  initialized,  \* g_initialized of manager.c, per process
  mutex,        \* g_manager.l_mutex: the thread that locked it, or Free
  list,         \* g_manager.l: the threads in it, the last one first
  handlers,     \* how often the process has called pthread_atfork
  buf,          \* each process's copy of each thread's buffer
  dump,         \* the dump file of each thread
  known,        \* g_initialized of record.c, per thread
  pc,           \* what each thread is doing
  calls,        \* the handlers the current fork of a thread calls
  locked,       \* the prepare callbacks it has been through
  cursor,       \* what flush_manager has left to do
  taken,        \* to_write of flush_thread
  made,         \* records each thread has made
  ended,        \* the processes that have exited
  atExit        \* ghost: made at the call of exit

shared  == << initialized, mutex, list, handlers >>
records == << buf, dump, made >>
forking == << calls, locked >>
flush   == << cursor, taken >>
life    == << ended, atExit >>
vars == << shared, records, known, pc, forking, flush, life >>

Init ==
  /\ initialized = [p \in Procs |-> FALSE]
  /\ mutex = [p \in Procs |-> Free] /\ list = [p \in Procs |-> << >>]
  /\ handlers = [p \in Procs |-> 0]
  /\ buf = [p \in Procs |-> [o \in App |-> << >>]]
  /\ dump = [o \in App |-> << >>] /\ made = [o \in App |-> 0]
  /\ known = [o \in App |-> FALSE]
  /\ pc = [t \in Threads |-> IF t = << 0, First >> THEN "app" ELSE "unborn"]
  /\ calls = [t \in App |-> 0] /\ locked = [t \in App |-> 0]
  /\ cursor = [t \in Threads |-> << >>] /\ taken = [t \in Threads |-> 0]
  /\ ended = {} /\ atExit = [o \in App |-> 0]

\* A thread of a process that has exited is nowhere any more.
Running(t) == Proc(t) \notin ended
At(t, l)   == pc[t] = l /\ Running(t)
Goto(t, l) == pc' = [pc EXCEPT ![t] = l]

\* pthread_mutex_lock and pthread_mutex_unlock on the process's l_mutex
Lock(t)   == mutex[Proc(t)] = Free /\ mutex' = [mutex EXCEPT ![Proc(t)] = t]
Unlock(t) == mutex' = [mutex EXCEPT ![Proc(t)] = Free]

-----------------------------------------------------------------------------
(* The application *)

Spawn(t, u) ==
  /\ At(t, "app") /\ Proc(t) \in Spawners /\ (MainFirst => known[t])
  /\ Proc(u) = Proc(t) /\ pc[u] = "unborn"
  /\ Goto(u, "app")
  /\ UNCHANGED << shared, records, known, forking, flush, life >>

\* An instrumented call of a thread that is known, with room in its buffer.
Record(t) ==
  LET p == Proc(t) IN
  /\ At(t, "app") /\ known[t] /\ Len(buf[p][t]) < BufferSize
  /\ made[t] < MaxRecords /\ MapThenSumSet(LAMBDA o : made[o], App) < MaxRecords
  /\ made' = [made EXCEPT ![t] = @ + 1]
  /\ buf' = [buf EXCEPT ![p][t] = Append(@, made[t] + 1)]
  /\ UNCHANGED << shared, dump, known, pc, forking, flush, life >>

\* The first one: get_thread calls record_init.
RecordInit(t) ==
  /\ At(t, "app") /\ ~known[t]
  /\ Goto(t, "check")
  /\ UNCHANGED << shared, records, known, forking, flush, life >>

\* exit(), which runs the destructor; two threads do not call it at once.
Exit(t) ==
  /\ At(t, "app") /\ Name(t) \in Exiters
  /\ \A u \in App : Proc(u) = Proc(t) => pc[u] \notin {"exit", "flush", "write", "commit"}
  /\ Goto(t, "exit")
  /\ atExit' = [o \in App |-> IF Proc(o) = Proc(t) THEN made[o] ELSE atExit[o]]
  /\ UNCHANGED << shared, records, known, forking, flush, ended >>

-----------------------------------------------------------------------------
(* ensure_manager_started and manager_register_thread *)

EnsureCheck(t) ==
  /\ At(t, "check")
  /\ Goto(t, IF initialized[Proc(t)] THEN "register" ELSE "reset")
  /\ UNCHANGED << shared, records, known, forking, flush, life >>

EnsureReset(t) ==
  /\ At(t, "reset")
  /\ list' = [list EXCEPT ![Proc(t)] = << >>]
  /\ Unlock(t)
  /\ Goto(t, "hook")
  /\ UNCHANGED << initialized, handlers, records, known, forking, flush, life >>

EnsureHook(t) ==
  /\ At(t, "hook")
  /\ handlers' = [handlers EXCEPT ![Proc(t)] = @ + 1]
  /\ Goto(t, "create")
  /\ UNCHANGED << initialized, mutex, list, records, known, forking, flush, life >>

EnsureCreate(t, m) ==
  /\ At(t, "create") /\ Proc(m) = Proc(t) /\ pc[m] = "unborn"
  /\ pc' = [pc EXCEPT ![t] = "mark", ![m] = "sleep"]
  /\ UNCHANGED << shared, records, known, forking, flush, life >>

EnsureMark(t) ==
  /\ At(t, "mark")
  /\ initialized' = [initialized EXCEPT ![Proc(t)] = TRUE]
  /\ Goto(t, "register")
  /\ UNCHANGED << mutex, list, handlers, records, known, forking, flush, life >>

RegisterLock(t) ==
  /\ At(t, "register")
  /\ Lock(t)
  /\ Goto(t, "insert")
  /\ UNCHANGED << initialized, list, handlers, records, known, forking, flush, life >>

\* Mutant of Insert: the thread does not enter the list.
InsertNothing(t) ==
  /\ At(t, "insert")
  /\ Unlock(t)
  /\ known' = [known EXCEPT ![t] = TRUE]
  /\ Goto(t, "app")
  /\ UNCHANGED << initialized, list, handlers, records, forking, flush, life >>

Insert(t) ==
  /\ At(t, "insert")
  /\ list' = [list EXCEPT ![Proc(t)] = << t >> \o @]
  /\ Unlock(t)
  /\ known' = [known EXCEPT ![t] = TRUE]
  /\ Goto(t, "app")
  /\ UNCHANGED << initialized, handlers, records, forking, flush, life >>

-----------------------------------------------------------------------------
(* flush_manager, called by the manager thread and by the destructor *)

\* Mutant of FlushLock: flush_manager starts at the second entry.
FlushLockSecond(t) ==
  /\ At(t, "sleep") \/ At(t, "exit")
  /\ Lock(t)
  /\ cursor' = [cursor EXCEPT ![t] = SubSeq(list[Proc(t)], 2, Len(list[Proc(t)]))]
  /\ Goto(t, "flush")
  /\ UNCHANGED << initialized, list, handlers, records, known, forking, taken, life >>

FlushLock(t) ==
  /\ At(t, "sleep") \/ At(t, "exit")
  /\ Lock(t)
  /\ cursor' = [cursor EXCEPT ![t] = list[Proc(t)]]
  /\ Goto(t, "flush")
  /\ UNCHANGED << initialized, list, handlers, records, known, forking, taken, life >>

\* flush_thread.  Its two iterations are one here, which SharedBuffer shows to
\* take what was there when it began: get_read_size loads the write index once
\* to reduce it ...
FlushLoad(t) ==
  /\ At(t, "flush") /\ cursor[t] # << >>
  /\ taken' = [taken EXCEPT ![t] = Len(buf[Proc(t)][Head(cursor[t])])]
  /\ Goto(t, "write")
  /\ UNCHANGED << shared, records, known, forking, cursor, life >>

\* ... and once more to compare it, and says that an empty buffer is full if a
\* record has come in since, or if its thread is between the two stores of the
\* last one.  The second iteration may come to this behind what the first takes.
Torn(t, o) ==
  \/ Len(buf[Proc(t)][o]) > taken[t]
  \/ pc[o] = "app" /\ made[o] > 0

Clean(o) == Junk \notin ToSet(dump[o])

\* write_to_fd; what follows the first junk of a dump is not kept.
WriteToFd(o, data) ==
  dump' = IF Clean(o) THEN [dump EXCEPT ![o] = @ \o data] ELSE dump

FlushWrite(t) ==
  LET o    == Head(cursor[t])
      data == SubSeq(buf[Proc(t)][o], 1, taken[t])
  IN
  /\ At(t, "write")
  /\ \/ /\ taken[t] > 0
        /\ WriteToFd(o, data)
        /\ UNCHANGED taken
     \/ /\ Torn(t, o)
        /\ WriteToFd(o, Append(data, Junk))
        /\ \E n \in 1 .. BufferSize : taken' = [taken EXCEPT ![t] = n]
     \/ /\ taken[t] = 0 /\ buf[Proc(t)][o] = << >>
        /\ UNCHANGED << dump, taken >>
  /\ Goto(t, "commit")
  /\ UNCHANGED << shared, buf, made, known, forking, cursor, life >>

\* Mutant of FlushCommit: everything in the buffer by now is dropped.
FlushCommitAll(t) ==
  /\ At(t, "commit")
  /\ buf' = [buf EXCEPT ![Proc(t)][Head(cursor[t])] = << >>]
  /\ taken' = [taken EXCEPT ![t] = 0]
  /\ cursor' = [cursor EXCEPT ![t] = Tail(@)]
  /\ Goto(t, "flush")
  /\ UNCHANGED << shared, dump, made, known, forking, life >>

\* circular_buffer_commit_read, which refuses more than there is to read.
FlushCommit(t) ==
  /\ At(t, "commit")
  /\ buf' = [buf EXCEPT ![Proc(t)][Head(cursor[t])] =
                IF taken[t] =< Len(@) THEN SubSeq(@, taken[t] + 1, Len(@)) ELSE @]
  /\ taken' = [taken EXCEPT ![t] = 0]
  /\ cursor' = [cursor EXCEPT ![t] = Tail(@)]
  /\ Goto(t, "flush")
  /\ UNCHANGED << shared, dump, made, known, forking, life >>

\* The manager thread goes on; after the destructor the process is gone.
FlushUnlock(t) ==
  /\ At(t, "flush") /\ cursor[t] = << >>
  /\ Unlock(t)
  /\ IF t \in Flushers THEN Goto(t, "sleep") /\ UNCHANGED ended
     ELSE Goto(t, "gone") /\ ended' = ended \cup {Proc(t)}
  /\ UNCHANGED << initialized, list, handlers, records, known, forking, flush, atExit >>

-----------------------------------------------------------------------------
(* fork *)

Unborn == {c \in Procs : \A x \in Threads : Proc(x) = c => pc[x] = "unborn"}

Fork(t) ==
  /\ At(t, "app") /\ Name(t) \in Forkers
  /\ Cardinality(Unborn) > Cardinality({u \in App : pc[u] = "prepare"})
  /\ calls' = [calls EXCEPT ![t] = handlers[Proc(t)]]
  /\ Goto(t, "prepare")
  /\ UNCHANGED << shared, records, known, locked, flush, life >>

\* Mutant of Prepare: fork does not take the mutex.
PrepareUnlocked(t) ==
  /\ At(t, "prepare") /\ locked[t] < calls[t]
  /\ locked' = [locked EXCEPT ![t] = @ + 1]
  /\ UNCHANGED << shared, records, known, pc, calls, flush, life >>

\* at_fork_prepare_callback, once for every handler; the mutex is not recursive.
Prepare(t) ==
  /\ At(t, "prepare") /\ locked[t] < calls[t]
  /\ Lock(t)
  /\ locked' = [locked EXCEPT ![t] = @ + 1]
  /\ UNCHANGED << initialized, list, handlers, records, known, pc, calls, flush, life >>

\* The child is a copy of the memory of its parent with one thread in it.
DoFork(t, c) ==
  LET p == Proc(t)
      u == << c, Name(t) >>
  IN
  /\ At(t, "prepare") /\ locked[t] = calls[t]
  /\ c \in Unborn
  /\ initialized' = [initialized EXCEPT ![c] = initialized[p]]
  /\ mutex' = [mutex EXCEPT ![c] = IF mutex[p] = t THEN u ELSE mutex[p]]
  /\ list' = [list EXCEPT ![c] = list[p]]
  /\ handlers' = [handlers EXCEPT ![c] = handlers[p]]
  /\ buf' = [buf EXCEPT ![c] = buf[p]]
  /\ known' = [known EXCEPT ![u] = known[t]]
  /\ pc' = [pc EXCEPT ![t] = "parent", ![u] = IF calls[t] > 0 THEN "child" ELSE "app"]
  /\ UNCHANGED << dump, made, forking, flush, life >>

\* at_fork_parent_callback
AtForkParent(t) ==
  /\ At(t, "parent")
  /\ IF calls[t] > 0 THEN Unlock(t) ELSE UNCHANGED mutex
  /\ calls' = [calls EXCEPT ![t] = 0] /\ locked' = [locked EXCEPT ![t] = 0]
  /\ Goto(t, "app")
  /\ UNCHANGED << initialized, list, handlers, records, known, flush, life >>

\* Mutant of AtForkChild: the buffers of the parent are flushed before.
AtForkChildFlushes(t) ==
  /\ At(t, "child") /\ list[Proc(t)] # << >>
  /\ dump' = [o \in App |-> dump[o] \o buf[Proc(t)][o]]
  /\ initialized' = [initialized EXCEPT ![Proc(t)] = FALSE]
  /\ list' = [list EXCEPT ![Proc(t)] = << >>]
  /\ buf' = [buf EXCEPT ![Proc(t)] = [o \in App |-> << >>]]
  /\ Unlock(t)
  /\ Goto(t, "check")
  /\ UNCHANGED << handlers, made, known, forking, flush, life >>

\* Mutant of AtForkChild: g_initialized stays set.
AtForkChildInitialized(t) ==
  /\ At(t, "child") /\ list[Proc(t)] # << >>
  /\ list' = [list EXCEPT ![Proc(t)] = << >>]
  /\ buf' = [buf EXCEPT ![Proc(t)] = [o \in App |-> << >>]]
  /\ Unlock(t)
  /\ Goto(t, "check")
  /\ UNCHANGED << initialized, handlers, dump, made, known, forking, flush, life >>

\* at_fork_child_callback up to its call of ensure_manager_started: the list
\* of the parent's threads is freed, and what is in their buffers is dropped.
AtForkChild(t) ==
  /\ At(t, "child") /\ list[Proc(t)] # << >>
  /\ initialized' = [initialized EXCEPT ![Proc(t)] = FALSE]
  /\ list' = [list EXCEPT ![Proc(t)] = << >>]
  /\ buf' = [buf EXCEPT ![Proc(t)] = [o \in App |-> << >>]]
  /\ Unlock(t)
  /\ Goto(t, "check")
  /\ UNCHANGED << handlers, dump, made, known, forking, flush, life >>

-----------------------------------------------------------------------------
Locking(t) == RegisterLock(t) \/ FlushLock(t) \/ Prepare(t)

Working(t) ==
  \/ EnsureCheck(t) \/ EnsureReset(t) \/ EnsureHook(t)
  \/ \E m \in Flushers : EnsureCreate(t, m)
  \/ EnsureMark(t) \/ Insert(t)
  \/ FlushLoad(t) \/ FlushWrite(t) \/ FlushCommit(t) \/ FlushUnlock(t)
  \/ \E c \in Procs : DoFork(t, c)
  \/ AtForkParent(t) \/ AtForkChild(t)

Choosing(t) ==
  \/ \E u \in App : Spawn(t, u)
  \/ Record(t) \/ RecordInit(t) \/ Fork(t) \/ Exit(t)

Next ==
  \/ \E t \in Threads : Locking(t) \/ Working(t)
  \/ \E t \in App : Choosing(t)

Spec == Init /\ [][Next]_vars

\* Threads are scheduled; one that waits for a mutex which is released again
\* and again (the manager thread sleeps between two flushes) gets it.
FairSpec ==
  /\ Spec
  /\ \A t \in Threads : WF_vars(Working(t)) /\ SF_vars(Locking(t))

-----------------------------------------------------------------------------
(* Properties *)

Places == {"unborn", "app", "check", "reset", "hook", "create", "mark", "register",
           "insert", "sleep", "flush", "write", "commit", "prepare", "parent", "child",
           "exit", "gone"}

\* Only the application's threads have buffers; handlers grows with the forks.
TypeOK ==
  /\ initialized \in [Procs -> BOOLEAN]
  /\ mutex \in [Procs -> Threads \cup {Free}]
  /\ list \in [Procs -> Seq(App)] /\ handlers \in [Procs -> Nat]
  /\ buf \in [Procs -> [App -> Seq(1 .. MaxRecords)]]
  /\ \A p \in Procs, o \in App : Len(buf[p][o]) =< BufferSize
  /\ dump \in [App -> Seq(0 .. MaxRecords)] /\ made \in [App -> 0 .. MaxRecords]
  /\ known \in [App -> BOOLEAN] /\ pc \in [Threads -> Places]
  /\ \A t \in Flushers : pc[t] \in {"unborn", "sleep", "flush", "write", "commit"}
  /\ \A t \in App : pc[t] # "sleep"
  /\ calls \in [App -> Nat] /\ locked \in [App -> Nat]
  /\ cursor \in [Threads -> Seq(App)] /\ taken \in [Threads -> Nat]
  /\ ended \subseteq Procs /\ atExit \in [App -> 0 .. MaxRecords]

\* manager.c: the child "must not flush their data on disk because that would
\* mean the data is written twice": up to the first bytes that a torn load let
\* through, a dump holds the records of its thread once each, in the order in
\* which they were made, with none left out.
DumpInOrder ==
  \A o \in App : \A i \in 1 .. Len(dump[o]) : dump[o][i] \in {i, Junk}

\* Nothing is lost on the way: what is not in a dump without junk is in the
\* buffer its own process has for the thread, or is being committed.
NothingLost ==
  \A o \in App :
    Clean(o) => Len(dump[o]) + Len(buf[Proc(o)][o]) >= made[o]

\* manager.c: "proper locking to access the list of managed threads": a thread
\* that records is in the list of its process, so that somebody empties its buffer.
KnownAreListed ==
  \A o \in App : pc[o] = "app" /\ known[o] => o \in ToSet(list[Proc(o)])

\* The list is only walked or changed by the thread that holds l_mutex.
Excluded ==
  \A t \in Threads :
    Running(t) /\ pc[t] \in {"insert", "flush", "write", "commit"} => mutex[Proc(t)] = t

\* at_fork_child_callback frees the last entry without a test that there is one.
ChildHasList == \A t \in App : pc[t] = "child" => list[Proc(t)] # << >>

\* The destructor writes what every thread had recorded when exit was called.
ExitFlushes ==
  \A o \in App : Proc(o) \in ended /\ Clean(o) => Len(dump[o]) >= atExit[o]

\* README: "If your program forks, you will also find a dump file for each of
\* the threads of the forked program": fork returns, in the parent and the child.
ForkReturns ==
  \A t \in App : pc[t] \in {"prepare", "child"} ~> pc[t] = "app" \/ ~Running(t)

\* Every record reaches the dump of its thread, unless junk does or the process
\* exits first.  As there are no more than MaxRecords of them, this is so when
\* again and again no dump is behind.
EventuallyWritten ==
  []<>(\A o \in App : Len(dump[o]) >= made[o] \/ ~Clean(o) \/ ~Running(o))
=============================================================================
