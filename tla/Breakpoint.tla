------------------------------ MODULE Breakpoint ------------------------------
(***************************************************************************)
(* The breakpoint of libdebug/breakpoint.c at the address where the loader *)
(* reports its changes (r_brk): the first byte of an instruction is        *)
(* replaced by int3; the handler of the trap puts it back, steps over it   *)
(* with the trap flag set, and the handler of the second trap replaces it  *)
(* again.  ensure_manager_started arms it and at_fork_child_callback       *)
(* (libprofiler/manager.c) disarms and arms it in the child of a fork.     *)
(***************************************************************************)
EXTENDS Naturals

CONSTANTS
  Threads,      \* the application's threads
  MaxForks      \* bound on the number of forks; the child is followed

ASSUME BreakpointAssumption == Threads # {} /\ MaxForks \in Nat

VARIABLES
  text,         \* the byte at bp->address
  page,         \* the protection of its page
  saved,        \* bp->data
  handler,      \* the action of SIGTRAP
  oldAction,    \* g_old_action
  armed,        \* whether ensure_manager_started has run
  pc,           \* what each thread is doing
  job,          \* which function its patch of the text belongs to
  eip,          \* where its signal handler will return to
  step,         \* the trap flag
  passing,      \* the threads between the call of r_brk and its return
  due, told,    \* ghosts: it was armed at the call; traps handled since, up to 2
  forks

patch   == << text, page, saved >>
signals == << handler, oldAction >>
context == << eip, step >>
ghosts  == << passing, due, told >>
vars    == << patch, signals, armed, pc, job, context, ghosts, forks >>

Init ==
  /\ text = "original" /\ page = "rx" /\ saved = "zero"
  /\ handler = "default" /\ oldAction = "default" /\ armed = FALSE
  /\ pc = [t \in Threads |-> "away"] /\ job = [t \in Threads |-> "none"]
  /\ eip = [t \in Threads |-> "start"] /\ step = [t \in Threads |-> FALSE]
  /\ passing = {} /\ forks = 0
  /\ due = [t \in Threads |-> FALSE] /\ told = [t \in Threads |-> 0]

Goto(t, l) == pc' = [pc EXCEPT ![t] = l]

-----------------------------------------------------------------------------
(* The processor and the kernel *)

\* The loader calls r_brk; its lock admits one thread at a time.
Call(t) ==
  /\ pc[t] = "away" /\ passing = {}
  /\ Goto(t, "fetch")
  /\ passing' = {t}
  /\ due' = [due EXCEPT ![t] = armed] /\ told' = [told EXCEPT ![t] = 0]
  /\ eip' = [eip EXCEPT ![t] = "start"]
  /\ UNCHANGED << patch, signals, armed, job, step, forks >>

\* The instruction is int3: SIGTRAP with the next byte as its return address.
FetchInt3(t) ==
  /\ pc[t] = "fetch" /\ text = "int3"
  /\ eip' = [eip EXCEPT ![t] = "inside"]
  /\ Goto(t, handler)
  /\ UNCHANGED << patch, signals, armed, job, step, ghosts, forks >>

\* It is the program's: with the trap flag set it is followed by SIGTRAP.
FetchOriginal(t) ==
  /\ pc[t] = "fetch" /\ text = "original"
  /\ eip' = [eip EXCEPT ![t] = "after"]
  /\ Goto(t, IF step[t] THEN handler ELSE "return")
  /\ UNCHANGED << patch, signals, armed, job, step, ghosts, forks >>

\* The end of a signal handler, or of the instruction itself.
Return(t) ==
  /\ pc[t] = "return"
  /\ \/ eip[t] = "start" /\ Goto(t, "fetch") /\ UNCHANGED passing
     \/ eip[t] # "start" /\ Goto(t, "away")  /\ passing' = passing \ {t}
  /\ UNCHANGED << patch, signals, armed, job, context, due, told, forks >>

-----------------------------------------------------------------------------
(* breakpoint_enable and breakpoint_disable *)

Save(t) ==
  /\ pc[t] = "save"
  /\ saved' = text
  /\ Goto(t, "open")
  /\ UNCHANGED << text, page, signals, armed, job, context, ghosts, forks >>

WriteEnable(t) ==
  /\ pc[t] = "open"
  /\ page' = "rwx"
  /\ Goto(t, "patch")
  /\ UNCHANGED << text, saved, signals, armed, job, context, ghosts, forks >>

\* Mutant of Patch: breakpoint_disable does not put the instruction back.
PatchOnce(t) ==
  /\ pc[t] = "patch"
  /\ text' = "int3"
  /\ Goto(t, "close")
  /\ UNCHANGED << page, saved, signals, armed, job, context, ghosts, forks >>

Patch(t) ==
  /\ pc[t] = "patch"
  /\ text' = IF job[t] \in {"ensure", "reenable"} THEN "int3" ELSE saved
  /\ Goto(t, "close")
  /\ UNCHANGED << page, saved, signals, armed, job, context, ghosts, forks >>

\* The callers go on; a child of a fork goes on to ensure_manager_started.
WriteDisable(t) ==
  /\ pc[t] = "close"
  /\ page' = "rx"
  /\ Goto(t, CASE job[t] = "ensure"   -> "away"
               [] job[t] = "reenable" -> "return"
               [] job[t] = "trap"     -> "install"
               [] job[t] = "child"    -> "ensure")
  /\ armed' = (armed \/ job[t] = "ensure")
  /\ UNCHANGED << text, saved, signals, job, context, ghosts, forks >>

-----------------------------------------------------------------------------
(* The signal handlers *)

\* trap_handler calls breakpoint_continue_from_handler first of all.
TrapHandler(t) ==
  /\ pc[t] = "trap_handler"
  /\ told' = [told EXCEPT ![t] = IF @ < 2 THEN @ + 1 ELSE 2]
  /\ job' = [job EXCEPT ![t] = "trap"]
  /\ Goto(t, "open")
  /\ UNCHANGED << patch, signals, armed, context, passing, due, forks >>

\* Mutant of InstallReenable: the program counter is left behind the int3.
InstallWithoutPc(t) ==
  /\ pc[t] = "install"
  /\ oldAction' = handler /\ handler' = "reenable_trap_handler"
  /\ step' = [step EXCEPT ![t] = TRUE]
  /\ Goto(t, "return")
  /\ UNCHANGED << patch, armed, job, eip, ghosts, forks >>


\* Mutant of InstallReenable: stepping is not enabled.
InstallWithoutStep(t) ==
  /\ pc[t] = "install"
  /\ eip' = [eip EXCEPT ![t] = IF @ = "inside" THEN "start" ELSE "inside"]
  /\ oldAction' = handler /\ handler' = "reenable_trap_handler"
  /\ Goto(t, "return")
  /\ UNCHANGED << patch, armed, job, step, ghosts, forks >>

\* breakpoint_disable_from_handler sets the program counter back by one;
\* breakpoint_continue_from_handler installs the second handler and steps.
InstallReenable(t) ==
  /\ pc[t] = "install"
  /\ eip' = [eip EXCEPT ![t] = IF @ = "inside" THEN "start" ELSE "inside"]
  /\ oldAction' = handler /\ handler' = "reenable_trap_handler"
  /\ step' = [step EXCEPT ![t] = TRUE]
  /\ Goto(t, "return")
  /\ UNCHANGED << patch, armed, job, ghosts, forks >>

\* Mutant of Reenable: the original handler is not put back.
ReenableKeepsAction(t) ==
  /\ pc[t] = "reenable_trap_handler"
  /\ step' = [step EXCEPT ![t] = FALSE]
  /\ job' = [job EXCEPT ![t] = "reenable"]
  /\ Goto(t, "save")
  /\ UNCHANGED << patch, signals, armed, eip, ghosts, forks >>

Reenable(t) ==
  /\ pc[t] = "reenable_trap_handler"
  /\ step' = [step EXCEPT ![t] = FALSE]
  /\ handler' = oldAction
  /\ job' = [job EXCEPT ![t] = "reenable"]
  /\ Goto(t, "save")
  /\ UNCHANGED << patch, oldAction, armed, eip, ghosts, forks >>

-----------------------------------------------------------------------------
(* libprofiler/manager.c *)

\* The first registration of the process, by the one thread there is by then
\* that records; the others may be inside r_brk.
FirstEnsure(t) ==
  /\ pc[t] = "away" /\ ~armed /\ \A u \in Threads : job[u] = "none"
  /\ job' = [job EXCEPT ![t] = "ensure"]
  /\ Goto(t, "ensure")
  /\ UNCHANGED << patch, signals, armed, context, ghosts, forks >>

Ensure(t) ==
  /\ pc[t] = "ensure"
  /\ handler' = "trap_handler"
  /\ job' = [job EXCEPT ![t] = "ensure"]
  /\ Goto(t, "save")
  /\ UNCHANGED << patch, oldAction, armed, context, ghosts, forks >>

\* Mutant of Fork: at_fork_child_callback does not disable the breakpoint.
ForkArmed(t) ==
  /\ pc[t] = "away" /\ armed /\ forks < MaxForks
  /\ forks' = forks + 1
  /\ pc' = [u \in Threads |-> IF u = t THEN "ensure" ELSE "gone"]
  /\ job' = [u \in Threads |-> IF u = t THEN "child" ELSE "none"]
  /\ passing' = {} /\ step' = [u \in Threads |-> u = t /\ step[u]]
  /\ UNCHANGED << patch, signals, armed, eip, due, told >>

\* at_fork_child_callback: the other threads do not exist in the child,
\* whatever they were doing to the text in the parent.
Fork(t) ==
  /\ pc[t] = "away" /\ armed /\ forks < MaxForks
  /\ forks' = forks + 1
  /\ pc' = [u \in Threads |-> IF u = t THEN "open" ELSE "gone"]
  /\ job' = [u \in Threads |-> IF u = t THEN "child" ELSE "none"]
  /\ passing' = {} /\ step' = [u \in Threads |-> u = t /\ step[u]]
  /\ UNCHANGED << patch, signals, armed, eip, due, told >>

-----------------------------------------------------------------------------
Step(t) ==
  \/ FetchInt3(t) \/ FetchOriginal(t) \/ Return(t)
  \/ Save(t) \/ WriteEnable(t) \/ Patch(t) \/ WriteDisable(t)
  \/ TrapHandler(t) \/ InstallReenable(t) \/ Reenable(t) \/ Ensure(t)

Next == \E t \in Threads : Step(t) \/ Call(t) \/ FirstEnsure(t) \/ Fork(t)

\* Every thread is scheduled.
Spec == Init /\ [][Next]_vars /\ \A t \in Threads : WF_vars(Step(t))

-----------------------------------------------------------------------------
(* Properties *)

Handlers == {"trap_handler", "reenable_trap_handler"}

TypeOK ==
  /\ text \in {"original", "int3"} /\ page \in {"rx", "rwx"}
  /\ saved \in {"zero", "original", "int3"}
  /\ handler \in Handlers \cup {"default"} /\ oldAction \in Handlers \cup {"default"}
  /\ armed \in BOOLEAN
  /\ pc \in [Threads -> Handlers \cup {"away", "fetch", "return", "save", "open", "patch",
                                       "close", "install", "ensure", "gone"}]
  /\ job \in [Threads -> {"none", "ensure", "reenable", "trap", "child"}]
  /\ eip \in [Threads -> {"start", "inside", "after"}] /\ step \in [Threads -> BOOLEAN]
  /\ passing \subseteq Threads /\ due \in [Threads -> BOOLEAN]
  /\ told \in [Threads -> {0, 1}] /\ forks \in 0 .. MaxForks

\* Once it is armed, the byte that would be put back is the program's own, also
\* in a child that was forked while the parent was in the middle of a trap:
\* putting an int3 back would make it trap for ever.
SavedIsOriginal == armed => saved = "original"

\* The handlers leave the breakpoint as they found it: no thread passes, no
\* thread patches, and the next call of r_brk will reach trap_handler.
RearmedAfterwards ==
  armed /\ passing = {} /\ (\A t \in Threads : pc[t] \in {"away", "gone"}) =>
    text = "int3" /\ handler = "trap_handler" /\ page = "rx"
      /\ \A t \in Threads : ~step[t]

\* breakpoint.c: "We are here thanks to the steping mode": the second handler is
\* entered behind the original instruction and never through the int3, and no
\* handler returns to the middle of an instruction.
AtInstructions ==
  \A t \in Threads :
    /\ pc[t] = "reenable_trap_handler" => step[t] /\ eip[t] = "after"
    /\ pc[t] = "return" => eip[t] # "inside"

\* The loader's report reaches trap_handler exactly once per call, and not at
\* all only if the breakpoint was not armed yet.
ToldOnce ==
  [][\A t \in Threads : t \in passing /\ t \notin passing' /\ pc'[t] = "away" =>
       told[t] =< 1 /\ (due[t] => told[t] = 1)]_vars

=============================================================================
