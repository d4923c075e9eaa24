---------------------------- MODULE BreakpointProofs ---------------------------
(***************************************************************************)
(* The breakpoint survives what the program does to it: for every set of   *)
(* threads and any number of forks, of the program and of its children.    *)
(***************************************************************************)
EXTENDS Breakpoint, TLAPS

Writing == {"save", "open", "patch", "close"}

\* A thread in ensure_manager_started, or on its way to it after a fork.
Enabling(t) ==
  \/ pc[t] = "ensure"
  \/ pc[t] \in Writing /\ job[t] \in {"ensure", "child"}

\* A thread between the trap of the int3 and the end of the second handler.
Trapping(t) ==
  \/ pc[t] \in Handlers \cup {"install"} \/ step[t]
  \/ pc[t] \in Writing /\ job[t] \in {"trap", "reenable"}

\* The thread that has put the original instruction back, or has not replaced
\* it yet.
Restored(t) ==
  \/ pc[t] = "install" \/ step[t]
  \/ pc[t] = "close" /\ job[t] = "trap"
  \/ pc[t] \in Writing \ {"close"} /\ job[t] = "reenable"
Rebuilding(t) ==
  \/ pc[t] = "ensure"
  \/ pc[t] = "close" /\ job[t] = "child"
  \/ pc[t] \in Writing \ {"close"} /\ job[t] = "ensure"
Original(t) == Restored(t) \/ Rebuilding(t)

\* The breakpoint is in the text for the first time, but not marked as armed.
Closing(t) == pc[t] = "close" /\ job[t] = "ensure"

\* The lock of the loader admits one thread; another one may arm the breakpoint
\* meanwhile, and in a child there is nobody else.
Exclusion ==
  /\ passing = {t \in Threads : Trapping(t) \/ pc[t] \in {"fetch", "return"}}
  /\ \A t, u \in passing : t = u
  /\ \A t, u \in Threads : Enabling(t) /\ Enabling(u) => t = u
  /\ \A t, u \in Threads : armed /\ Enabling(t) /\ t # u => pc[u] = "gone" /\ ~step[u]
  /\ ~armed => \/ \A t \in Threads : job[t] = "none"
               \/ \E t \in Threads : Enabling(t)
  /\ ~armed /\ (\A t \in Threads : ~Closing(t)) =>
       text = "original" /\ \A t \in Threads : ~Trapping(t) /\ job[t] # "child"

\* Where the text and the handler are while a thread works on them.
Consistent ==
  /\ armed \/ (\E t \in Threads : pc[t] \in Writing \ {"save"}) => saved = "original"
  /\ \A t \in Threads : Original(t) => text = "original"
  /\ (\A t \in Threads : ~Original(t) /\ job[t] # "child")
       /\ (armed \/ \E t \in Threads : Closing(t)) => text = "int3" /\ handler = "trap_handler"
  /\ page = "rwx" => \E t \in Threads : \/ pc[t] \in {"patch", "close"}
                                        \/ pc[t] = "open" /\ job[t] = "child"

\* What a thread finds when it goes on from where it is.
Fits(t) ==
  /\ pc[t] \in Writing \cup {"ensure"} => job[t] # "none"
  /\ pc[t] = "save" => job[t] \in {"ensure", "reenable"}
  /\ job[t] = "child" => Enabling(t)
  /\ Enabling(t) /\ pc[t] # "ensure" /\ job[t] = "ensure" /\ ~Closing(t)
       => handler = "trap_handler"
  /\ pc[t] = "fetch" /\ ~step[t] => eip[t] = "start" /\ told[t] = 0
  /\ pc[t] \in {"trap_handler", "install"} \/ (pc[t] \in Writing /\ job[t] = "trap")
       => /\ eip[t] = "inside" /\ ~step[t] /\ handler = "trap_handler"
          /\ told[t] = IF pc[t] = "trap_handler" THEN 0 ELSE 1
  /\ step[t] => /\ pc[t] \in {"fetch", "return", "reenable_trap_handler"}
                /\ eip[t] = IF pc[t] = "reenable_trap_handler" THEN "after" ELSE "start"
                /\ handler = "reenable_trap_handler" /\ oldAction = "trap_handler"
                /\ told[t] = 1
  /\ pc[t] = "reenable_trap_handler" => step[t]
  /\ pc[t] \in Writing /\ job[t] = "reenable" =>
       eip[t] = "after" /\ handler = "trap_handler" /\ told[t] = 1
  /\ pc[t] = "return" /\ ~step[t] => eip[t] = "after" /\ (due[t] => told[t] = 1)
  /\ t \in passing /\ due[t] => armed

IInv == TypeOK /\ Exclusion /\ Consistent /\ \A t \in Threads : Fits(t)

-----------------------------------------------------------------------------
(* One lemma for each action: it keeps the invariant. *)

LEMMA CallKeeps ==
  ASSUME IInv, NEW t \in Threads, Call(t) PROVE IInv'
<1> USE DEF IInv, Call, Goto, patch, signals, context, ghosts, Handlers, Writing
<1>1. TypeOK'
  BY DEF TypeOK
<1>2. Exclusion'
  BY DEF TypeOK, Exclusion, Fits, Trapping, Enabling, Closing
<1>3. Consistent'
  BY DEF TypeOK, Exclusion, Consistent, Fits, Trapping, Enabling, Closing, Original, Restored, Rebuilding
<1>4. \A u \in Threads : Fits(u)'
  BY DEF TypeOK, Exclusion, Consistent, Fits, Trapping, Enabling, Closing, Original, Restored, Rebuilding
<1> QED BY <1>1, <1>2, <1>3, <1>4

LEMMA FetchInt3Keeps ==
  ASSUME IInv, NEW t \in Threads, FetchInt3(t) PROVE IInv'
<1> USE DEF IInv, FetchInt3, Goto, patch, signals, context, ghosts, Handlers, Writing
<1>0. ~step[t] /\ handler = "trap_handler" /\ \A u \in Threads : ~Original(u)
  <2>1. \A u \in Threads : ~Original(u)
    BY DEF Consistent
  <2>2. armed \/ \E u \in Threads : Closing(u)
    BY DEF Exclusion
  <2>3. \A u \in Threads : job[u] # "child"
    BY <2>2 DEF Exclusion, Fits, Enabling, Closing
  <2> QED BY <2>1, <2>2, <2>3 DEF Consistent, Original, Restored
<1>1. TypeOK'
  BY <1>0 DEF TypeOK
<1>2. Exclusion'
  BY <1>0 DEF TypeOK, Exclusion, Fits, Trapping, Enabling, Closing
<1>3. Consistent'
  BY <1>0 DEF TypeOK, Exclusion, Consistent, Fits, Trapping, Enabling, Closing, Original, Restored, Rebuilding
<1>4. \A u \in Threads : Fits(u)'
  BY <1>0 DEF TypeOK, Exclusion, Consistent, Fits, Trapping, Enabling, Closing, Original, Restored, Rebuilding
<1> QED BY <1>1, <1>2, <1>3, <1>4

LEMMA FetchOriginalKeeps ==
  ASSUME IInv, NEW t \in Threads, FetchOriginal(t) PROVE IInv'
<1> USE DEF IInv, FetchOriginal, Goto, patch, signals, context, ghosts, Handlers, Writing
<1>1. TypeOK'
  BY DEF TypeOK, Fits
<1>2. Exclusion'
  BY DEF TypeOK, Exclusion, Fits, Trapping, Enabling, Closing
<1>3. Consistent'
  BY DEF TypeOK, Exclusion, Consistent, Fits, Trapping, Enabling, Closing, Original, Restored, Rebuilding
<1>4. \A u \in Threads : Fits(u)'
  BY DEF TypeOK, Exclusion, Consistent, Fits, Trapping, Enabling, Closing, Original, Restored, Rebuilding
<1> QED BY <1>1, <1>2, <1>3, <1>4

LEMMA ReturnKeeps ==
  ASSUME IInv, NEW t \in Threads, Return(t) PROVE IInv'
<1> USE DEF IInv, Return, Goto, patch, signals, context, ghosts, Handlers, Writing
<1>1. TypeOK'
  BY DEF TypeOK
<1>2. Exclusion'
  BY DEF TypeOK, Exclusion, Fits, Trapping, Enabling, Closing
<1>3. Consistent'
  BY DEF TypeOK, Exclusion, Consistent, Fits, Trapping, Enabling, Closing, Original, Restored, Rebuilding
<1>4. \A u \in Threads : Fits(u)'
  BY DEF TypeOK, Exclusion, Consistent, Fits, Trapping, Enabling, Closing, Original, Restored, Rebuilding
<1> QED BY <1>1, <1>2, <1>3, <1>4

LEMMA SaveKeeps ==
  ASSUME IInv, NEW t \in Threads, Save(t) PROVE IInv'
<1> USE DEF IInv, Save, Goto, patch, signals, context, ghosts, Handlers, Writing
<1>1. TypeOK'
  BY DEF TypeOK
<1>2. Exclusion'
  BY DEF TypeOK, Exclusion, Fits, Trapping, Enabling, Closing
<1>3. Consistent'
  BY DEF TypeOK, Exclusion, Consistent, Fits, Trapping, Enabling, Closing, Original, Restored, Rebuilding
<1>4. \A u \in Threads : Fits(u)'
  BY DEF TypeOK, Exclusion, Consistent, Fits, Trapping, Enabling, Closing, Original, Restored, Rebuilding
<1> QED BY <1>1, <1>2, <1>3, <1>4

LEMMA WriteEnableKeeps ==
  ASSUME IInv, NEW t \in Threads, WriteEnable(t) PROVE IInv'
<1> USE DEF IInv, WriteEnable, Goto, patch, signals, context, ghosts, Handlers, Writing
<1>1. TypeOK'
  BY DEF TypeOK
<1>2. Exclusion'
  BY DEF TypeOK, Exclusion, Fits, Trapping, Enabling, Closing
<1>3. Consistent'
  BY DEF TypeOK, Exclusion, Consistent, Fits, Trapping, Enabling, Closing, Original, Restored, Rebuilding
<1>4. \A u \in Threads : Fits(u)'
  BY DEF TypeOK, Exclusion, Consistent, Fits, Trapping, Enabling, Closing, Original, Restored, Rebuilding
<1> QED BY <1>1, <1>2, <1>3, <1>4

LEMMA PatchKeeps ==
  ASSUME IInv, NEW t \in Threads, Patch(t) PROVE IInv'
<1> USE DEF IInv, Patch, Goto, patch, signals, context, ghosts, Handlers, Writing
<1>1. TypeOK'
  BY DEF TypeOK, Consistent
<1>2. Exclusion'
  BY DEF TypeOK, Exclusion, Fits, Trapping, Enabling, Closing
<1>3. Consistent'
  BY DEF TypeOK, Exclusion, Consistent, Fits, Trapping, Enabling, Closing, Original, Restored, Rebuilding
<1>4. \A u \in Threads : Fits(u)'
  BY DEF TypeOK, Exclusion, Consistent, Fits, Trapping, Enabling, Closing, Original, Restored, Rebuilding
<1> QED BY <1>1, <1>2, <1>3, <1>4

LEMMA WriteDisableKeeps ==
  ASSUME IInv, NEW t \in Threads, WriteDisable(t) PROVE IInv'
<1> USE DEF IInv, WriteDisable, Goto, patch, signals, context, ghosts, Handlers, Writing
<1>0. /\ job[t] \in {"ensure", "reenable", "trap", "child"}
      /\ pc' = [pc EXCEPT ![t] = IF job[t] = "ensure" THEN "away"
                               ELSE IF job[t] = "reenable" THEN "return"
                               ELSE IF job[t] = "trap" THEN "install" ELSE "ensure"]
  BY DEF TypeOK, Fits
<1>1. TypeOK'
  BY <1>0 DEF TypeOK
<1>2. Exclusion'
  <2>1. (passing = {u \in Threads : Trapping(u) \/ pc[u] \in {"fetch", "return"}})'
    BY <1>0 DEF TypeOK, Exclusion, Fits, Trapping, Enabling, Closing
  <2>2. (\A u, v \in passing : u = v)'
    BY <1>0 DEF TypeOK, Exclusion, Fits, Trapping, Enabling, Closing
  <2>3. (\A u, v \in Threads : Enabling(u) /\ Enabling(v) => u = v)'
    BY <1>0 DEF TypeOK, Exclusion, Fits, Trapping, Enabling, Closing
  <2>4. (\A u, v \in Threads : armed /\ Enabling(u) /\ u # v => pc[v] = "gone" /\ ~step[v])'
    BY <1>0 DEF TypeOK, Exclusion, Fits, Trapping, Enabling, Closing
  <2>5. armed' \/ \E u \in Threads : Closing(u)'
    <3>1. CASE armed \/ job[t] = "ensure"
      BY <3>1
    <3>2. CASE ~armed /\ job[t] # "ensure"
      <4>1. PICK u \in Threads : Closing(u)
        BY <1>0, <3>2 DEF Exclusion, Trapping
      <4> QED BY <1>0, <3>2, <4>1 DEF Closing, TypeOK
    <3> QED BY <3>1, <3>2 DEF TypeOK
  <2>6. (~armed => (\A u \in Threads : job[u] = "none") \/ \E u \in Threads : Enabling(u))'
    <3>1. ASSUME NEW u \in Threads, Closing(u), u # t PROVE Enabling(u)'
      <4>1. pc[u] = "close" /\ job[u] = "ensure" /\ job' = job /\ pc'[u] = pc[u]
        BY <1>0, <3>1 DEF Closing, TypeOK
      <4> QED BY <4>1 DEF Enabling
    <3>2. armed' \/ \E u \in Threads : Closing(u) /\ u # t
      BY <2>5 DEF Closing, TypeOK
    <3> QED BY <3>1, <3>2, Zenon
  <2> QED BY <2>1, <2>2, <2>3, <2>4, <2>5, <2>6 DEF Exclusion
<1>3. Consistent'
  BY <1>0 DEF TypeOK, Exclusion, Consistent, Fits, Trapping, Enabling, Closing, Original, Restored, Rebuilding
<1>4. \A u \in Threads : Fits(u)'
  BY <1>0 DEF TypeOK, Exclusion, Consistent, Fits, Trapping, Enabling, Closing, Original, Restored, Rebuilding
<1> QED BY <1>1, <1>2, <1>3, <1>4

LEMMA TrapHandlerKeeps ==
  ASSUME IInv, NEW t \in Threads, TrapHandler(t) PROVE IInv'
<1> USE DEF IInv, TrapHandler, Goto, patch, signals, context, ghosts, Handlers, Writing
<1>1. TypeOK'
  BY DEF TypeOK, Fits
<1>2. Exclusion'
  BY DEF TypeOK, Exclusion, Fits, Trapping, Enabling, Closing
<1>3. Consistent'
  BY DEF TypeOK, Exclusion, Consistent, Fits, Trapping, Enabling, Closing, Original, Restored, Rebuilding
<1>4. \A u \in Threads : Fits(u)'
  BY DEF TypeOK, Exclusion, Consistent, Fits, Trapping, Enabling, Closing, Original, Restored, Rebuilding
<1> QED BY <1>1, <1>2, <1>3, <1>4

LEMMA InstallReenableKeeps ==
  ASSUME IInv, NEW t \in Threads, InstallReenable(t) PROVE IInv'
<1> USE DEF IInv, InstallReenable, Goto, patch, signals, context, ghosts, Handlers, Writing
<1>1. TypeOK'
  BY DEF TypeOK
<1>2. Exclusion'
  BY DEF TypeOK, Exclusion, Fits, Trapping, Enabling, Closing
<1>3. Consistent'
  BY DEF TypeOK, Exclusion, Consistent, Fits, Trapping, Enabling, Closing, Original, Restored, Rebuilding
<1>4. \A u \in Threads : Fits(u)'
  BY DEF TypeOK, Exclusion, Consistent, Fits, Trapping, Enabling, Closing, Original, Restored, Rebuilding
<1> QED BY <1>1, <1>2, <1>3, <1>4

LEMMA ReenableKeeps ==
  ASSUME IInv, NEW t \in Threads, Reenable(t) PROVE IInv'
<1> USE DEF IInv, Reenable, Goto, patch, signals, context, ghosts, Handlers, Writing
<1>1. TypeOK'
  BY DEF TypeOK
<1>2. Exclusion'
  BY DEF TypeOK, Exclusion, Fits, Trapping, Enabling, Closing
<1>3. Consistent'
  BY DEF TypeOK, Exclusion, Consistent, Fits, Trapping, Enabling, Closing, Original, Restored, Rebuilding
<1>4. \A u \in Threads : Fits(u)'
  BY DEF TypeOK, Exclusion, Consistent, Fits, Trapping, Enabling, Closing, Original, Restored, Rebuilding
<1> QED BY <1>1, <1>2, <1>3, <1>4

LEMMA FirstEnsureKeeps ==
  ASSUME IInv, NEW t \in Threads, FirstEnsure(t) PROVE IInv'
<1> USE DEF IInv, FirstEnsure, Goto, patch, signals, context, ghosts, Handlers, Writing
<1>1. TypeOK'
  BY DEF TypeOK
<1>2. Exclusion'
  <2>1. (passing = {u \in Threads : Trapping(u) \/ pc[u] \in {"fetch", "return"}})'
    BY DEF TypeOK, Exclusion, Fits, Trapping, Enabling, Closing
  <2>2. (\A u, v \in passing : u = v)'
    BY DEF TypeOK, Exclusion, Fits, Trapping, Enabling, Closing
  <2>3. (\A u, v \in Threads : Enabling(u) /\ Enabling(v) => u = v)'
    BY DEF TypeOK, Exclusion, Fits, Trapping, Enabling, Closing
  <2>4. (\A u, v \in Threads : armed /\ Enabling(u) /\ u # v => pc[v] = "gone" /\ ~step[v])'
    BY DEF TypeOK, Exclusion, Fits, Trapping, Enabling, Closing
  <2>5. (~armed => (\A u \in Threads : job[u] = "none") \/ \E u \in Threads : Enabling(u))'
    BY DEF TypeOK, Exclusion, Fits, Trapping, Enabling, Closing
  <2>6. (~armed /\ (\A u \in Threads : ~Closing(u)) =>
           text = "original" /\ \A u \in Threads : ~Trapping(u) /\ job[u] # "child")'
    BY DEF TypeOK, Exclusion, Fits, Trapping, Enabling, Closing
  <2> QED BY <2>1, <2>2, <2>3, <2>4, <2>5, <2>6 DEF Exclusion
<1>3. Consistent'
  BY DEF TypeOK, Exclusion, Consistent, Fits, Trapping, Enabling, Closing, Original, Restored, Rebuilding
<1>4. \A u \in Threads : Fits(u)'
  BY DEF TypeOK, Exclusion, Consistent, Fits, Trapping, Enabling, Closing, Original, Restored, Rebuilding
<1> QED BY <1>1, <1>2, <1>3, <1>4

LEMMA EnsureKeeps ==
  ASSUME IInv, NEW t \in Threads, Ensure(t) PROVE IInv'
<1> USE DEF IInv, Ensure, Goto, patch, signals, context, ghosts, Handlers, Writing
<1>1. TypeOK'
  BY DEF TypeOK
<1>2. Exclusion'
  BY DEF TypeOK, Exclusion, Fits, Trapping, Enabling, Closing
<1>3. Consistent'
  BY DEF TypeOK, Exclusion, Consistent, Fits, Trapping, Enabling, Closing, Original, Restored, Rebuilding
<1>4. \A u \in Threads : Fits(u)'
  BY DEF TypeOK, Exclusion, Consistent, Fits, Trapping, Enabling, Closing, Original, Restored, Rebuilding
<1> QED BY <1>1, <1>2, <1>3, <1>4

LEMMA ForkKeeps ==
  ASSUME IInv, NEW t \in Threads, Fork(t) PROVE IInv'
<1> USE DEF IInv, Fork, Goto, patch, signals, context, ghosts, Handlers, Writing
<1>1. TypeOK'
  BY BreakpointAssumption DEF TypeOK
<1>2. Exclusion'
  BY DEF TypeOK, Exclusion, Fits, Trapping, Enabling, Closing
<1>3. Consistent'
  BY DEF TypeOK, Exclusion, Consistent, Fits, Trapping, Enabling, Closing, Original, Restored, Rebuilding
<1>4. \A u \in Threads : Fits(u)'
  BY DEF TypeOK, Exclusion, Consistent, Fits, Trapping, Enabling, Closing, Original, Restored, Rebuilding
<1> QED BY <1>1, <1>2, <1>3, <1>4

LEMMA InitInvariant == Init => IInv
<1> SUFFICES ASSUME Init PROVE IInv
  OBVIOUS
<1> USE DEF Init, Trapping, Enabling, Closing, Writing, Handlers
<1>1. TypeOK
  <2>1. forks \in 0 .. MaxForks
    BY BreakpointAssumption
  <2> QED BY <2>1 DEF TypeOK
<1>2. Exclusion
  BY DEF Exclusion
<1>3. Consistent
  BY DEF Consistent, Original, Restored, Rebuilding
<1>4. \A t \in Threads : Fits(t)
  BY DEF Fits
<1> QED BY <1>1, <1>2, <1>3, <1>4 DEF IInv

LEMMA NextInvariant == IInv /\ [Next]_vars => IInv'
<1> SUFFICES ASSUME IInv, [Next]_vars PROVE IInv'
  OBVIOUS
<1>1. ASSUME NEW t \in Threads, Step(t) PROVE IInv'
  BY <1>1, FetchInt3Keeps, FetchOriginalKeeps, ReturnKeeps, SaveKeeps, WriteEnableKeeps,
     PatchKeeps, WriteDisableKeeps, TrapHandlerKeeps, InstallReenableKeeps, ReenableKeeps,
     EnsureKeeps DEF Step
<1>2. CASE UNCHANGED vars
  BY <1>2 DEF vars, patch, signals, context, ghosts, IInv, TypeOK, Exclusion, Consistent,
              Fits, Trapping, Enabling, Closing, Original, Restored, Rebuilding
<1> QED BY <1>1, <1>2, CallKeeps, FirstEnsureKeeps, ForkKeeps DEF Next

LEMMA Invariance == Spec => []IInv
BY InitInvariant, NextInvariant, PTL DEF Spec

\* Whatever the threads do, and wherever the fork finds them: once it is armed,
\* the byte that will be put back is the program's own.
THEOREM OriginalIsSaved == Spec => []SavedIsOriginal
<1>1. IInv => SavedIsOriginal
  BY DEF IInv, Consistent, SavedIsOriginal
<1> QED BY <1>1, Invariance, PTL

\* The handlers leave the breakpoint in the text, the first handler installed,
\* the page without its write permission and no thread stepping.
THEOREM HandlersRearm == Spec => []RearmedAfterwards
<1>1. IInv => RearmedAfterwards
  BY DEF IInv, TypeOK, Exclusion, Consistent, Fits, Enabling, Trapping, Closing, Original,
         Restored, Rebuilding, Writing, Handlers, RearmedAfterwards
<1> QED BY <1>1, Invariance, PTL

\* The second handler runs behind the original instruction only, and no handler
\* returns into the middle of an instruction.
THEOREM ReturnsAtInstructions == Spec => []AtInstructions
<1>1. IInv => AtInstructions
  BY DEF IInv, TypeOK, Fits, AtInstructions
<1> QED BY <1>1, Invariance, PTL

\* A call of r_brk that found the breakpoint armed reaches trap_handler once,
\* and one that did not at most once.
THEOREM ReportedOnce == Spec => ToldOnce
<1> DEFINE Once(t) == t \in passing /\ t \notin passing' /\ pc'[t] = "away"
                        => told[t] =< 1 /\ (due[t] => told[t] = 1)
<1>1. ASSUME IInv, [Next]_vars, NEW t \in Threads PROVE Once(t)
  <2>1. told[t] =< 1
    BY <1>1 DEF IInv, TypeOK
  <2>2. ASSUME NEW u \in Threads, Return(u) PROVE Once(t)
    BY <1>1, <2>1, <2>2 DEF Return, Goto, IInv, TypeOK, Fits
  <2>3. ASSUME NEW u \in Threads, Fork(u) PROVE Once(t)
    BY <1>1, <2>3 DEF Fork, IInv, TypeOK
  <2>4. CASE passing \subseteq passing'
    BY <2>4
  <2>5. (\A u \in Threads : ~Return(u) /\ ~Fork(u)) => passing \subseteq passing'
    BY <1>1 DEF Next, Step, Call, FetchInt3, FetchOriginal, Save, WriteEnable, Patch,
       WriteDisable, TrapHandler, InstallReenable, Reenable, FirstEnsure, Ensure, ghosts, vars
  <2> QED BY <2>2, <2>3, <2>4, <2>5
<1>2. IInv /\ [Next]_vars => [\A t \in Threads : Once(t)]_vars
  BY <1>1
<1> QED BY <1>2, Invariance, PTL DEF Spec, ToldOnce
================================================================================
