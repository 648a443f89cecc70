---------------------------- MODULE WatchedTask ----------------------------
(***************************************************************************)
(* The program and the kernel underneath the code finder and the tracer:   *)
(* what their ptrace and waitpid calls act on, one memory page that may be *)
(* guarded, and one debug register slot per thread.  Not code of the       *)
(* repository; modelled from the requests code_finder.cpp and tracer.cpp   *)
(* make and from what their comments rely on:                              *)
(*  - an interrupt stop is reported before a trap already queued, and any  *)
(*    stop clears a pending interrupt;                                     *)
(*  - a synchronous trap is dequeued before other signals;                 *)
(*  - a traced clone is reported by the parent, and its child starts in a  *)
(*    stop of its own, traced, without debug registers;                    *)
(*  - exec kills the siblings, waits until their tracer has reaped them,   *)
(*    and continues as the leader in a new image, stopped;                 *)
(*  - x86 reports a watched access after it, ARM64 before it; an execute   *)
(*    breakpoint is always reported before the instruction.                *)
(* Job control (group stops) is left out.                                  *)
(***************************************************************************)
EXTENDS Integers, Sequences, FiniteSets

CONSTANTS
    Tid,      \* thread ids the program can ever have
    Leader,   \* the thread group leader
    Sig,      \* signals of the program
    None,
    Scenarios \* what may happen, and how the tools are used

\* fault: a request is refused; start, stop, trace, cancel: calls of the tools.
Events == {"clone", "exit", "kill", "exec", "signal", "touch", "near", "reach", "deep", "fault",
           "start", "stop", "trace", "cancel"}

ASSUME WatchedConstants ==
    /\ Leader \in Tid /\ None \notin Tid \cup Sig
    /\ Sig \cap {"hw", "fault", "near", "step", "event", "clone", "exec"} = {}

VARIABLES
    task,  \* the kernel's view of each thread
    page,  \* "open" or "guard": the protection of the watched page
    sent,  \* history: <<tid, signal>> sent to the program
    got,   \* history: <<tid, signal>> delivered to the program
    left   \* the events still allowed in this scenario

kernelVars == <<task, page, sent, got, left>>

\* Synchronous signals the tools cause: a debug register, the guarded page
\* (on the watched bytes, or next to them), a single step.
Traps == {"hw", "fault", "near", "step"}

NewTask ==
    [st |-> "none",   \* none, run, stop, exec, zombie, gone
     by |-> None,     \* the tool that traces it
     why |-> None,    \* of the stop
     msg |-> None,    \* PTRACE_GETEVENTMSG: the child
     rep |-> FALSE,   \* waitpid has something to report
     intr |-> FALSE,  \* PTRACE_INTERRUPT pending
     tf |-> FALSE,    \* resumed by PTRACE_SINGLESTEP
     hw |-> FALSE,    \* a tool's debug register slot is armed
     at |-> None,     \* the access it was stopped at and will make again
     trap |-> None,   \* synchronous signal queued
     sigs |-> {}]     \* other signals queued

Gone == [NewTask EXCEPT !.st = "gone"]

Spend(e) == left[e] > 0 /\ left' = [left EXCEPT ![e] = @ - 1]

\* A request that may be refused.
Try(ok) == IF ok THEN UNCHANGED left ELSE Spend("fault")

Alive(t) == task[t].st \in {"run", "stop", "exec"}

-----------------------------------------------------------------------------
(* Requests of a tracer, as functions of the kernel state.                 *)

Enter(k, t, why, msg) ==
    [k EXCEPT ![t] = [@ EXCEPT !.st = "stop", !.why = why, !.msg = msg, !.rep = TRUE,
                               !.intr = FALSE, !.tf = FALSE]]

Resume(k, t, step) ==
    [k EXCEPT ![t] = IF @.st # "stop" THEN @
                     ELSE [@ EXCEPT !.st = "run", !.why = None, !.rep = FALSE, !.tf = step]]

Seize(k, t, tool) == [k EXCEPT ![t] = [@ EXCEPT !.by = tool, !.intr = TRUE]]

Interrupt(k, t) == [k EXCEPT ![t].intr = @ \/ k[t].st \in {"run", "exec"}]

Release(k, t) == [Resume(k, t, FALSE) EXCEPT ![t].by = None, ![t].intr = FALSE, ![t].tf = FALSE]

\* waitpid: the report is taken; a dead thread is gone with it.
Reap(k, t) ==
    [k EXCEPT ![t] = IF @.st = "zombie" THEN Gone ELSE [@ EXCEPT !.rep = FALSE]]

\* A dead leader is reported after its dead siblings have been reaped.
Reported(t) ==
    task[t].rep /\ ~(t = Leader /\ task[t].st = "zombie"
                     /\ \E u \in Tid \ {t} : task[u].st = "zombie")

\* The death nobody reaps: an exec waits for it, or the leader's report does.
Unreaped ==
    /\ \E t \in Tid : task[t].st = "exec" \/ (t = Leader /\ task[t].st = "zombie")
    /\ \E t \in Tid \ {Leader} : task[t].st = "zombie"

\* What a resume or a detach delivers.  A trap of the tools ends the program.
Delivered(t, s) == IF s = None THEN got ELSE got \cup {<<t, s>>}

-----------------------------------------------------------------------------
(* Steps of the program.                                                   *)

KernelInit(start) ==
    /\ task = [t \in Tid |-> [NewTask EXCEPT !.st = IF t \in start THEN "run" ELSE "none"]]
    /\ page = "open" /\ sent = {} /\ got = {}

Executes(t) == task[t].st = "run" /\ task[t].trap = None
Free(t) == Executes(t) /\ task[t].at = None

\* What the thread does next, the access it was stopped at first.
Accesses(t, what) ==
    /\ Executes(t)
    /\ \/ task[t].at = what /\ UNCHANGED left
       \/ task[t].at = None /\ Spend(what)

\* Any instruction that is stepped.
Work(t) ==
    /\ Free(t) /\ task[t].tf
    /\ task' = [task EXCEPT ![t].trap = "step", ![t].tf = FALSE]
    /\ UNCHANGED <<page, sent, got, left>>

\* A traced thread on its way to user mode stops for what is pending.
TakeStop(t) ==
    LET k == task[t]
    IN /\ k.st = "run" /\ k.by # None
       /\ \/ k.intr /\ task' = Enter(task, t, "event", None)
          \/ /\ ~k.intr /\ k.trap # None
             /\ task' = Enter([task EXCEPT ![t].trap = None], t, k.trap, None)
          \/ /\ ~k.intr /\ k.trap = None
             /\ \E s \in k.sigs : task' = Enter([task EXCEPT ![t].sigs = @ \ {s}], t, s, None)
       /\ UNCHANGED <<page, sent, got, left>>

\* An untraced one takes its signals; a trap of the tools kills the program.
TakeSignal(t) ==
    LET k == task[t]
    IN /\ k.st = "run" /\ k.by = None
       /\ \/ /\ k.trap # None
             /\ got' = got \cup {<<t, k.trap>>}
             /\ task' = [u \in Tid |-> [task[u] EXCEPT !.st = IF @ = "none" THEN @ ELSE "gone"]]
          \/ /\ k.trap = None
             /\ \E s \in k.sigs : /\ got' = got \cup {<<t, s>>}
                                  /\ task' = [task EXCEPT ![t].sigs = @ \ {s}]
       /\ UNCHANGED <<page, sent, left>>

Signal(t, s) ==
    /\ Alive(t) /\ <<t, s>> \notin sent /\ Spend("signal")
    /\ sent' = sent \cup {<<t, s>>}
    /\ task' = [task EXCEPT ![t].sigs = @ \cup {s}]
    /\ UNCHANGED <<page, got>>

\* traced: the parent's tracer asked for PTRACE_O_TRACECLONE.
Clone(t, c, traced) ==
    /\ Free(t) /\ ~task[t].tf /\ task[c].st = "none" /\ Spend("clone")
    /\ task' = IF task[t].by # None /\ traced
               THEN Enter(Enter([task EXCEPT ![c].by = task[t].by], c, "event", None), t, "clone", c)
               ELSE [task EXCEPT ![c].st = "run"]
    /\ UNCHANGED <<page, sent, got>>

Die(k, S) ==
    [t \in Tid |-> IF t \notin S THEN k[t]
                   ELSE IF k[t].by = None THEN Gone
                   ELSE [NewTask EXCEPT !.st = "zombie", !.by = k[t].by, !.rep = TRUE]]

\* pthread_exit of a thread other than the leader.
Exit(t) ==
    /\ t # Leader /\ Free(t) /\ Spend("exit")
    /\ task' = Die(task, {t})
    /\ UNCHANGED <<page, sent, got>>

Kill ==
    /\ (\E t \in Tid : Alive(t)) /\ Spend("kill")
    /\ task' = Die(task, {t \in Tid : Alive(t)})
    /\ UNCHANGED <<page, sent, got>>

\* The leader of an exec'ing thread is dead but never reported.
Exec(t) ==
    /\ Free(t) /\ Spend("exec")
    /\ LET k == Die(task, {u \in Tid \ {t} : Alive(u)})
       IN task' = [u \in Tid |-> IF u = t THEN [task[t] EXCEPT !.st = "exec"]
                                 ELSE [k[u] EXCEPT !.rep = @ /\ u # Leader]]
    /\ UNCHANGED <<page, sent, got>>

ExecDone(t) ==
    /\ task[t].st = "exec"
    /\ \A u \in Tid \ {t, Leader} : task[u].st \in {"none", "gone"}
    /\ LET k == [task EXCEPT ![t] = Gone,
                             ![Leader] = [NewTask EXCEPT !.st = "run", !.by = task[t].by,
                                                         !.sigs = task[t].sigs]]
       IN task' = IF task[t].by = None THEN k ELSE Enter(k, Leader, "exec", t)
    /\ page' = "open"
    /\ sent' = {Leader} \X task[t].sigs
    /\ got' = {g \in got : g[2] \in Traps}
    /\ UNCHANGED left

\* The steps both tools see; the accesses they watch for are theirs.
KernelNext(traced) ==
    \/ \E t \in Tid :
        \/ Work(t) \/ TakeStop(t) \/ TakeSignal(t) \/ Exit(t) \/ Exec(t) \/ ExecDone(t)
        \/ \E s \in Sig : Signal(t, s)
        \/ \E c \in Tid : Clone(t, c, traced)
    \/ Kill
=============================================================================
