----------------------------- MODULE PtraceTask -----------------------------
(***************************************************************************)
(* The target program and the Linux kernel underneath DebugSession: what   *)
(* the tracer's ptrace and waitpid calls act on.  None of this is code of  *)
(* the repository; it is modelled from the requests debug_session.cpp      *)
(* makes and the facts its comments rely on:                               *)
(*  - a PTRACE_INTERRUPT stop is reported before a trap already queued;    *)
(*  - an interrupt sent to a stopped task stays pending and any later stop *)
(*    clears it;                                                           *)
(*  - a synchronous trap is dequeued before other signals;                 *)
(*  - the child of a traced clone is traced and starts in an event stop;   *)
(*  - exec removes the sibling threads and gives the survivor the leader's *)
(*    tid, stopped;                                                        *)
(*  - every dying traced thread stops once more (PTRACE_EVENT_EXIT);       *)
(*  - a launcher thread may consume a report; the stop remains.            *)
(***************************************************************************)
EXTENDS Integers, Sequences, FiniteSets

CONSTANTS
    Tid,      \* thread ids the target can ever have
    Leader,   \* the thread group leader's tid (pid_)
    Start,    \* the threads running before anything is attached
    Addr,     \* instruction addresses the target executes
    Sig,      \* asynchronous signals (timers, SIGCHLD, Wine suspends)
    None,     \* no thread, address or signal
    Budgets   \* scenarios: how often each environment event may happen

EventKinds == {"signal", "clone", "exit", "kill", "exec", "setuid", "fault", "steal",
               "rewrite", "op"}

ASSUME TaskConstants ==
    /\ Leader \in Start /\ Start \subseteq Tid
    /\ None \notin Tid \cup Addr \cup Sig
    /\ Budgets \subseteq [EventKinds -> Nat] /\ Budgets # {}

\* The kinds of ptrace stop, beside delivery stops of a signal of the target:
\* interrupt, breakpoint trap, single-step trap, and the traced events.
StopKinds == {"event", "brk", "step", "clone", "exec", "exit"}

ASSUME SigConstants == Sig \cap StopKinds = {}

VARIABLES
    task,   \* the kernel's view of each thread
    code,   \* what is at each address: original code, our trap, other code
    sent,   \* history: <<tid, signal>> sent to the program
    got,    \* history: <<tid, signal>> delivered to the program
    left    \* the environment events still allowed in this scenario

taskVars == <<task, code, sent, got, left>>

Task == [st   : {"none", "run", "stop", "exec", "zombie", "gone"},
         ip   : Addr,                   \* next instruction
         past : BOOLEAN,                \* IP is one byte past a trap at ip
         trap : {"none", "brk", "step"},\* SIGTRAP queued, not yet delivered
         sigs : SUBSET Sig,             \* asynchronous signals queued
         intr : BOOLEAN,                \* PTRACE_INTERRUPT pending
         tf   : BOOLEAN,                \* resumed by PTRACE_SINGLESTEP
         mine : BOOLEAN,                \* traced by the session
         why  : StopKinds \cup Sig \cup {None},
         rep  : {"no", "new", "stolen"},\* report available to waitpid
         msg  : Tid \cup {None}]        \* PTRACE_GETEVENTMSG

Spend(kind) == left[kind] > 0 /\ left' = [left EXCEPT ![kind] = @ - 1]

\* Neither dead nor on its way out.
Alive(t) == task[t].st \in {"run", "stop", "exec"} /\ task[t].why # "exit"

-----------------------------------------------------------------------------
(* Requests of the tracer, as functions of the kernel state.               *)

\* t enters a ptrace stop; any stop clears a pending interrupt.
Enter(k, t, why, msg) ==
    [k EXCEPT ![t] = [@ EXCEPT !.st = "stop", !.why = why, !.rep = "new",
                               !.intr = FALSE, !.tf = FALSE, !.msg = msg]]

\* PTRACE_CONT or PTRACE_SINGLESTEP.  An exit stop cannot be undone.
Resume(k, t, step) ==
    [k EXCEPT ![t] =
        IF @.why = "exit" THEN [@ EXCEPT !.st = "zombie", !.rep = "new"]
        ELSE [@ EXCEPT !.st = "run", !.why = None, !.rep = "no", !.tf = step]]

\* waitpid returned the report, or the stop was found by PTRACE_GETSIGINFO.
Reap(k, t) == [k EXCEPT ![t].rep = "no"]

\* PTRACE_INTERRUPT.
Interrupt(k, t) == [k EXCEPT ![t].intr = @ \/ k[t].st \in {"run", "stop", "exec"}]

\* The task is released for good: reaped, or detached at its exit stop.
Release(k, t) == [k EXCEPT ![t] = [@ EXCEPT !.st = "gone", !.why = None, !.rep = "no"]]

\* PTRACE_DETACH of every task in S, or the tracer's own exit.
Detach(k, S) ==
    [t \in Tid |->
        IF t \notin S THEN k[t]
        ELSE [k[t] EXCEPT !.mine = FALSE, !.intr = FALSE, !.tf = FALSE, !.rep = "no", !.why = None,
                          !.st = IF @ \in {"zombie", "gone"} \/ k[t].why = "exit"
                                 THEN "gone" ELSE "run"]]

-----------------------------------------------------------------------------
(* Steps of the target program and of the kernel.                          *)

TaskInit ==
    /\ \E a \in Addr :
        task = [t \in Tid |->
                  [st |-> IF t \in Start THEN "run" ELSE "none", ip |-> a, past |-> FALSE,
                   trap |-> "none", sigs |-> {}, intr |-> FALSE, tf |-> FALSE,
                   mine |-> FALSE, why |-> None, rep |-> "no", msg |-> None]]
    /\ code = [a \in Addr |-> "orig"]
    /\ sent = {} /\ got = {}
    /\ left \in Budgets

\* In user mode, about to execute the instruction at ip.
CanExecute(t) == task[t].st = "run" /\ task[t].trap = "none" /\ ~task[t].past

\* One instruction: the original code moves on (and traps if single-stepped);
\* our trap queues SIGTRAP with IP one byte past it.
Execute(t) ==
    /\ CanExecute(t) /\ code[task[t].ip] # "trap"
    /\ \E b \in Addr :
        task' = [task EXCEPT ![t] = [@ EXCEPT !.ip = b,
                    !.trap = IF task[t].tf THEN "step" ELSE "none"]]
    /\ UNCHANGED <<code, sent, got, left>>

ExecuteTrap(t) ==
    /\ CanExecute(t) /\ code[task[t].ip] = "trap"
    /\ task' = [task EXCEPT ![t] = [@ EXCEPT !.past = TRUE, !.trap = "brk"]]
    /\ UNCHANGED <<code, sent, got, left>>

\* A traced task on its way back to user mode stops for what is pending, in
\* the kernel's order: interrupt, synchronous trap, other signals.
TakeStop(t) ==
    LET k == task[t]
    IN /\ k.st = "run" /\ k.mine
       /\ \/ k.intr /\ task' = Enter(task, t, "event", None)
          \/ /\ ~k.intr /\ k.trap # "none"
             /\ task' = Enter([task EXCEPT ![t].trap = "none"], t, k.trap, None)
          \/ /\ ~k.intr /\ k.trap = "none"
             /\ \E s \in k.sigs :
                 task' = Enter([task EXCEPT ![t].sigs = @ \ {s}], t, s, None)
       /\ UNCHANGED <<code, sent, got, left>>

\* An untraced task takes its signals itself; a trap of the debugger's
\* ends the program.
TakeSignal(t) ==
    LET k == task[t]
    IN /\ k.st = "run" /\ ~k.mine
       /\ \/ /\ k.trap # "none"
             /\ got' = got \cup {<<t, k.trap>>}
             /\ task' = [u \in Tid |-> [task[u] EXCEPT !.st = IF @ = "none" THEN @ ELSE "gone"]]
          \/ /\ k.trap = "none"
             /\ \E s \in k.sigs : /\ got' = got \cup {<<t, s>>}
                                  /\ task' = [task EXCEPT ![t].sigs = @ \ {s}]
       /\ UNCHANGED <<code, sent, left>>

\* A signal is sent to a thread; each signal once per thread.
Signal(t, s) ==
    /\ Alive(t) /\ <<t, s>> \notin sent
    /\ Spend("signal")
    /\ sent' = sent \cup {<<t, s>>}
    /\ task' = [task EXCEPT ![t].sigs = @ \cup {s}]
    /\ UNCHANGED <<code, got>>

\* A thread creates another one: traced if its parent is.
Clone(t, c) ==
    /\ CanExecute(t) /\ code[task[t].ip] # "trap" /\ task[c].st = "none"
    /\ Spend("clone")
    /\ \E b \in Addr :
        LET moved == [task EXCEPT ![t].ip = b, ![c].ip = b, ![c].mine = task[t].mine]
        IN task' = IF task[t].mine
                   THEN Enter(Enter(moved, c, "event", None), t, "clone", c)
                   ELSE [moved EXCEPT ![c].st = "run"]
    /\ UNCHANGED <<code, sent, got>>

\* The threads of S die; the traced ones stop once more to say so.
Die(k, S) ==
    [t \in Tid |-> IF t \notin S THEN k[t]
                   ELSE IF k[t].mine THEN Enter(k, t, "exit", None)[t]
                   ELSE Release(k, t)[t]]

\* pthread_exit.
Exit(t) ==
    /\ CanExecute(t) /\ code[task[t].ip] # "trap"
    /\ Spend("exit")
    /\ task' = Die(task, {t})
    /\ UNCHANGED <<code, sent, got>>

\* SIGKILL from outside, stopped threads included.
Kill ==
    /\ Spend("kill")
    /\ \E t \in Tid : Alive(t)
    /\ task' = Die(task, {t \in Tid : Alive(t)})
    /\ UNCHANGED <<code, sent, got>>

\* execve by a traced thread: its siblings die, and when they are released ...
Exec(t) ==
    /\ CanExecute(t) /\ code[task[t].ip] # "trap" /\ task[t].mine
    /\ Spend("exec")
    /\ task' = [Die(task, {u \in Tid \ {t} : Alive(u)}) EXCEPT ![t].st = "exec"]
    /\ UNCHANGED <<code, sent, got>>

\* ... it continues as the leader, in a new image, stopped.
ExecDone(t) ==
    /\ task[t].st = "exec"
    /\ \A u \in Tid \ {t} : task[u].st \in {"none", "gone"}
    /\ task' = Enter([task EXCEPT ![t].st = "gone", ![t].sigs = {},
                                  ![Leader] = [task[t] EXCEPT !.tf = FALSE]],
                     Leader, "exec", t)
    /\ code' = [a \in Addr |-> "orig"]
    /\ UNCHANGED <<sent, got, left>>

\* Another thread of the launcher consumes the report; the stop remains.
Steal(t) ==
    /\ task[t].st = "stop" /\ task[t].rep = "new"
    /\ Spend("steal")
    /\ task' = [task EXCEPT ![t].rep = "stolen"]
    /\ UNCHANGED <<code, sent, got>>

\* Running code (a JIT, a module unload) replaces what is at an address.
Rewrite(a) ==
    /\ \E t \in Tid : CanExecute(t)
    /\ Spend("rewrite")
    /\ code' = [code EXCEPT ![a] = "other"]
    /\ UNCHANGED <<task, sent, got>>

TaskNext ==
    \/ \E t \in Tid : \/ Execute(t) \/ ExecuteTrap(t) \/ TakeStop(t) \/ TakeSignal(t)
                      \/ Exit(t) \/ Exec(t) \/ ExecDone(t) \/ Steal(t)
                      \/ \E s \in Sig : Signal(t, s)
                      \/ \E c \in Tid : Clone(t, c)
    \/ \E a \in Addr : Rewrite(a)
    \/ Kill

TaskTypeOK ==
    /\ task \in [Tid -> Task]
    /\ code \in [Addr -> {"orig", "trap", "other"}]
    /\ sent \subseteq Tid \X Sig
    /\ got \subseteq Tid \X (Sig \cup {"brk", "step"})
    /\ left \in [EventKinds -> Nat]
=============================================================================
