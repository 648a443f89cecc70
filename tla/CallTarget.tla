------------------------------ MODULE CallTarget ------------------------------
(***************************************************************************)
(* The process whose threads the native call owner borrows, and the part   *)
(* of the kernel's ptrace the owner relies on.  None of it is code of the  *)
(* repository: it is what platform/linux/call_service.cpp,                 *)
(* syscall_service.cpp and target_syscall.cpp meet.                        *)
(*                                                                         *)
(* A traced thread that dies stays a zombie until its tracer waits for it, *)
(* an exec waits for its siblings' zombies to be reaped (not for the       *)
(* leader's), and the program that was executed takes the leader's thread  *)
(* id and, when its thread was traced, stands in an exec stop under it.    *)
(***************************************************************************)
EXTENDS Naturals, FiniteSets, FiniteSetsExt

CONSTANTS
    Threads,    \* the program's threads
    Leader,     \* the one whose id is the process id
    None,       \* no thread, no call
    Calls,      \* native calls, numbered in the order they are made
    Frames,     \* places a private mapping can be put at
    Budgets     \* how often each kind of event may happen, one per scenario

(* What may happen to the program and the calls, and how often is bounded. *)
Events == {"fault", "slow", "busy", "signal", "exit", "quit", "exec", "kill",
           "park", "call", "resume", "map", "free", "stop"}

ASSUME TargetConstants ==
    /\ Leader \in Threads
    /\ None \notin Threads
    /\ Calls \subseteq Nat \ {0}
    /\ Frames \subseteq Nat \ {0} /\ Frames # {}
    /\ Budgets \subseteq [Events -> Nat]

VARIABLES
    thr,    \* per thread: alive or not, traced or not, whose registers it has
    proc,   \* what the threads share: the image, its private mappings,
            \* pthread handles and the workers started for calls
    left    \* what may still happen

(* What can be called: a function, pthread_create, or pthread_create with  *)
(* the owner's wrapper as its entry.                                       *)
Kinds == {"plain", "thread", "worker"}

(* Private mappings, handles and worker threads belong to one image.       *)
NoHandles == [k \in Calls |-> "none"]

Thread == [life : {"run", "park", "zombie", "gone"},
           hold : {"free", "seized", "stopped"},
           regs : {"own", "lent", "call", "trap", "sig", "exec"},
           fn   : Kinds \cup {"none", "orphan"},
           k    : Calls \cup {0},
           frame : Frames \cup {0},
           val  : {"none", "ok", "bad"}]

Process == [live   : BOOLEAN,
            image  : {1, 2},
            mapped : SUBSET Frames,
            theirs : SUBSET Frames,
            execing : Threads \cup {None},
            handle : [Calls -> {"none", "live", "done"}],
            worker : [Calls -> {"none", "ready", "run", "cancel", "exit"}],
            wframe : [Calls -> Frames \cup {0}],
            code   : [Calls -> BOOLEAN]]

FreshThread == [life |-> "run", hold |-> "free", regs |-> "own",
                fn |-> "none", k |-> 0, frame |-> 0, val |-> "none"]

TargetInit ==
    /\ thr = [t \in Threads |-> FreshThread]
    /\ proc = [live |-> TRUE, image |-> 1, mapped |-> {}, theirs |-> {},
               execing |-> None, wframe |-> [k \in Calls |-> 0],
               handle |-> NoHandles, worker |-> NoHandles,
               code |-> [k \in Calls |-> TRUE]]
    /\ left \in Budgets

TargetTypeOK ==
    /\ thr \in [Threads -> Thread]
    /\ proc \in Process
    /\ left \in [Events -> Nat]

Spend(e) == left[e] > 0 /\ left' = [left EXCEPT ![e] = @ - 1]

Alive(t) == thr[t].life \in {"run", "park"}

(* What is left of a thread that died: its tracer must reap it.            *)
Died(th) == [th EXCEPT !.life = IF th.hold = "free" THEN "gone" ELSE "zombie"]

(* Waiting for a dead thread removes it and ends its tracing; the leader's *)
(* death is not reported while another thread of the process lives.        *)
Reaped == [FreshThread EXCEPT !.life = "gone"]

Reapable(t) ==
    thr[t].life = "zombie" /\ (t = Leader => \A u \in Threads \ {t} : ~Alive(u))

Waited(t) == IF Reapable(t) THEN [thr EXCEPT ![t] = Reaped] ELSE thr

Park(t) ==
    /\ thr[t].life = "run" /\ thr[t].hold = "free" /\ proc.execing = None
    /\ Spend("park")
    /\ thr' = [thr EXCEPT ![t].life = "park"]
    /\ UNCHANGED proc

Unpark(t) ==
    /\ thr[t].life = "park" /\ proc.execing = None
    /\ thr' = [thr EXCEPT ![t].life = "run"]
    /\ UNCHANGED <<proc, left>>

(* It executes the program's code or a function of the program's it was    *)
(* lent for; creating and detaching threads neither ends nor replaces it.  *)
Runs(t) ==
    /\ thr[t].life = "run" /\ thr[t].hold # "stopped"
    /\ thr[t].regs = "own" \/ (thr[t].regs = "call" /\ thr[t].fn = "plain")

(* A thread ends by itself.                                                *)
ThreadExit(t) ==
    /\ Runs(t)
    /\ proc.execing = None
    /\ \E u \in Threads \ {t} : Alive(u)
    /\ Spend(IF thr[t].regs = "own" THEN "exit" ELSE "quit")
    /\ thr' = [thr EXCEPT ![t] = Died(@)]
    /\ UNCHANGED proc

Kill ==
    /\ proc.live
    /\ Spend("kill")
    /\ thr' = [t \in Threads |->
                 IF thr[t].life = "gone" THEN thr[t] ELSE Died(thr[t])]
    /\ proc' = [proc EXCEPT !.live = FALSE, !.mapped = {}, !.execing = None,
                            !.handle = NoHandles,
                            !.worker = [k \in Calls |->
                              IF @[k] = "none" THEN "none" ELSE "exit"]]

(* exec kills the other threads at once and then waits until they are      *)
(* reaped; only then is the image replaced.  The new program may put a     *)
(* mapping of its own where a private frame of the old one was.            *)
ExecStart(t) ==
    /\ proc.live /\ proc.execing = None /\ proc.image = 1
    /\ Runs(t)
    /\ Spend("exec")
    /\ thr' = [u \in Threads |->
                 IF u = t THEN [thr[u] EXCEPT !.life = "park"]
                 ELSE IF thr[u].life = "gone" THEN thr[u] ELSE Died(thr[u])]
    /\ proc' = [proc EXCEPT !.execing = t,
                            !.worker = [k \in Calls |->
                              IF @[k] = "none" THEN "none" ELSE "exit"]]

ExecDone ==
    /\ proc.execing # None
    /\ \A u \in Threads \ {proc.execing, Leader} : thr[u].life = "gone"
    /\ thr' = [u \in Threads |->
                 IF u # Leader THEN Reaped
                 ELSE IF thr[proc.execing].hold = "free" THEN FreshThread
                 ELSE [FreshThread EXCEPT !.hold = "stopped", !.regs = "exec"]]
    /\ proc' = [proc EXCEPT !.execing = None, !.image = 2, !.mapped = {},
                            !.theirs = {Min(Frames)}, !.handle = NoHandles]
    /\ UNCHANGED left

(* The borrowed thread reaches the trap behind the function.  Creating a   *)
(* thread made a handle, and the wrapper of a worker waits to be started;  *)
(* detaching ended a handle.                                               *)
FunctionReturns(t) ==
    /\ thr[t].life = "run" /\ thr[t].hold = "seized" /\ thr[t].regs = "call"
    /\ \E v \in {"ok", "bad"} :
        /\ v = "bad" => thr[t].fn # "orphan"
        /\ thr' = [thr EXCEPT ![t].hold = "stopped", ![t].regs = "trap",
                              ![t].val = v]
        /\ proc' = LET k == thr[t].k
                   IN  CASE v = "bad" \/ thr[t].fn = "plain" -> proc
                         [] v = "ok" /\ thr[t].fn = "thread" ->
                              [proc EXCEPT !.handle[k] = "live"]
                         [] v = "ok" /\ thr[t].fn = "worker" ->
                              [proc EXCEPT !.handle[k] = "live",
                                           !.worker[k] = "ready",
                                           !.wframe[k] = thr[t].frame]
                         [] OTHER -> [proc EXCEPT !.handle[k] = "done"]
    /\ UNCHANGED left

(* A signal of the program's stops the borrowed thread inside the function.*)
FunctionSignal(t) ==
    /\ thr[t].life = "run" /\ thr[t].hold = "seized" /\ thr[t].regs = "call"
    /\ Spend("signal")
    /\ thr' = [thr EXCEPT ![t].hold = "stopped", ![t].regs = "sig"]
    /\ UNCHANGED proc

(* A started worker ends, a cancelled one ends without running its entry.  *)
WorkerExit(k) ==
    /\ proc.worker[k] \in {"run", "cancel"}
    /\ proc' = [proc EXCEPT !.worker[k] = "exit"]
    /\ UNCHANGED <<thr, left>>

TargetNext ==
    \/ \E t \in Threads : \/ Park(t) \/ Unpark(t) \/ ThreadExit(t)
                          \/ ExecStart(t) \/ FunctionReturns(t)
                          \/ FunctionSignal(t)
    \/ \E k \in Calls : WorkerExit(k)
    \/ Kill
    \/ ExecDone
=============================================================================
