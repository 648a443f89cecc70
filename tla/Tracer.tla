------------------------------- MODULE Tracer -------------------------------
(***************************************************************************)
(* Break and trace (debug/tracer.cpp, gui/tracerwindow.cpp): a worker      *)
(* seizes the program's threads, arms an execute breakpoint at the start   *)
(* address in each, holds them all once one reaches it, and single-steps   *)
(* that one; a call may be stepped over by a breakpoint behind it.  The    *)
(* window may cancel at any moment, also before the worker has begun.      *)
(*                                                                         *)
(* As in CodeFinder, the code between two waits is one action.  The limit  *)
(* of 16 passes over the thread list and the 4 tries of drainStartTraps    *)
(* are not reached with the threads and traps of the model.                *)
(***************************************************************************)
EXTENDS WatchedTask

CONSTANT MaxSteps   \* TraceConfig.maxSteps

ASSUME TracerConstants == MaxSteps \in Nat

VARIABLE tr   \* the tracer, its worker and the window

\* on: known, alive and not yet released; armed: armedAddress is set.
\* late: a trap was still queued when the thread was let go.
NoTraced == [on |-> FALSE, seen |-> FALSE, stopped |-> FALSE, sig |-> None, ev |-> None,
             armed |-> FALSE, stepping |-> FALSE, ready |-> FALSE, late |-> FALSE]

\* cfg: start (a start address is given), over (step over calls).
TracerInit(cfg) ==
    tr = [pc |-> "idle", cfg |-> cfg, cancelled |-> FALSE, prepared |-> FALSE,
          th |-> [t \in Tid |-> NoTraced], tried |-> {}, list |-> {}, cur |-> None,
          tid |-> None,              \* traceTid
          steps |-> 0, over |-> FALSE, past |-> FALSE]

TraceAt(r, pc) == [r EXCEPT !.pc = pc, !.cur = None]
TraceOut(r) == TraceAt(r, "clean")
TracedOn(r) == {t \in Tid : r.th[t].on}

\* What waitpid has for t: a report, or no such child.
TraceHears(t) == Reported(t) \/ task[t].by # "tracer"

-----------------------------------------------------------------------------
(* Pieces of the worker, as functions of its state r.                      *)

\* consume: an own breakpoint or step is no signal; an exec retires the others.
TraceSeen(r, t) ==
    LET k == task[t]
        own == \/ k.why \in {"event", "clone", "exec"}
               \/ k.why = "hw" /\ r.th[t].armed
               \/ k.why = "step" /\ r.th[t].stepping
        seen == [r.th[t] EXCEPT !.on = TRUE, !.seen = TRUE, !.stopped = TRUE,
                                !.ev = k.why, !.sig = IF own THEN None ELSE k.why]
    IN IF k.st # "stop" THEN [r EXCEPT !.th[t].on = FALSE]
       ELSE IF k.why # "exec" THEN [r EXCEPT !.th[t] = seen]
       ELSE [r EXCEPT !.th = [u \in Tid |-> IF u = t THEN [seen EXCEPT !.armed = FALSE]
                                            ELSE [@[u] EXCEPT !.on = FALSE]]]

\* addClone: the child is known from here on, with its own first stop.
CloneOf(r, t) == IF r.th[t].ev = "clone" /\ task[t].st = "stop" THEN {task[t].msg} ELSE {}
TraceAdopted(r, t) ==
    [r EXCEPT !.th = [u \in Tid |-> IF u \notin CloneOf(r, t) \/ @[u].stopped THEN @[u]
                                    ELSE TraceSeen(r, u).th[u]]]
AdoptedKernel(r, k, t) == [u \in Tid |-> IF u \in CloneOf(r, t) THEN Reap(k, u)[u] ELSE k[u]]

\* waitThread for the thread waited for.
TraceWait ==
    LET r == TraceSeen(tr, tr.cur)
    IN [next |-> TraceAdopted(r, tr.cur), kernel |-> AdoptedKernel(r, Reap(task, tr.cur), tr.cur),
        on |-> r.th[tr.cur].on, ev |-> r.th[tr.cur].ev]

TraceResumed(r, S, step) ==
    [r EXCEPT !.th = [t \in Tid |-> IF t \notin S THEN @[t]
                        ELSE [@[t] EXCEPT !.stopped = FALSE, !.sig = None, !.ev = None,
                                          !.stepping = step]]]
TraceResumes(k, S, step) == [t \in Tid |-> IF t \in S THEN Resume(k, t, step)[t] ELSE k[t]]
TraceDelivers(r, S) == got \cup {<<t, r.th[t].sig>> : t \in {u \in S : r.th[u].sig # None}}

TraceArmed(r, S, on) ==
    [r EXCEPT !.th = [t \in Tid |-> IF t \in S THEN [@[t] EXCEPT !.armed = on] ELSE @[t]]]
TraceArms(k, S, on) == [t \in Tid |-> IF t \in S THEN [k[t] EXCEPT !.hw = on] ELSE k[t]]

\* Arm and resume S as asked, or be refused after some of them.
TraceGo(r, k, arm, S, step, next(_)) ==
    \/ /\ \A t \in S : k[t].st = "stop"
       /\ UNCHANGED left
       /\ tr' = next(TraceResumed(TraceArmed(r, arm, TRUE), S, step))
       /\ task' = TraceResumes(TraceArms(k, arm, TRUE), S, step)
       /\ got' = TraceDelivers(r, S)
    \/ /\ IF \A t \in S : k[t].st = "stop" THEN Spend("fault") ELSE UNCHANGED left
       /\ \E T \in SUBSET {t \in S : k[t].st = "stop"} :
            /\ T # S
            /\ tr' = TraceOut(TraceResumed(TraceArmed(r, arm \cap T, TRUE), T, step))
            /\ task' = TraceResumes(TraceArms(k, arm \cap T, TRUE), T, step)
            /\ got' = TraceDelivers(r, T)

Worker == UNCHANGED <<page, sent>>
Silent == UNCHANGED got

-----------------------------------------------------------------------------
(* The program executes the address a breakpoint may be at: in the frame   *)
(* of the call ("reach") or in a deeper one of a recursive call ("deep").  *)

Reach(t, what) ==
    /\ Accesses(t, what)
    /\ what = "deep" /\ task[t].at = None => tr.over /\ t = tr.tid
    /\ LET stops == task[t].hw /\ task[t].by = "tracer"
           trap == IF stops THEN "hw" ELSE IF task[t].tf THEN "step" ELSE None
       IN task' = [task EXCEPT ![t].trap = trap, ![t].at = IF stops THEN what ELSE None,
                               ![t].tf = FALSE]
    /\ UNCHANGED <<page, sent, got, tr>>

-----------------------------------------------------------------------------
(* The window.                                                             *)

\* onStart, with prepare(): a cancel from now on reaches the worker.
OnStart ==
    /\ tr.pc = "idle" /\ Spend("trace")
    /\ tr' = [tr EXCEPT !.pc = "begin", !.cancelled = FALSE, !.prepared = TRUE, !.steps = 0,
                        !.th = [t \in Tid |-> NoTraced], !.tried = {}, !.list = {}, !.tid = None, !.over = FALSE]
    /\ Worker /\ Silent /\ UNCHANGED task

\* onCancel, and the window's destructor before it joins the worker.
OnCancel ==
    /\ tr.pc # "idle" /\ ~tr.cancelled /\ Spend("cancel")
    /\ tr' = [tr EXCEPT !.cancelled = TRUE]
    /\ Worker /\ Silent /\ UNCHANGED task

-----------------------------------------------------------------------------
(* The worker: trace().                                                    *)

\* Mutant of TraceBegin: a trace always begins uncancelled.
TraceBegin_Clears ==
    /\ tr.pc = "begin"
    /\ tr' = [tr EXCEPT !.pc = "seize", !.prepared = FALSE, !.cancelled = FALSE]
    /\ Worker /\ Silent /\ UNCHANGED <<task, left>>

TraceBegin ==
    /\ tr.pc = "begin"
    /\ tr' = [tr EXCEPT !.pc = "seize", !.prepared = FALSE,
                        !.cancelled = @ /\ tr.prepared]
    /\ Worker /\ Silent /\ UNCHANGED <<task, left>>

\* A pass over the thread list; the first that finds no new thread is the last.
TraceList ==
    /\ tr.pc = "seize" /\ tr.list = {}
    /\ LET new == {t \in Tid : Alive(t)} \ tr.tried
           main == IF tr.th[Leader].on THEN Leader ELSE CHOOSE t \in TracedOn(tr) : TRUE
       IN tr' = IF new # {} THEN [tr EXCEPT !.list = new, !.tried = @ \cup new]
                ELSE IF TracedOn(tr) = {} THEN TraceOut(tr)
                ELSE TraceAt([tr EXCEPT !.tid = main], IF tr.cfg.start THEN "arm" ELSE "step")
    /\ Worker /\ Silent /\ UNCHANGED <<task, left>>

TraceSeize(t) ==
    /\ tr.pc = "seize" /\ t \in tr.list
    /\ LET rest == [tr EXCEPT !.list = @ \ {t}]
       IN \/ tr.cancelled /\ tr' = TraceOut(tr) /\ UNCHANGED <<task, left>>
          \/ /\ ~tr.cancelled /\ (tr.th[t].seen \/ ~Alive(t))
             /\ tr' = rest /\ UNCHANGED <<task, left>>
          \/ /\ ~tr.cancelled /\ ~tr.th[t].seen /\ Alive(t) /\ task[t].by = None
             /\ UNCHANGED left
             /\ tr' = [rest EXCEPT !.pc = "seized", !.cur = t,
                                   !.th[t] = [NoTraced EXCEPT !.on = TRUE, !.seen = TRUE]]
             /\ task' = Seize(task, t, "tracer")
          \/ /\ ~tr.cancelled /\ ~tr.th[t].seen /\ Alive(t)
             /\ IF task[t].by = None THEN Spend("fault") ELSE UNCHANGED left
             /\ tr' = TraceOut(tr) /\ UNCHANGED task
    /\ Worker /\ Silent

\* Cancelled while waiting for a thread (but for the waits of the cleanup).
TraceGivesUp ==
    /\ tr.pc \in {"seized", "gathers", "steps"} /\ tr.cancelled
    /\ tr' = TraceOut(tr)
    /\ Worker /\ Silent /\ UNCHANGED <<task, left>>

TraceSeized ==
    /\ tr.pc = "seized" /\ ~tr.cancelled /\ TraceHears(tr.cur)
    /\ tr' = IF TraceWait.on /\ TraceWait.ev # "exec" THEN TraceAt(TraceWait.next, "seize")
             ELSE TraceOut(TraceWait.next)
    /\ task' = TraceWait.kernel
    /\ Worker /\ Silent /\ UNCHANGED left

\* Every thread is armed and let run.
TraceArm ==
    /\ tr.pc = "arm"
    /\ TraceGo(tr, task, TracedOn(tr), TracedOn(tr), FALSE, LAMBDA r : TraceAt(r, "wait"))
    /\ Worker

TraceWaitEnds ==
    /\ tr.pc = "wait" /\ (tr.cancelled \/ \A t \in TracedOn(tr) : tr.th[t].stopped)
    /\ tr' = TraceOut(tr)
    /\ Worker /\ Silent /\ UNCHANGED <<task, left>>

TraceLooks(t) ==
    /\ tr.pc = "wait" /\ tr.th[t].on /\ ~tr.th[t].stopped /\ TraceHears(t)
    /\ LET r == TraceSeen(tr, t)
           k == Reap(task, t)
           child == CloneOf(r, t)
           stay(q) == q
       IN \/ /\ ~r.th[t].on \/ r.th[t].ev = "exec"
             /\ tr' = IF r.th[t].on THEN TraceOut(r) ELSE r
             /\ task' = k /\ Silent /\ UNCHANGED left
          \/ /\ r.th[t].on /\ r.th[t].ev = "hw"   \* reached
             /\ tr' = [TraceAt(r, "gather") EXCEPT !.tid = t]
             /\ task' = k /\ Silent /\ UNCHANGED left
          \/ /\ r.th[t].on /\ r.th[t].ev \notin {"hw", "exec"}
             /\ TraceGo(TraceAdopted(r, t), AdoptedKernel(r, k, t), child, child \cup {t}, FALSE, stay)
    /\ Worker

-----------------------------------------------------------------------------
(* The others are held and their breakpoints lifted.  An interrupt may     *)
(* have overtaken a trap: it is let through to its stop first.             *)

TraceTrapped(t) == tr.th[t].armed /\ task[t].trap = "hw"

TraceAsk(t) ==
    /\ \/ tr.pc = "gather" /\ ~tr.th[t].ready
       \/ tr.pc = "clean" /\ ~TraceHears(t)
    /\ tr.th[t].on /\ ~tr.th[t].stopped
    /\ tr' = [tr EXCEPT !.pc = IF tr.pc = "gather" THEN "gathers" ELSE "cleans", !.cur = t]
    /\ task' = Interrupt(task, t)
    /\ Worker /\ Silent /\ UNCHANGED left

TraceGathers ==
    /\ tr.pc = "gathers" /\ ~tr.cancelled /\ TraceHears(tr.cur)
    /\ tr' = IF TraceWait.on THEN TraceAt(TraceWait.next, "gather") ELSE TraceOut(TraceWait.next)
    /\ task' = TraceWait.kernel
    /\ Worker /\ Silent /\ UNCHANGED left

\* drainStartTraps, up to its wait, which nothing cancels.
TraceDrain(t) ==
    /\ tr.pc \in {"gather", "clean"} /\ tr.th[t].on /\ tr.th[t].stopped
    /\ tr.pc = "clean" => ~TraceHears(t)
    /\ TraceTrapped(t)
    /\ tr' = [tr EXCEPT !.pc = IF tr.pc = "gather" THEN "gdrain" ELSE "cdrain", !.cur = t,
                        !.th[t].stopped = FALSE, !.th[t].ev = None]
    /\ task' = Resume(task, t, FALSE)
    /\ Worker /\ Silent /\ UNCHANGED left

\* A signal seen before is kept unless another came.
TraceDrained ==
    /\ tr.pc \in {"gdrain", "cdrain"} /\ TraceHears(tr.cur)
    /\ LET r == TraceSeen(tr, tr.cur)
           before == tr.th[tr.cur].sig
       IN tr' = TraceAt([r EXCEPT !.th[tr.cur].sig = IF @ = None THEN before ELSE @],
                        IF tr.pc = "gdrain" THEN "gather" ELSE "clean")
    /\ task' = Reap(task, tr.cur)
    /\ Worker /\ Silent /\ UNCHANGED left

\* restoreDebug of a held thread.
TraceLift(t) ==
    /\ tr.pc = "gather" /\ tr.th[t].on /\ tr.th[t].stopped /\ ~tr.th[t].ready /\ ~TraceTrapped(t)
    /\ \E ok \in {task[t].st = "stop" \/ ~tr.th[t].armed, FALSE} :
        /\ IF task[t].st = "stop" THEN Try(ok) ELSE UNCHANGED left
        /\ tr' = IF ok THEN [tr EXCEPT !.th[t].armed = FALSE, !.th[t].ready = TRUE] ELSE TraceOut(tr)
        /\ task' = IF ok THEN [task EXCEPT ![t].hw = FALSE] ELSE task
    /\ Worker /\ Silent

TraceGathered ==
    /\ tr.pc = "gather" /\ \A t \in TracedOn(tr) : tr.th[t].ready
    /\ tr' = TraceAt(tr, "step")
    /\ Worker /\ Silent /\ UNCHANGED <<task, left>>

-----------------------------------------------------------------------------
(* Stepping.                                                               *)

\* An instruction is recorded; the stop address or the end of the module may
\* be reached, or the thread be gone.  A call is continued to a breakpoint.
TraceStep ==
    /\ tr.pc = "step" /\ ~tr.cancelled /\ tr.steps < MaxSteps /\ task[tr.tid].st = "stop"
    /\ \E over \in {FALSE, tr.cfg.over} :
        TraceGo([tr EXCEPT !.steps = @ + 1, !.over = over, !.past = FALSE], task,
                IF over THEN {tr.tid} ELSE {}, {tr.tid}, ~over,
                LAMBDA r : [r EXCEPT !.pc = "steps", !.cur = tr.tid])
    /\ Worker

TraceEnds ==
    /\ tr.pc = "step"
    /\ tr' = TraceOut(tr)
    /\ Worker /\ Silent /\ UNCHANGED <<task, left>>

\* Mutant of TraceStepped: the first return to the address behind the call is
\* taken to be this call's.
TraceStepped_AnyFrame ==
    /\ tr.pc = "steps" /\ ~tr.cancelled /\ TraceHears(tr.cur)
    /\ LET r == TraceWait.next
           k == TraceWait.kernel
           t == tr.cur
           ev == TraceWait.ev
           lifted == TraceArmed(r, {t}, FALSE)
           freed == TraceArms(k, {t}, FALSE)
       IN \/ /\ ~TraceWait.on \/ ev = "exec"
             /\ tr' = TraceOut(r) /\ task' = k /\ Silent /\ UNCHANGED left
          \/ /\ TraceWait.on /\ ev \in {"event", "clone"} \cup Sig
             /\ TraceGo(r, k, {}, {t}, ~tr.over, LAMBDA q : q)
          \/ /\ TraceWait.on /\ ev \in {"step", "hw"}
             /\ tr' = TraceAt(lifted, "step") /\ task' = freed /\ Silent /\ UNCHANGED left
    /\ Worker

TraceStepped ==
    /\ tr.pc = "steps" /\ ~tr.cancelled /\ TraceHears(tr.cur)
    /\ LET r == TraceWait.next
           k == TraceWait.kernel
           t == tr.cur
           ev == TraceWait.ev
           on(q) == q
           stepping == ~tr.over \/ tr.past
           lifted == TraceArmed(r, {t}, FALSE)
           freed == TraceArms(k, {t}, FALSE)
       IN \/ /\ ~TraceWait.on \/ ev = "exec"
             /\ tr' = TraceOut(r) /\ task' = k /\ Silent /\ UNCHANGED left
          \/ /\ TraceWait.on /\ ev \in {"event", "clone"} \cup Sig
             /\ TraceGo(r, k, {}, {t}, stepping, on)
          \/ \* one step done; past a deeper frame the breakpoint is armed again
             /\ TraceWait.on /\ ev = "step" /\ stepping
             /\ \/ ~tr.over /\ tr' = TraceAt(r, "step") /\ task' = k /\ Silent /\ UNCHANGED left
                \/ tr.over /\ TraceGo([r EXCEPT !.past = FALSE], k, {t}, {t}, FALSE, on)
          \/ \* behind the call, in its frame or in a deeper one
             /\ TraceWait.on /\ ev = "hw" /\ ~stepping
             /\ \/ /\ task[t].at # "deep"
                   /\ tr' = TraceAt(lifted, "step") /\ task' = freed /\ Silent /\ UNCHANGED left
                \/ /\ task[t].at = "deep"
                   /\ TraceGo([lifted EXCEPT !.past = TRUE], freed, {}, {t}, TRUE, on)
    /\ Worker

-----------------------------------------------------------------------------
(* Cleanup, whichever way trace() ends.                                    *)

TraceReap(t) ==
    /\ tr.pc = "clean" /\ tr.th[t].on /\ TraceHears(t)
    /\ tr' = TraceSeen(tr, t) /\ task' = Reap(task, t)
    /\ Worker /\ Silent /\ UNCHANGED left

TraceCleans ==
    /\ tr.pc = "cleans" /\ TraceHears(tr.cur)
    /\ tr' = TraceAt(TraceSeen(tr, tr.cur), "clean") /\ task' = Reap(task, tr.cur)
    /\ Worker /\ Silent /\ UNCHANGED left

\* Mutant of TraceRelease: the breakpoint stays in the thread's registers.
TraceRelease_Armed(t) ==
    /\ tr.pc = "clean" /\ tr.th[t].on /\ ~TraceHears(t) /\ tr.th[t].stopped /\ ~TraceTrapped(t)
    /\ task[t].st = "stop"
    /\ tr' = [tr EXCEPT !.th[t] = [NoTraced EXCEPT !.seen = TRUE]]
    /\ task' = Release(task, t)
    /\ got' = Delivered(t, tr.th[t].sig)
    /\ Worker /\ UNCHANGED left

\* The registers restored, the thread detached with its signal; the child of
\* a clone it stopped at is let go in its turn.
TraceRelease(t) ==
    /\ tr.pc = "clean" /\ tr.th[t].on /\ ~TraceHears(t) /\ tr.th[t].stopped /\ ~TraceTrapped(t)
    /\ task[t].st = "stop"
    /\ LET r == [tr EXCEPT !.th = [u \in Tid |-> IF u \in CloneOf(tr, t) /\ ~@[u].seen
                                    THEN [NoTraced EXCEPT !.on = TRUE, !.seen = TRUE] ELSE @[u]]]
       IN \/ /\ tr' = [r EXCEPT !.th[t] = [NoTraced EXCEPT !.seen = TRUE,
                                             !.late = task[t].trap = "step"]]
             /\ task' = [Release(task, t) EXCEPT ![t].hw = FALSE]
             /\ got' = Delivered(t, tr.th[t].sig)
             /\ UNCHANGED left
          \/ Spend("fault") /\ tr' = r /\ Silent /\ UNCHANGED task
    /\ Worker

\* A thread that died in its stop and is not reported yet; an armed one is
\* retried until it is.
TraceReleaseDead(t) ==
    /\ tr.pc = "clean" /\ tr.th[t].on /\ ~TraceHears(t) /\ tr.th[t].stopped
    /\ task[t].st # "stop" /\ ~tr.th[t].armed
    /\ tr' = [tr EXCEPT !.th[t] = [NoTraced EXCEPT !.seen = TRUE]]
    /\ Worker /\ Silent /\ UNCHANGED <<task, left>>

\* trace() returns; onTraceFinished joins the worker.  The kernel detaches
\* what an ended thread still traces.
TraceDone ==
    /\ tr.pc = "clean" /\ TracedOn(tr) = {}
    /\ tr' = TraceAt(tr, "idle")
    /\ task' = [t \in Tid |-> IF task[t].by = "tracer" THEN Release(task, t)[t] ELSE task[t]]
    /\ Worker /\ Silent /\ UNCHANGED left

TraceWorker ==
    \/ TraceBegin \/ TraceList \/ TraceGivesUp \/ TraceSeized \/ TraceArm \/ TraceWaitEnds
    \/ TraceGathers \/ TraceDrained \/ TraceGathered \/ TraceStep \/ TraceEnds \/ TraceStepped
    \/ TraceCleans \/ TraceDone
    \/ \E t \in Tid : \/ TraceSeize(t) \/ TraceLooks(t) \/ TraceAsk(t) \/ TraceDrain(t)
                      \/ TraceLift(t) \/ TraceReap(t) \/ TraceRelease(t) \/ TraceReleaseDead(t)

TracerNext ==
    \/ TraceWorker \/ OnStart \/ OnCancel
    \/ \E t \in Tid : Reach(t, "reach") \/ Reach(t, "deep")

-----------------------------------------------------------------------------
\* A cancelled trace ends, also one cancelled before its worker began: the
\* window joins the worker, so it would hang otherwise.  (The waits of the
\* cleanup poll one thread: see CodeFinder's StopReturns.)
CancelEndsTrace ==
    tr.pc # "idle" /\ tr.cancelled ~> (tr.pc = "idle" \/ []Unreaped)

\* A call stepped over ends in the frame it was made in, never in that of a
\* recursive call that returns to the same address first.
FrameKept == tr.pc = "step" => task[tr.tid].at # "deep"
=============================================================================
