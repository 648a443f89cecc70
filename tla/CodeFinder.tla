----------------------------- MODULE CodeFinder -----------------------------
(***************************************************************************)
(* "Find what accesses this address" (debug/code_finder.cpp): a monitor    *)
(* thread traces the program's threads and watches some bytes, either with *)
(* a debug register of every thread or by guarding their page (a software  *)
(* watch).  A guarded access faults; the monitor stops every thread, lifts *)
(* the guard, steps the one thread and guards the page again.  stop() may  *)
(* come at any moment: the program must be left as it was found.           *)
(*                                                                         *)
(* The monitor's code between two waits for a thread is one action; pc     *)
(* names the waits and the points where stop() or a signal can intervene.  *)
(* waitForStop polls one thread only, so the reports of others stay with   *)
(* the kernel meanwhile.                                                   *)
(***************************************************************************)
EXTENDS WatchedTask

CONSTANTS
    Callers,       \* threads that call start() and stop()
    ReleaseTries   \* tries to give the scratch page back (500)

ASSUME FinderConstants == ReleaseTries \in Nat

VARIABLES
    fi,      \* the finder and its monitor thread
    due,     \* per thread: a watched access "late"ly or "early" recorded
    caller   \* what each caller is doing

finderVars == <<fi, due, caller>>

\* A thread of the monitor's map; on: alive.
\* late: a guard fault was still queued when the thread was let go.
NoThread == [on |-> FALSE, stopped |-> FALSE, sig |-> None, ev |-> None, guard |-> FALSE,
             armed |-> FALSE, stepping |-> FALSE, deferred |-> None, late |-> FALSE]

\* how: the options start() was given, soft, single (one thread only) and
\* arm (ARM64: the watchpoint stops before the access).
FinderInit(how) ==
    /\ fi = [pc |-> "idle", how |-> how,
             stop |-> FALSE,      \* stopRequested_
             running |-> FALSE,   \* running_
             lock |-> None,       \* lifecycleMutex_
             answer |-> "none",   \* startup_
             th |-> [t \in Tid |-> NoThread],
             tried |-> {}, list |-> {},  \* attempted, the pass's thread list
             cur |-> None,        \* the thread waited for
             back |-> "none",     \* who asked for the all-stop
             for |-> None,        \* the thread whose access is handled
             scratch |-> FALSE, changed |-> FALSE, active |-> FALSE,
             retired |-> FALSE,   \* imageRetired
             recovery |-> FALSE,  \* recoveryPending_
             tries |-> 0]
    /\ due = [t \in Tid |-> "no"]
    /\ caller = [c \in Callers |-> "idle"]

Soft == fi.how.soft

\* The program is being watched: start() has said so and nobody stopped it.
Watching == fi.answer = "yes" /\ ~fi.stop

At(f, pc) == [f EXCEPT !.pc = pc, !.cur = None]
AtCleanup(f) == [At(f, "clean") EXCEPT !.answer = IF @ = "none" THEN "no" ELSE "over", !.for = None,
                                       !.back = "none"]

-----------------------------------------------------------------------------
(* Pieces of the monitor, as functions of its state f.                     *)

\* consume: what waitpid said of t.  An exec retires everything known.
Consume(f, t) ==
    LET k == task[t]
        th == f.th[t]
        ev == k.why \in {"event", "clone", "exec"}
        seen == [th EXCEPT !.on = TRUE, !.stopped = TRUE,
                           !.ev = IF ev THEN k.why ELSE None,
                           !.guard = f.active /\ k.why \in {"fault", "near"},
                           !.sig = IF ev \/ (k.why = "step" /\ th.stepping) THEN None ELSE k.why]
    IN IF k.st # "stop" THEN [f EXCEPT !.th[t].on = FALSE]
       ELSE IF k.why = "exec"
       THEN [f EXCEPT !.retired = TRUE, !.stop = TRUE,
                      !.th = [u \in Tid |-> [IF u = t THEN seen ELSE f.th[u]
                                             EXCEPT !.armed = FALSE, !.on = (u = t)]]]
       ELSE [f EXCEPT !.th[t] = seen]

\* Whether waitForStop(t) has something: a report, or no such child.
Answers(t) == Reported(t) \/ task[t].by # "finder"

\* adopt: the child of a clone, whose own first stop may be known already.
Announces(f, t) == f.th[t].ev = "clone" /\ task[t].st = "stop"
Adopt(f, t) ==
    LET c == task[t].msg
    IN IF ~Announces(f, t) \/ (f.th[c].on /\ f.th[c].stopped) THEN f
       ELSE [Consume(f, c) EXCEPT !.th[c].sig = None]
AdoptKernel(f, k, t) == IF ~Announces(f, t) THEN k ELSE Reap(k, task[t].msg)

Resumed(f, S, step) ==
    [f EXCEPT !.th = [t \in Tid |-> IF t \notin S THEN @[t]
                        ELSE [@[t] EXCEPT !.stopped = FALSE, !.sig = None, !.ev = None,
                                          !.guard = FALSE, !.stepping = step]]]
ResumedKernel(k, S, step) ==
    [t \in Tid |-> IF t \in S THEN Resume(k, t, step)[t] ELSE k[t]]
\* What resuming S delivers, each thread its signal.
Delivery(f, S) == got \cup {<<t, f.th[t].sig>> : t \in {u \in S : f.th[u].sig # None}}

OnThreads(f) == {t \in Tid : f.th[t].on}
Stopped(f) == {t \in OnThreads(f) : f.th[t].stopped /\ task[t].st = "stop"}

ArmedBy(f, S) ==
    [f EXCEPT !.th = [t \in Tid |-> IF t \in S THEN [@[t] EXCEPT !.armed = TRUE] ELSE @[t]]]
ArmedKernel(k, S) == [t \in Tid |-> IF t \in S THEN [k[t] EXCEPT !.hw = TRUE] ELSE k[t]]
\* guardFault of the threads in S: the fault was the finder's, not the program's.
Unfaulted(f, S) ==
    [f EXCEPT !.th = [t \in Tid |-> IF t \in S /\ f.th[t].guard
                                     THEN [@[t] EXCEPT !.sig = None, !.guard = FALSE] ELSE @[t]]]

\* recordHit: before the access (a fault, ARM64) or after it.
Recorded(t) == [due EXCEPT ![t] = IF @ = "late" THEN "no" ELSE "early"]

-----------------------------------------------------------------------------
(* The program's accesses to the watched page.                             *)

\* Executed: it was recorded before, is to be recorded after, or is missed.
Done(t) == IF due[t] = "early" \/ ~Watching THEN "no" ELSE "late"

\* An access to the watched bytes ("touch") or to others of their page ("near").
Access(t, what) ==
    /\ Accesses(t, what)
    /\ LET watched == what = "touch" /\ task[t].hw
           before == page = "guard" \/ (watched /\ fi.how.arm)
           trap == IF page = "guard" THEN IF what = "touch" THEN "fault" ELSE "near"
                   ELSE IF watched THEN "hw"
                   ELSE IF task[t].tf THEN "step" ELSE None
       IN /\ task' = [task EXCEPT ![t].trap = trap, ![t].at = IF before THEN what ELSE None,
                                  ![t].tf = FALSE]
          /\ due' = IF before \/ what = "near" THEN due ELSE [due EXCEPT ![t] = Done(t)]
    /\ UNCHANGED <<page, sent, got, fi, caller>>

-----------------------------------------------------------------------------
(* Callers.                                                                *)

Quiet == UNCHANGED <<task, page, sent, got, due>>

\* start(), under lifecycleMutex_: refused while one runs.
Start(c) ==
    /\ caller[c] = "idle" /\ fi.lock = None /\ Spend("start")
    /\ IF fi.running
       THEN UNCHANGED <<fi, caller, due>>
       ELSE /\ fi' = [fi EXCEPT !.lock = c, !.stop = FALSE, !.running = TRUE, !.answer = "none",
                                !.recovery = FALSE, !.pc = "prepare", !.tried = {}, !.list = {},
                                !.th = [t \in Tid |-> NoThread], !.retired = FALSE, !.tries = 0]
            /\ caller' = [caller EXCEPT ![c] = "starting"]
            /\ due' = [t \in Tid |-> "no"]
    /\ UNCHANGED <<task, page, sent, got>>

\* It waits for the monitor's word; a failed one is joined.
StartAnswered(c) ==
    /\ caller[c] = "starting" /\ fi.answer # "none"
    /\ IF fi.answer # "no"
       THEN fi' = [fi EXCEPT !.lock = None] /\ caller' = [caller EXCEPT ![c] = "idle"]
       ELSE fi' = [fi EXCEPT !.stop = TRUE] /\ caller' = [caller EXCEPT ![c] = "joining"]
    /\ UNCHANGED left /\ Quiet

\* stop() asks at once, then again under the mutex, and joins the monitor.
Stop(c) ==
    /\ caller[c] = "idle" /\ Spend("stop")
    /\ fi' = [fi EXCEPT !.stop = TRUE]
    /\ caller' = [caller EXCEPT ![c] = "stop"]
    /\ Quiet

\* Mutant of StopLocked: it does not ask again under the mutex.
StopLockedOnce(c) ==
    /\ caller[c] = "stop" /\ fi.lock = None
    /\ fi' = [fi EXCEPT !.lock = c]
    /\ caller' = [caller EXCEPT ![c] = "joining"]
    /\ UNCHANGED left /\ Quiet

StopLocked(c) ==
    /\ caller[c] = "stop" /\ fi.lock = None
    /\ fi' = [fi EXCEPT !.lock = c, !.stop = TRUE]
    /\ caller' = [caller EXCEPT ![c] = "joining"]
    /\ UNCHANGED left /\ Quiet

Joined(c) ==
    /\ caller[c] = "joining" /\ fi.pc = "idle"
    /\ fi' = [fi EXCEPT !.lock = None, !.running = FALSE]
    /\ caller' = [caller EXCEPT ![c] = "idle"]
    /\ UNCHANGED left /\ Quiet
-----------------------------------------------------------------------------
(* The monitor thread.                                                     *)

Monitor == UNCHANGED <<sent, due, caller>>
NoDelivery == UNCHANGED got

\* A software watch needs the page's protection and a scratch page.
Prepare ==
    /\ fi.pc = "prepare"
    /\ \E ok \in BOOLEAN :
        /\ Try(ok)
        /\ fi' = IF ok THEN [At(fi, "seize") EXCEPT !.scratch = Soft] ELSE AtCleanup(fi)
    /\ Monitor /\ NoDelivery /\ UNCHANGED <<task, page>>

\* Mutant of SeizeList: one pass over the thread list is taken to be enough.
SeizeListOnce ==
    /\ fi.pc = "seize" /\ fi.list = {}
    /\ LET listed == IF fi.how.single THEN {Leader} ELSE {t \in Tid : Alive(t)}
           new == IF fi.tried # {} THEN {} ELSE listed
       IN fi' = IF new # {} THEN [fi EXCEPT !.list = new, !.tried = @ \cup new]
                ELSE IF OnThreads(fi) = {} THEN AtCleanup(fi)
                ELSE At(fi, "watch")
    /\ Monitor /\ NoDelivery /\ UNCHANGED <<task, page, left>>

\* The threads listed now and not tried yet; one that clones before it is
\* seized leaves its child to the next pass.
SeizeList ==
    /\ fi.pc = "seize" /\ fi.list = {}
    /\ LET listed == IF fi.how.single THEN {Leader} ELSE {t \in Tid : Alive(t)}
           new == listed \ fi.tried
       IN fi' = IF new # {} THEN [fi EXCEPT !.list = new, !.tried = @ \cup new]
                ELSE IF OnThreads(fi) = {} THEN AtCleanup(fi)
                ELSE At(fi, "watch")
    /\ Monitor /\ NoDelivery /\ UNCHANGED <<task, page, left>>

SeizeNext(t) ==
    /\ fi.pc = "seize" /\ t \in fi.list
    /\ LET rest == [fi EXCEPT !.list = @ \ {t}]
       IN \/ /\ fi.stop /\ fi' = AtCleanup(fi) /\ UNCHANGED <<task, left>>
          \/ /\ ~fi.stop /\ (fi.th[t].on \/ ~Alive(t)) /\ fi' = rest /\ UNCHANGED <<task, left>>
          \/ /\ ~fi.stop /\ ~fi.th[t].on /\ Alive(t)
             /\ \E ok \in {task[t].by = None, FALSE} :
                 /\ IF task[t].by = None THEN Try(ok) ELSE UNCHANGED left
                 /\ fi' = IF ok THEN [rest EXCEPT !.th[t] = [NoThread EXCEPT !.on = TRUE],
                                                  !.cur = t, !.pc = "seized"]
                          ELSE AtCleanup(fi)
                 /\ task' = IF ok THEN Seize(task, t, "finder") ELSE task
    /\ Monitor /\ NoDelivery /\ UNCHANGED page

\* waitForStop of the thread waited for, adopting a child it just made.
Waited ==
    LET f == Consume(fi, fi.cur)
    IN [next |-> Adopt(f, fi.cur), kernel |-> AdoptKernel(f, Reap(task, fi.cur), fi.cur),
        on |-> f.th[fi.cur].on]

SeizeWait ==
    /\ fi.pc = "seized" /\ Answers(fi.cur)
    /\ LET w == Waited
       IN /\ fi' = IF w.on /\ ~w.next.stop THEN At(w.next, "seize") ELSE AtCleanup(w.next)
          /\ task' = w.kernel
    /\ Monitor /\ NoDelivery /\ UNCHANGED <<page, left>>

\* A system call on a stopped thread was refused: the search is asked to stop.
\* (Its thread has its own registers back by then, or is gone.)
SyscallRefused(f) == [AtCleanup(f) EXCEPT !.stop = @ \/ Soft]

\* Every thread is held: the registers are armed, or the page is guarded.
Watch ==
    /\ fi.pc = "watch"
    /\ LET held == Stopped(fi)
           S == IF Soft THEN {} ELSE OnThreads(fi)
       IN \/ /\ IF Soft THEN held # {} ELSE held = OnThreads(fi)
             /\ fi' = [At(ArmedBy(fi, S), "go") EXCEPT !.changed = Soft, !.active = Soft]
             /\ task' = ArmedKernel(task, S)
             /\ page' = IF Soft THEN "guard" ELSE page
             /\ UNCHANGED left
          \/ /\ IF Soft THEN held = {} ELSE held # OnThreads(fi)
             /\ fi' = AtCleanup(fi) /\ UNCHANGED <<task, page, left>>
          \/ \* refused part of the way
             \E T \in SUBSET (S \cap held) :
                /\ T # S \/ Soft
                /\ Spend("fault")
                /\ fi' = [SyscallRefused(ArmedBy(fi, T)) EXCEPT !.changed = Soft]
                /\ task' = ArmedKernel(task, T)
                /\ UNCHANGED page
    /\ Monitor /\ NoDelivery

\* All of them go on; a refusal, or a death, leaves the others held.
GoOn(f, k) ==
    LET all == OnThreads(f)
        can == {t \in all : k[t].st = "stop"}
        go(T, g(_)) == /\ fi' = g(Resumed(f, T, FALSE))
                    /\ task' = ResumedKernel(k, T, FALSE)
                    /\ got' = Delivery(f, T)
    IN \/ /\ can = all /\ UNCHANGED left
          /\ go(all, LAMBDA g : [At(g, "loop") EXCEPT !.for = None,
                                                     !.answer = IF @ = "none" THEN "yes" ELSE @])
       \/ /\ can # all /\ UNCHANGED left
          /\ \E T \in SUBSET can : go(T, AtCleanup)
       \/ /\ Spend("fault")
          /\ \E T \in SUBSET can : T # all /\ go(T, AtCleanup)

Go == fi.pc = "go" /\ GoOn(fi, task) /\ Monitor /\ UNCHANGED page

\* The event loop: a stop request, no child left, or a report of any thread.
LoopEnds ==
    /\ fi.pc = "loop" /\ (fi.stop \/ \A t \in Tid : task[t].by # "finder")
    /\ fi' = AtCleanup(fi)
    /\ Monitor /\ NoDelivery /\ UNCHANGED <<task, page, left>>

Stay(f) == f

\* f resumes the threads of S, or is refused and leaves.
ResumeOr(f, k, S, step, next(_)) ==
    \E ok \in BOOLEAN :
        /\ Try(ok)
        /\ fi' = IF ok THEN next(Resumed(f, S, step)) ELSE AtCleanup(f)
        /\ task' = IF ok THEN ResumedKernel(k, S, step) ELSE k
        /\ got' = IF ok THEN Delivery(f, S) ELSE got

LoopSees(t) ==
    /\ fi.pc = "loop" /\ ~fi.stop /\ Reported(t) /\ task[t].by = "finder"
    /\ LET f == Consume(fi, t)
           k == Reap(task, t)
           th == f.th[t]
       IN \/ /\ ~th.on \/ f.stop \/ ~fi.th[t].on  \* dead, exec, or a child before its parent
             /\ fi' = IF th.on /\ f.stop THEN AtCleanup(f) ELSE f
             /\ task' = k /\ UNCHANGED <<left, got, due>>
          \/ /\ th.on /\ ~f.stop /\ fi.th[t].on
             /\ \/ /\ th.ev = "clone"
                   /\ LET c == task[t].msg
                          g == Adopt(f, t)
                          n == IF g.th[c].on THEN {c} ELSE {}
                          k2 == AdoptKernel(f, k, t)
                          a == IF Soft THEN {} ELSE n
                      IN IF \A x \in n : k2[x].st = "stop"
                         THEN ResumeOr(ArmedBy(g, a), ArmedKernel(k2, a), n \cup {t}, FALSE, Stay)
                         ELSE fi' = AtCleanup(g) /\ task' = k2 /\ UNCHANGED <<left, got>>
                   /\ UNCHANGED due
                \/ /\ th.guard
                   /\ fi' = [At(f, "hold") EXCEPT !.back = "fault", !.for = t]
                   /\ task' = k /\ UNCHANGED <<left, got, due>>
                \/ /\ th.sig = "hw" /\ th.armed
                   /\ due' = Recorded(t)
                   /\ LET g == [f EXCEPT !.th[t].sig = None]
                      IN IF fi.how.arm
                         THEN ResumeOr([g EXCEPT !.th[t].armed = FALSE], [k EXCEPT ![t].hw = FALSE],
                                       {t}, TRUE, LAMBDA h : [h EXCEPT !.pc = "step", !.for = t, !.cur = t])
                         ELSE ResumeOr(g, k, {t}, FALSE, Stay)
                \/ /\ th.ev # "clone" /\ ~th.guard /\ ~(th.sig = "hw" /\ th.armed)
                   /\ ResumeOr(f, k, {t}, FALSE, Stay) /\ UNCHANGED due
    /\ UNCHANGED <<page, sent, caller>>

-----------------------------------------------------------------------------
(* stopAll, for the handling of a guarded access and for the cleanup.      *)

HoldAsk(t) ==
    /\ fi.pc = "hold" /\ fi.th[t].on /\ ~fi.th[t].stopped
    /\ task' = Interrupt(task, t)
    /\ fi' = [fi EXCEPT !.pc = "await", !.cur = t]
    /\ Monitor /\ NoDelivery /\ UNCHANGED <<page, left>>

HoldGot ==
    /\ fi.pc = "await" /\ Answers(fi.cur)
    /\ fi' = At(Waited.next, "hold") /\ task' = Waited.kernel
    /\ Monitor /\ NoDelivery /\ UNCHANGED <<page, left>>

HoldDone ==
    /\ fi.pc = "hold" /\ \A t \in OnThreads(fi) : fi.th[t].stopped
    /\ fi' = At(fi, IF fi.back = "fault" THEN "lift" ELSE "unguard")
    /\ Monitor /\ NoDelivery /\ UNCHANGED <<task, page, left>>

\* The access is recorded if it touches the watched bytes, the guard lifted
\* and the thread stepped.
Lift ==
    /\ fi.pc = "lift"
    /\ LET t == fi.for
           f == Unfaulted(fi, {t})
       IN \/ /\ ~fi.retired /\ task[t].st = "stop" /\ fi.th[t].guard
             /\ due' = IF fi.th[t].sig = "fault" THEN Recorded(t) ELSE due
             /\ \/ /\ page' = "open" /\ task' = Resume(task, t, TRUE)
                   /\ fi' = [Resumed(f, {t}, TRUE) EXCEPT !.active = FALSE, !.pc = "step", !.cur = t]
                   /\ UNCHANGED left
                \/ /\ Spend("fault")
                   /\ fi' = SyscallRefused(f)
                   /\ UNCHANGED <<task, page>>
          \/ /\ fi.retired \/ task[t].st # "stop" \/ ~fi.th[t].guard
             /\ fi' = AtCleanup(fi) /\ UNCHANGED <<task, page, left, due>>
    /\ NoDelivery /\ UNCHANGED <<sent, caller>>

\* The stepped thread stops: the watch is put back and the threads go on.
StepGot ==
    /\ fi.pc = "step" /\ Answers(fi.cur)
    /\ LET w == Waited
           f == w.next
           t == fi.cur
       IN \/ /\ ~w.on \/ f.stop
             /\ fi' = AtCleanup(f) /\ task' = w.kernel /\ UNCHANGED <<page, left, got>>
          \/ /\ w.on /\ ~f.stop /\ f.th[t].ev = "event"
             /\ ResumeOr(f, w.kernel, {t}, TRUE, Stay) /\ UNCHANGED page
          \/ /\ w.on /\ ~f.stop /\ f.th[t].ev # "event"
             /\ \/ /\ Soft /\ page' = "guard"
                   /\ GoOn(Unfaulted([f EXCEPT !.active = TRUE], Tid), w.kernel)
                \/ /\ ~Soft /\ UNCHANGED page
                   /\ ResumeOr(ArmedBy(f, {t}), ArmedKernel(w.kernel, {t}), {t}, FALSE,
                               LAMBDA g : At(g, "loop"))
                \/ /\ Spend("fault")
                   /\ fi' = SyscallRefused(f)
                   /\ task' = w.kernel /\ UNCHANGED <<page, got>>
    /\ Monitor

-----------------------------------------------------------------------------
(* Cleanup: first the guard, which must not outlive the tracing, then one  *)
(* thread after the other.                                                 *)

CleanReap(t) ==
    /\ fi.pc = "clean" /\ Soft /\ fi.th[t].on /\ Answers(t)
    /\ fi' = Consume(fi, t) /\ task' = Reap(task, t)
    /\ Monitor /\ NoDelivery /\ UNCHANGED <<page, left>>

Clean ==
    /\ fi.pc = "clean"
    /\ \/ ~Soft /\ fi' = At(fi, "letgo")
       \/ /\ Soft /\ \A t \in OnThreads(fi) : ~Answers(t)
          /\ fi' = IF OnThreads(fi) = {} \/ (~fi.changed /\ fi.tries = ReleaseTries)
                   THEN [At(fi, "letgo") EXCEPT !.scratch = FALSE, !.active = FALSE, !.changed = FALSE]
                   ELSE [At(fi, "hold") EXCEPT !.back = "clean",
                                               !.tries = IF fi.changed THEN @ ELSE @ + 1]
    /\ Monitor /\ NoDelivery /\ UNCHANGED <<task, page, left>>

\* Mutant of Unguard: the page is left guarded after a refusal.
UnguardOnce ==
    /\ fi.pc = "unguard"
    /\ LET f == Unfaulted(fi, Tid)
           done(g) == [At(g, "letgo") EXCEPT !.changed = FALSE, !.active = FALSE, !.scratch = FALSE]
       IN \/ page' = "open" /\ fi' = done(f) /\ UNCHANGED left
          \/ Spend("fault") /\ fi' = done(f) /\ UNCHANGED page
    /\ Monitor /\ NoDelivery /\ UNCHANGED task

\* The scratch page is given back, or the cleanup starts again.
ReleaseScratch(f) ==
    \E ok \in BOOLEAN :
        /\ Try(ok)
        /\ fi' = IF ok THEN [At(f, "letgo") EXCEPT !.scratch = FALSE] ELSE At(f, "clean")

\* Any held thread can restore the protection; while none can, all stay held.
Unguard ==
    /\ fi.pc = "unguard"
    /\ LET f == Unfaulted(fi, Tid)
           open == [f EXCEPT !.changed = FALSE, !.active = FALSE]
       IN \/ /\ fi.retired /\ UNCHANGED <<page, left>>
             /\ fi' = [At([fi EXCEPT !.changed = FALSE, !.active = FALSE], "letgo") EXCEPT !.scratch = FALSE]
          \/ /\ ~fi.retired /\ (fi.changed => Stopped(f) # {})
             /\ page' = IF fi.changed THEN "open" ELSE page
             /\ ReleaseScratch(open)
          \/ /\ ~fi.retired /\ fi.changed
             /\ IF Stopped(f) = {} THEN UNCHANGED left ELSE Spend("fault")
             /\ fi' = [At(f, "clean") EXCEPT !.recovery = TRUE, !.stop = TRUE] /\ UNCHANGED page
    /\ Monitor /\ NoDelivery /\ UNCHANGED task

LetGoReap(t) ==
    /\ fi.pc = "letgo" /\ fi.th[t].on /\ Answers(t)
    /\ fi' = Consume(fi, t) /\ task' = Reap(task, t)
    /\ Monitor /\ NoDelivery /\ UNCHANGED <<page, left>>

LetGoAsk(t) ==
    /\ fi.pc = "letgo" /\ fi.th[t].on /\ ~Answers(t) /\ ~fi.th[t].stopped
    /\ task' = Interrupt(task, t) /\ fi' = [fi EXCEPT !.pc = "letwait", !.cur = t]
    /\ Monitor /\ NoDelivery /\ UNCHANGED <<page, left>>

LetGoWait ==
    /\ fi.pc = "letwait" /\ Answers(fi.cur)
    /\ fi' = At(Waited.next, "letgo") /\ task' = Waited.kernel
    /\ Monitor /\ NoDelivery /\ UNCHANGED <<page, left>>

\* drainHardwareTraps: the interrupt may have overtaken a trap of ours, which
\* is let through to its stop; a signal already seen is kept for the end.
TrapQueued(t) == task[t].trap = "hw"
LetGoDrain(t) ==
    LET own == fi.th[t].sig = "hw"
        th == [fi.th[t] EXCEPT !.sig = IF own THEN None ELSE @]
    IN /\ fi.pc = "letgo" /\ fi.th[t].on /\ ~Answers(t) /\ fi.th[t].stopped
       /\ fi.th[t].armed /\ TrapQueued(t)
       /\ IF th.sig # None /\ th.deferred # None
          THEN fi' = [fi EXCEPT !.recovery = TRUE] /\ UNCHANGED <<task, left>>
          ELSE LET kept == [th EXCEPT !.deferred = IF th.sig # None THEN th.sig ELSE @, !.sig = None]
                   f == [fi EXCEPT !.th[t] = kept]
               IN \E ok \in BOOLEAN :
                   /\ Try(ok)
                   /\ fi' = IF ok THEN [Resumed(f, {t}, FALSE) EXCEPT !.pc = "letwait", !.cur = t]
                            ELSE [f EXCEPT !.recovery = TRUE]
                   /\ task' = IF ok THEN Resume(task, t, FALSE) ELSE task
       /\ Monitor /\ NoDelivery /\ UNCHANGED page

\* Mutant of LetGo: traps still queued are not drained before the detach.
LetGoUndrained(t) ==
    /\ fi.pc = "letgo" /\ fi.th[t].on /\ ~Answers(t) /\ fi.th[t].stopped /\ task[t].st = "stop"
    /\ LET th == fi.th[t]
       IN /\ got' = Delivered(t, IF th.guard \/ th.sig = "hw" THEN None ELSE th.sig)
          /\ task' = [Release(task, t) EXCEPT ![t].hw = FALSE]
          /\ fi' = [fi EXCEPT !.th[t] = [NoThread EXCEPT !.late = task[t].trap \in {"fault", "near"}]]
    /\ Monitor /\ UNCHANGED <<page, left>>

\* The registers are restored and the thread is detached with its signal; a
\* child its last stop announced is let go in its turn.
LetGo(t) ==
    /\ fi.pc = "letgo" /\ fi.th[t].on /\ ~Answers(t) /\ fi.th[t].stopped
    /\ ~(fi.th[t].armed /\ TrapQueued(t)) /\ task[t].st = "stop"
    /\ LET th == fi.th[t]
           own == th.guard \/ (th.armed /\ th.sig = "hw")
           sig == IF th.deferred # None THEN th.deferred ELSE IF own THEN None ELSE th.sig
           f == Adopt(fi, t)
           k == AdoptKernel(fi, task, t)
       IN \/ /\ got' = Delivered(t, sig)
             /\ task' = [Release(k, t) EXCEPT ![t].hw = FALSE]
             /\ fi' = [f EXCEPT !.th[t] = [NoThread EXCEPT !.late = task[t].trap \in {"fault", "near"}]]
             /\ UNCHANGED left
          \/ /\ Spend("fault")
             /\ fi' = [f EXCEPT !.recovery = TRUE, !.th[t].sig = sig, !.th[t].deferred = None]
             /\ task' = k /\ NoDelivery
    /\ Monitor /\ UNCHANGED page

\* A thread that died in its stop and is not reported yet; one that is armed,
\* or whose child must be asked for, is retried until it is.
LetGoDead(t) ==
    /\ fi.pc = "letgo" /\ fi.th[t].on /\ ~Answers(t) /\ fi.th[t].stopped /\ task[t].st # "stop"
    /\ ~fi.th[t].armed /\ fi.th[t].ev # "clone"
    /\ fi' = [fi EXCEPT !.th[t] = NoThread]
    /\ Monitor /\ NoDelivery /\ UNCHANGED <<task, page, left>>

\* The kernel detaches what an ending tracer still traces (a program whose
\* exec took the thread waited for).
Ended ==
    /\ fi.pc = "letgo" /\ OnThreads(fi) = {}
    /\ fi' = [At(fi, "idle") EXCEPT !.recovery = FALSE, !.running = FALSE]
    /\ task' = [t \in Tid |-> IF task[t].by = "finder" THEN Release(task, t)[t] ELSE task[t]]
    /\ Monitor /\ NoDelivery /\ UNCHANGED <<page, left>>

MonitorNext ==
    \/ Prepare \/ SeizeList \/ SeizeWait \/ Watch \/ Go \/ LoopEnds
    \/ HoldGot \/ HoldDone \/ Lift \/ StepGot \/ Clean \/ Unguard \/ LetGoWait \/ Ended
    \/ \E t \in Tid : \/ SeizeNext(t) \/ LoopSees(t) \/ HoldAsk(t) \/ CleanReap(t)
                      \/ LetGoReap(t) \/ LetGoAsk(t) \/ LetGoDrain(t) \/ LetGo(t) \/ LetGoDead(t)

CallerNext(c) == Start(c) \/ StartAnswered(c) \/ Stop(c) \/ StopLocked(c) \/ Joined(c)

FinderNext ==
    \/ MonitorNext
    \/ \E c \in Callers : CallerNext(c)
    \/ \E t \in Tid : Access(t, "touch") \/ Access(t, "near")

-----------------------------------------------------------------------------
\* No access to the watched bytes goes unrecorded while the finder says it
\* watches: not by a thread just created, not by the others while one is
\* stepped over the lifted guard.  (With "single" only that thread counts.)
EveryAccessRecorded ==
    Watching =>
        \A t \in Tid : /\ task[t].st = "run" /\ task[t].trap = None /\ (fi.how.single => t = Leader)
                      => due[t] # "late"

\* stop() returns: also during a start, a step over the guard, a recovery.
\* Only waiting for one thread while another's death must be reaped first can
\* keep it: waitForStop polls that thread alone.
StopReturns ==
    \A c \in Callers : caller[c] # "idle" ~> (caller[c] = "idle" \/ []Unreaped)
=============================================================================
