---------------------------- MODULE DebugSession ----------------------------
(***************************************************************************)
(* The native debugger's session (debug/debug_session.cpp).  One tracer    *)
(* thread owns every ptrace and waitpid call; front ends (GUI, Lua, the    *)
(* ceserver bridge) post commands to it and block for the answer.  The     *)
(* session is all-stop: a reported event means every thread is stopped,    *)
(* and software breakpoints are written only then.                         *)
(*                                                                         *)
(* The tracer's code between two points at which it waits for a thread is  *)
(* one action.  ctl.pc names those points; waitForStop itself is the       *)
(* family of Wait... actions, since other threads' reports arrive there.   *)
(* Job-control stops, hardware watchpoints, signal masks during a step and *)
(* the temporary breakpoints of Step Over/Out/Run to Cursor are not in     *)
(* this module.                                                            *)
(***************************************************************************)
EXTENDS PtraceTask

CONSTANTS
    Client,           \* front-end threads that call the session
    RestoreAttempts   \* tries of detach to restore breakpoints (250)

ASSUME SessionConstants == RestoreAttempts \in Nat

VARIABLES
    ses,    \* the session object's fields
    ctl,    \* where the tracer thread is
    queue,  \* commands_
    caller  \* what each front-end thread is doing

vars == <<task, code, sent, got, left, ses, ctl, queue, caller>>

Mutations == {"set", "remove"}
Ops == Mutations \cup {"continue", "step", "select", "setip", "retry"}
Signals == Sig \cup {"brk", "step"}
\* Every set command issues at most one id, so the budget bounds them.
MaxBpId == CHOOSE n \in {b["op"] : b \in Budgets} : \A b \in Budgets : b["op"] <= n
BpRecord == [id : 1..MaxBpId, on : BOOLEAN, in : BOOLEAN, was : {"orig", "other"}]

Session ==
    [attached : BOOLEAN, stopped : BOOLEAN, recovery : BOOLEAN,
     traced : SUBSET Tid,                     \* traced_
     held : SUBSET Tid,                       \* stoppedTids_
     sig : [Tid -> Signals \cup {None}],      \* pendingSignals_
     rewind : SUBSET Tid,                     \* pendingRewinds_, back to their ip
     seen : [Tid -> Addr \cup {None}],        \* reportedPc_
     exits : SUBSET Tid,                      \* pendingExitStops_
     foreign : Seq(Tid \X (StopKinds \cup Sig)),  \* foreignStops_
     deferred : Seq(Tid \X Sig),              \* deferredStops_
     active : Tid \cup {None},                \* activeTid_
     bp : [Addr -> BpRecord \cup {None}],     \* softBreakpoints_
     nextId : 1..(MaxBpId + 1),               \* nextSoftBpId_
     gen : Nat,                               \* imageGeneration_
     exc : SUBSET Sig]                        \* exceptionBreakSignals_

\* A queued command: the caller, the operation, its address, id or thread.
Command == [c : Client, op : Ops, arg : Addr \cup Tid \cup (1..MaxBpId) \cup {None}]

\* Where the tracer is: waiting for cur (seizing, await, drain, step), or
\* between two waits.  why is what to do when the all-stop is complete.
Control ==
    [pc : {"off", "seize", "seizing", "loop", "hold", "await", "drain", "absorb",
           "perform", "cont", "resume", "step", "unwind", "cleanup"},
     why : {"none", "attach", "report", "held", "mutate", "resume", "failed", "cleanup"},
     cur : Tid \cup {None},      \* the thread waited for
     back : {"hold", "absorb"},  \* where absorbStop was called from
     asked : SUBSET Tid,         \* attempted
     tids : SUBSET Tid,          \* the threads resumeAllThreads works on
     gen : Nat,                  \* imageGeneration_ when the operation began
     ev : Tid \cup {None},       \* the thread to report after the all-stop
     cmd : Command \cup {None},  \* the command being performed
     held : BOOLEAN,             \* the command stopped a running target
     lift : Addr \cup {None},    \* the breakpoint lifted for a step
     ok : BOOLEAN,               \* the step executed its instruction
     said : BOOLEAN,             \* reportCount_ moved since doContinue began
     poked : BOOLEAN,            \* the cancelling interrupt was sent
     tried : BOOLEAN,            \* this turn of the loop tried to recover
     tries : Nat]                \* failed restorations of this detach

NoTids == [t \in Tid |-> None]
NoBps == [a \in Addr |-> None]

At(point) ==
    [pc |-> point, why |-> "none", cur |-> None, back |-> "hold", asked |-> {}, tids |-> {},
     gen |-> 0, ev |-> None, cmd |-> None, held |-> FALSE, lift |-> None, ok |-> FALSE,
     said |-> FALSE, poked |-> FALSE, tried |-> FALSE, tries |-> 0]

\* A ptrace or memory access that may be refused.
Try(ok) == IF ok THEN UNCHANGED left ELSE Spend("fault")

-----------------------------------------------------------------------------
(* Bookkeeping, as functions of the session record.                        *)

\* What tracerCleanup and seizeAllThreads forget.  Ids, the generation and
\* the exception breakpoints outlive an attachment.
Cleared(s) ==
    [s EXCEPT !.traced = {}, !.held = {}, !.sig = NoTids, !.rewind = {}, !.seen = NoTids,
              !.exits = {}, !.foreign = <<>>, !.deferred = <<>>, !.active = None,
              !.bp = NoBps, !.stopped = FALSE, !.recovery = FALSE]

\* retireThread for the threads of S; the last one ends the session.
Retire(s, S) ==
    LET rest == s.traced \ S
        held == s.held \ S
        without(q) == SelectSeq(q, LAMBDA e : e[1] \notin S)
        kept == [s EXCEPT !.traced = rest, !.held = held,
                          !.sig = [t \in Tid |-> IF t \in S THEN None ELSE @[t]],
                          !.rewind = @ \ S, !.exits = @ \ S,
                          !.seen = [t \in Tid |-> IF t \in S THEN None ELSE @[t]],
                          !.foreign = without(@), !.deferred = without(@),
                          !.active = IF @ \notin S THEN @
                                     ELSE IF held = {} THEN None ELSE CHOOSE t \in held : TRUE]
    IN IF S \cap s.traced = {} THEN s
       ELSE IF rest # {} THEN kept
       ELSE [kept EXCEPT !.bp = NoBps, !.recovery = FALSE, !.gen = @ + 1,
                         !.attached = FALSE, !.stopped = FALSE]

\* The registers of a thread show ip, unless it sits one byte past a trap.
PcOf(t) == IF task[t].past THEN None ELSE task[t].ip

\* Mutant of Executed: the old image's active thread is kept.
Executed_KeepsActive(s, t) ==
    [Cleared(s) EXCEPT !.gen = s.gen + 1, !.traced = {t}, !.held = {t},
                       !.seen = [NoTids EXCEPT ![t] = PcOf(t)], !.active = s.active, !.stopped = TRUE]

\* handleExec: everything known of the old image goes.
Executed(s, t) ==
    [Cleared(s) EXCEPT !.gen = s.gen + 1, !.traced = {t}, !.held = {t},
                       !.seen = [NoTids EXCEPT ![t] = PcOf(t)], !.active = t, !.stopped = TRUE]

\* reportStop.
Reported(s, t) == [s EXCEPT !.active = t, !.stopped = TRUE, !.seen[t] = task[t].ip]

\* reportHeldStop: the preferred thread, the active one, or any held one.
HeldReport(s, preferred) ==
    LET usable == s.held \ s.exits
        t == IF preferred \in usable THEN preferred
             ELSE IF s.active \in usable THEN s.active ELSE CHOOSE u \in usable : TRUE
    IN IF s.attached /\ s.stopped /\ usable # {}
       THEN [s EXCEPT !.active = t, !.seen[t] = PcOf(t)] ELSE s

\* A stop of t is recorded; t is kept frozen.
Note(s, t) == [s EXCEPT !.held = @ \cup {t}]

\* rewindSoftwareStop: back onto the trap, or owed until it can be done.
RewindTask(k, t, ok) == IF ok THEN [k EXCEPT ![t].past = FALSE] ELSE k
\* Mutant of Rewound: a refused rewind is not remembered.
Rewound_Forgotten(s, t, ok) == IF ok THEN s ELSE [s EXCEPT !.recovery = TRUE]

Rewound(s, t, ok) ==
    IF ok THEN s ELSE [s EXCEPT !.rewind = @ \cup {t}, !.recovery = TRUE]

\* isSoftwareStop at an address whose trap we wrote; handleStop also wants
\* the breakpoint active.
OnOurTrap(s, t, why) ==
    why = "brk" /\ task[t].why = "brk" /\ s.bp[task[t].ip] # None /\ s.bp[task[t].ip].in
OnBreakpoint(s, t) == s.bp[task[t].ip] # None /\ s.bp[task[t].ip].on

\* adoptClonedThread(t): the child is traced and frozen.  While its first
\* stop is awaited, another thread u may report a stop.  After SIGKILL the
\* parent's event message is no longer the child.
Adopted(s, t, u) ==
    LET c == task[t].msg
        first == [s EXCEPT !.traced = @ \cup {c}, !.held = @ \cup {c}]
    IN IF c = None THEN [s EXCEPT !.recovery = TRUE]
       ELSE IF c \in s.held \/ task[c].why # "event" THEN s
       ELSE IF u = None THEN first
       ELSE [Note(first, u) EXCEPT !.foreign = Append(@, <<u, task[u].why>>)]
AdoptTask(s, k, t, u) ==
    LET c == k[t].msg
        k1 == IF k[c].why = "exit" THEN Release(k, c) ELSE Reap(k, c)
    IN IF c = None \/ c \in s.held THEN k
       ELSE IF u = None THEN k1 ELSE Reap(k1, u)
AdoptMeets(s, t, u) ==
    \/ u = None
    \/ /\ task[t].msg # None /\ task[t].msg \notin s.held
       /\ u \in s.traced \ {t, task[t].msg}
       /\ task[u].rep = "new" /\ task[u].why \notin {"exit", "exec"}

-----------------------------------------------------------------------------
(* Software breakpoints in the target's code.                              *)

\* Mutant of Unpatched: the saved bytes are written back over anything.
Unpatched_Blind(a) == [code EXCEPT ![a] = ses.bp[a].was]

\* removeNativeSoftwareBreakpoint: our trap gives way to what it replaced;
\* other code found there is left alone and the record is dropped (trapGone).
Unpatched(a) == IF code[a] = "trap" THEN [code EXCEPT ![a] = ses.bp[a].was] ELSE code

\* liftSoftBreakpoint.
Lifted(s, a) ==
    IF s.bp[a].in /\ code[a] \notin {"trap", s.bp[a].was} THEN [s EXCEPT !.bp[a] = None]
    ELSE [s EXCEPT !.bp[a].in = FALSE]

\* Mutant of NeedsRearm: the breakpoint stays lifted after the step.
NeedsRearm_Never(s, a) == FALSE

\* rearmSoftBreakpoint has something to do.
NeedsRearm(s, a) == a # None /\ s.bp[a] # None /\ s.bp[a].on /\ ~s.bp[a].in
Rearmed(s, a, k) == [s EXCEPT !.bp[a] = [@ EXCEPT !.in = TRUE, !.was = k[a]]]

\* recoverBreakpoints: finish exit stops, rewind, remove what is no longer
\* wanted, re-arm the rest.  It stops at the first step that is refused
\* (stage); ok says whether it got to the end.
RecoverBreakpoints(ok) ==
    LET s1 == Retire(ses, ses.exits)
        k1 == [t \in Tid |-> IF t \in ses.exits THEN Release(task, t)[t] ELSE task[t]]
        drop == {a \in Addr : s1.bp[a] # None /\ ~s1.bp[a].on}
        arm == {a \in Addr : s1.bp[a] # None /\ s1.bp[a].on /\ ~s1.bp[a].in}
        s2 == [s1 EXCEPT !.rewind = {}]
        k2 == [t \in Tid |-> IF t \in s1.rewind THEN [k1[t] EXCEPT !.past = FALSE] ELSE k1[t]]
        s3 == [s2 EXCEPT !.bp = [a \in Addr |-> IF a \in drop THEN None ELSE @[a]]]
        c3 == [a \in Addr |-> IF a \in drop /\ code[a] = "trap" THEN s1.bp[a].was ELSE code[a]]
        s4 == [s3 EXCEPT !.recovery = FALSE,
                         !.bp = [a \in Addr |-> IF a \in arm THEN [@[a] EXCEPT !.in = TRUE, !.was = c3[a]]
                                                ELSE @[a]]]
        c4 == [a \in Addr |-> IF a \in arm THEN "trap" ELSE c3[a]]
    IN \/ /\ ses.traced # ses.held
          /\ ~ok /\ UNCHANGED <<ses, task, code, left>>
       \/ /\ ses.traced = ses.held /\ s1.traced = {}
          /\ ok /\ ses' = [s1 EXCEPT !.bp = NoBps, !.recovery = FALSE] /\ task' = k1
          /\ UNCHANGED <<code, left>>
       \/ /\ ses.traced = ses.held /\ s1.traced # {}
          /\ \E stage \in {"exit", "rewind", "remove", "rearm", "done"} :
                /\ ok = (stage = "done") /\ Try(ok)
                /\ stage = "exit" => ses.exits # {}
                /\ stage = "rewind" => s1.rewind # {}
                /\ stage = "remove" => drop # {}
                /\ stage = "rearm" => arm # {}
                /\ stage = "exit" => ses' = ses /\ task' = task /\ code' = code
                /\ stage = "rewind" => ses' = s1 /\ task' = k1 /\ code' = code
                /\ stage = "remove" => ses' = s2 /\ task' = k2 /\ code' = code
                /\ stage = "rearm" => ses' = s3 /\ task' = k2 /\ code' = c3
                /\ stage = "done" => ses' = s4 /\ task' = k2 /\ code' = c4

-----------------------------------------------------------------------------
(* Answers and returns: where the tracer goes when an operation ends.      *)

Blocked == UNCHANGED <<queue, caller>>

\* The command is answered (its promise is set) and the loop goes on.
Answer ==
    /\ ctl' = At("loop")
    /\ caller' = [caller EXCEPT ![ctl.cmd.c] = "idle"]
    /\ UNCHANGED queue

\* stopOtherThreads begins; afterwards the tracer does what why says.
Hold(why, t) ==
    [ctl EXCEPT !.pc = "hold", !.why = why, !.asked = {}, !.ev = t,
                !.gen = IF ctl.cmd = None THEN ses.gen ELSE @]

\* handleStop returned: to the loop, or to the step it interrupted.
Unwound(said) ==
    IF ctl.cmd = None THEN At("loop")
    ELSE [ctl EXCEPT !.pc = "unwind", !.ok = FALSE, !.said = @ \/ said]

\* doContinue returned result.  A command that had stopped a running target
\* reports the stop when the target could not be resumed.
EndContinue(s, result) ==
    /\ ses' = IF ctl.held /\ ~result /\ ~ctl.said THEN HeldReport(s, None) ELSE s
    /\ Answer

-----------------------------------------------------------------------------
(* waitForStop(cur), at seizing, await, drain and step.                    *)

Waiting == ctl.pc \in {"seizing", "await", "drain", "step"}

\* waitForStop answered false.
WaitFailed ==
    [ctl EXCEPT !.ok = FALSE,
                !.pc = CASE ctl.pc = "seizing" -> "seize"
                         [] ctl.pc = "await" -> "hold"
                         [] ctl.pc = "drain" -> ctl.back
                         [] ctl.pc = "step" -> "unwind"]

Unless(s) == IF ctl.cur \in s.traced THEN ctl ELSE WaitFailed

\* Another thread is reported: a new clone's first stop is recorded, any
\* other stop is queued for the all-stop to classify.
WaitOther(u) ==
    /\ Waiting /\ u # ctl.cur /\ task[u].mine
    /\ task[u].st = "stop" /\ task[u].rep = "new" /\ task[u].why \notin {"exit", "exec"}
    /\ ses' = IF u \notin ses.traced
              THEN [ses EXCEPT !.traced = @ \cup {u}, !.held = @ \cup {u}]
              ELSE [Note(ses, u) EXCEPT !.foreign = Append(@, <<u, task[u].why>>)]
    /\ task' = Reap(task, u)
    /\ ctl' = Unless(ses')
    /\ Blocked /\ UNCHANGED <<code, sent, got, left>>

\* finishExitStop(u) succeeded, or u's final status was reaped.
Leaves(u) == task' = Release(task, u) /\ ses' = Retire(ses, {u})

\* An exit stop is let go at once; if that is refused, it is owed.
WaitExit(u) ==
    /\ Waiting /\ task[u].mine /\ task[u].st = "stop" /\ task[u].why = "exit"
    /\ task[u].rep = "new" \/ (u = ctl.cur /\ task[u].rep = "stolen")
    /\ \E ok \in BOOLEAN :
        /\ Try(ok)
        /\ IF ok THEN Leaves(u)
           ELSE /\ task' = Reap(task, u)
                /\ ses' = [Note(ses, u) EXCEPT !.exits = @ \cup {u}, !.recovery = TRUE]
        /\ ctl' = IF ok /\ u # ctl.cur THEN Unless(ses') ELSE WaitFailed
    /\ Blocked /\ UNCHANGED <<code, sent, got>>

\* A final status: the thread was resumed at its exit stop.
WaitZombie(u) ==
    /\ Waiting /\ task[u].mine /\ task[u].st = "zombie"
    /\ Leaves(u)
    /\ ctl' = Unless(ses')
    /\ Blocked /\ UNCHANGED <<code, sent, got, left>>

\* handleExec(Leader).  A program of another user is let go, which ends the
\* session.
HandleExec ==
    \/ /\ ses' = Executed(ses, Leader) /\ task' = Reap(task, Leader)
       /\ UNCHANGED left
    \/ /\ ses' = Retire([ses EXCEPT !.held = {}, !.traced = {Leader}], {Leader})
       /\ task' = Detach(task, {Leader})
       /\ Spend("setuid")

\* The exec stop comes under the leader's tid: waitpid has it, or (the report
\* consumed elsewhere, the old leader retired) recoverRenamedExec finds it.
ExecVisible ==
    /\ task[Leader].mine /\ task[Leader].st = "stop" /\ task[Leader].why = "exec"
    /\ \/ task[Leader].rep = "new"
       \/ /\ task[Leader].rep = "stolen"
          /\ \/ Leader \notin ses.traced /\ task[Leader].msg \in ses.traced
             \/ Leader \in ses.traced /\ Leader \notin ses.held /\ ctl.cur \in {None, Leader}

WaitExec ==
    /\ Waiting /\ ExecVisible
    /\ HandleExec
    /\ ctl' = [WaitFailed EXCEPT !.said = TRUE]
    /\ Blocked /\ UNCHANGED <<code, sent, got>>

\* No traced task is left at all (ECHILD).
WaitGone ==
    /\ Waiting /\ \A t \in Tid : task[t].mine => task[t].st = "gone"
    /\ ses' = Retire(ses, {ctl.cur})
    /\ ctl' = WaitFailed
    /\ Blocked /\ UNCHANGED <<task, code, sent, got, left>>

\* cur itself stopped: by its report, or found by unreportedStopStatus.
CurStopped(point) ==
    /\ ctl.pc = point /\ task[ctl.cur].st = "stop"
    /\ task[ctl.cur].rep \in {"new", "stolen"}
    /\ task[ctl.cur].why \notin {"exit", "exec"}

\* detach() while a step is awaited: interrupt the thread, once.
CancelStep ==
    /\ ctl.pc = "step" /\ ~ses.attached /\ ~ctl.poked
    /\ task' = Interrupt(task, ctl.cur)
    /\ ctl' = [ctl EXCEPT !.poked = TRUE]
    /\ Blocked /\ UNCHANGED <<code, sent, got, left, ses>>

-----------------------------------------------------------------------------
(* stopOtherThreads and absorbStop.                                        *)

\* Interrupt the next thread that is not known to be stopped.
HoldAsk(t) ==
    /\ ctl.pc = "hold" /\ ses.gen = ctl.gen
    /\ t \in (ses.traced \ ses.held) \ ctl.asked
    /\ task' = Interrupt(task, t)
    /\ ctl' = [ctl EXCEPT !.pc = "await", !.cur = t, !.asked = @ \cup {t}]
    /\ Blocked /\ UNCHANGED <<code, sent, got, left, ses>>

\* Every traced thread was asked, or an exec replaced them all.
HoldAsked ==
    /\ ctl.pc = "hold"
    /\ ses.gen # ctl.gen \/ (ses.traced \ ses.held) \subseteq ctl.asked
    /\ ctl' = [ctl EXCEPT !.pc = "absorb", !.cur = None]
    /\ Blocked /\ UNCHANGED taskVars /\ UNCHANGED ses

\* Mutant of TrapQueued: the queue is not looked at.
TrapQueued_NotPeeked(k, t, why) == FALSE

\* queuedTrap: an interrupt stop was reported ahead of a breakpoint trap the
\* thread had already taken.
TrapQueued(k, t, why) == why = "event" /\ k[t].why = "event" /\ k[t].trap = "brk"

\* absorbStop(t, why) on the session s and the kernel state k: classify a stop
\* met during the all-stop, without reporting it.
Absorb(s, k, t, why, back) ==
    \/ /\ why = "clone"
       /\ \E u \in Tid \cup {None} :
            /\ AdoptMeets(s, t, u)
            /\ ses' = Adopted(s, t, u) /\ task' = AdoptTask(s, k, t, u)
       /\ ctl' = [ctl EXCEPT !.pc = back] /\ UNCHANGED left
    \/ \* the trap is still queued behind the interrupt: let it arrive
       /\ TrapQueued(k, t, why)
       /\ ses' = [s EXCEPT !.held = @ \ {t}] /\ task' = Resume(k, t, FALSE)
       /\ ctl' = [ctl EXCEPT !.pc = "drain", !.cur = t, !.back = back] /\ UNCHANGED left
    \/ \* our trap: rewound, not reported; it traps again when resumed
       /\ OnOurTrap(s, t, why)
       /\ \E ok \in BOOLEAN : /\ Try(ok)
                             /\ ses' = Rewound(s, t, ok) /\ task' = RewindTask(k, t, ok)
       /\ ctl' = [ctl EXCEPT !.pc = back]
    \/ /\ why \in Sig \cup {"brk", "step", "event"} /\ ~OnOurTrap(s, t, why)
       /\ ~TrapQueued(k, t, why)
       /\ ses' = IF why \in {"step", "event"} THEN s
                 ELSE [s EXCEPT !.sig[t] = why,
                                !.deferred = IF why \in s.exc THEN Append(@, <<t, why>>) ELSE @]
       /\ task' = k /\ ctl' = [ctl EXCEPT !.pc = back] /\ UNCHANGED left

AwaitCur ==
    /\ CurStopped("await")
    /\ Absorb(Note(ses, ctl.cur), Reap(task, ctl.cur), ctl.cur, task[ctl.cur].why, "hold")
    /\ Blocked /\ UNCHANGED <<code, sent, got>>

DrainCur ==
    /\ CurStopped("drain")
    /\ Absorb(Note(ses, ctl.cur), Reap(task, ctl.cur), ctl.cur, task[ctl.cur].why, ctl.back)
    /\ Blocked /\ UNCHANGED <<code, sent, got>>

\* absorbForeignStops: classify the next stop recorded while another thread
\* was awaited.
AbsorbForeign ==
    /\ ctl.pc = "absorb" /\ ses.foreign # <<>>
    /\ LET e == Head(ses.foreign)
           s == [ses EXCEPT !.foreign = Tail(@)]
       IN Absorb(Note(s, e[1]), task, e[1], e[2], "absorb")
    /\ Blocked /\ UNCHANGED <<code, sent, got>>

-----------------------------------------------------------------------------
(* The all-stop is complete: what each caller of stopOtherThreads or       *)
(* absorbForeignStops does next.                                           *)

AllStopped(why) == ctl.pc = "absorb" /\ ses.foreign = <<>> /\ ctl.why = why

\* Another image, or no session any more.
Overtaken == ses.gen # ctl.gen \/ ~ses.attached

\* handleStop: holdAll, then reportStop of the thread that stopped.
HoldReport ==
    /\ AllStopped("report")
    /\ ses' = IF Overtaken THEN ses ELSE Reported(ses, ctl.ev)
    /\ ctl' = Unwound(~Overtaken)
    /\ Blocked /\ UNCHANGED taskVars

\* handleStop: holdAll, then reportHeldStop, when the stop could not be handled.
HoldHeld ==
    /\ AllStopped("held")
    /\ ses' = IF Overtaken THEN ses ELSE HeldReport([ses EXCEPT !.stopped = TRUE], ctl.ev)
    /\ ctl' = Unwound(~Overtaken)
    /\ Blocked /\ UNCHANGED taskVars

\* Mutant of HoldMutate: an exec during the all-stop goes unnoticed.
HoldMutate_IgnoresExec ==
    /\ AllStopped("mutate")
    /\ ses' = [ses EXCEPT !.stopped = TRUE]
    /\ ctl' = [ctl EXCEPT !.pc = "perform", !.held = TRUE]
    /\ Blocked /\ UNCHANGED taskVars

\* performCommand stopped a running target for a breakpoint change.  If an
\* exec or the end came first, the request never reaches the new program.
HoldMutate ==
    /\ AllStopped("mutate")
    /\ IF Overtaken
       THEN /\ ses' = [ses EXCEPT !.stopped = @ \/ ses.attached] /\ Answer
       ELSE /\ ses' = [ses EXCEPT !.stopped = TRUE]
            /\ ctl' = [ctl EXCEPT !.pc = "perform", !.held = TRUE] /\ Blocked
    /\ UNCHANGED taskVars

\* resumeAllThreads starts, or refuses.
HoldResume ==
    /\ AllStopped("resume")
    /\ IF ses.gen # ctl.gen \/ ses.recovery \/ ses.traced # ses.held
       THEN EndContinue(ses, FALSE)
       ELSE /\ ctl' = [ctl EXCEPT !.pc = "resume", !.tids = ses.traced]
            /\ Blocked /\ UNCHANGED ses
    /\ UNCHANGED taskVars

\* resumeAllThreads stopped the threads it had already resumed.
HoldFailed ==
    /\ AllStopped("failed")
    /\ EndContinue(ses, FALSE)
    /\ UNCHANGED taskVars

-----------------------------------------------------------------------------
(* Commands: performCommand and what it calls.                             *)

\* A breakpoint change stops a running target first.
PerformHold ==
    /\ ctl.pc = "perform" /\ ctl.cmd.op \in Mutations /\ ~ses.stopped
    /\ ctl' = Hold("mutate", None)
    /\ Blocked /\ UNCHANGED taskVars /\ UNCHANGED ses

\* After a breakpoint change: resume a target that was running, or report it.
EndMutation(s) ==
    IF ~ctl.held \/ ~s.attached \/ ~s.stopped THEN ses' = s /\ Answer
    ELSE IF s.recovery THEN ses' = HeldReport(s, None) /\ Answer
    ELSE ses' = s /\ ctl' = [ctl EXCEPT !.pc = "cont"] /\ Blocked

(* installNativeSoftwareBreakpoint: refused over a trap that is there already
   and with no stopped thread to write through.  A write that fails after the
   trap is in place is undone, or left for recovery when that is refused too. *)
Install(a) == IF code[a] = "trap" \/ ses.held = {} THEN {"refused"} ELSE {"done", "undone", "left"}

\* doSetSoftBp.  The record exists before the trap is written, so a write
\* that fails half way still has an owner (recovery).
PerformSet ==
    /\ ctl.pc = "perform" /\ ctl.cmd.op = "set" /\ ses.stopped
    /\ LET a == ctl.cmd.arg
           new(on) == [id |-> ses.nextId, on |-> on, in |-> TRUE, was |-> code[a]]
           next == [ses EXCEPT !.nextId = @ + 1]
       IN \/ /\ ses.bp[a] # None
             /\ EndMutation(ses) /\ UNCHANGED <<code, left>>
          \/ /\ ses.bp[a] = None
             /\ \E out \in Install(a) :
                  /\ code' = IF out \in {"done", "left"} THEN [code EXCEPT ![a] = "trap"] ELSE code
                  /\ EndMutation(CASE out = "done" -> [next EXCEPT !.bp[a] = new(TRUE)]
                                   [] out = "left" -> [next EXCEPT !.bp[a] = new(FALSE), !.recovery = TRUE]
                                   [] OTHER -> next)
                  /\ IF out \in {"undone", "left"} THEN Spend("fault") ELSE UNCHANGED left
    /\ UNCHANGED <<task, sent, got>>

\* doRemoveSoftBp by id; an id that is not listed any more is removed already.
PerformRemove ==
    /\ ctl.pc = "perform" /\ ctl.cmd.op = "remove" /\ ses.stopped
    /\ LET has(a) == ses.bp[a] # None /\ ses.bp[a].id = ctl.cmd.arg
       IN \/ (\A a \in Addr : ~has(a)) /\ EndMutation(ses) /\ UNCHANGED <<code, left>>
          \/ \E a \in Addr :
                /\ has(a)
                /\ \/ /\ code' = IF ses.bp[a].in THEN Unpatched(a) ELSE code
                      /\ EndMutation([ses EXCEPT !.bp[a] = None]) /\ UNCHANGED left
                   \/ /\ ses.bp[a].in
                      /\ EndMutation([ses EXCEPT !.bp[a].on = FALSE, !.recovery = TRUE])
                      /\ Spend("fault") /\ UNCHANGED code
    /\ UNCHANGED <<task, sent, got>>

\* doSelectThread and doSetRegs (moving the instruction pointer).
PerformSelect ==
    /\ ctl.pc = "perform" /\ ctl.cmd.op = "select"
    /\ ses' = IF ctl.cmd.arg \in ses.held THEN [ses EXCEPT !.active = ctl.cmd.arg] ELSE ses
    /\ Answer /\ UNCHANGED taskVars

PerformSetIp ==
    /\ ctl.pc = "perform" /\ ctl.cmd.op = "setip"
    /\ task' = IF ses.stopped /\ ses.active \in ses.held
               THEN [task EXCEPT ![ses.active].ip = ctl.cmd.arg, ![ses.active].past = FALSE]
               ELSE task
    /\ Answer /\ UNCHANGED <<code, sent, got, left, ses>>

PerformRetry ==
    /\ ctl.pc = "perform" /\ ctl.cmd.op = "retry"
    /\ \E ok \in BOOLEAN : RecoverBreakpoints(ok)
    /\ Answer /\ UNCHANGED <<sent, got>>

\* doContinue.
PerformContinue ==
    /\ ctl.pc = "perform" /\ ctl.cmd.op = "continue"
    /\ IF ses.stopped THEN ctl' = [ctl EXCEPT !.pc = "cont"] /\ Blocked ELSE Answer
    /\ UNCHANGED taskVars /\ UNCHANGED ses

\* A hit another thread took during the last all-stop is reported first.
ContinueDeferred ==
    /\ ctl.pc = "cont" /\ ses.deferred # <<>>
    /\ LET e == Head(ses.deferred)
           s == [ses EXCEPT !.deferred = Tail(@)]
       IN IF e[1] \in s.held /\ e[2] \in s.exc
          THEN EndContinue(Reported(s, e[1]), TRUE)
          ELSE ses' = s /\ UNCHANGED ctl /\ Blocked
    /\ UNCHANGED taskVars

ContinueResume ==
    /\ ctl.pc = "cont" /\ ses.deferred = <<>>
    /\ ctl' = [ctl EXCEPT !.pc = "absorb", !.why = "resume", !.said = FALSE]
    /\ Blocked /\ UNCHANGED taskVars /\ UNCHANGED ses

-----------------------------------------------------------------------------
(* handleStop, for a stop of a thread that is traced already.              *)

\* A clone event: the child is adopted.  In a running target child and parent
\* go on; a refused resume, or a pending recovery, holds everything instead.
HandleClone(s, k, t, hold) ==
    \E u \in Tid \cup {None} :
      /\ AdoptMeets(s, t, u)
      /\ LET c == task[t].msg
             s1 == Adopted(s, t, u)
             k1 == AdoptTask(s, k, t, u)
             s2 == [s1 EXCEPT !.held = @ \ {c}]
             k2 == Resume(k1, c, FALSE)
             runs == ~hold /\ c \in s1.held
         IN \/ /\ s1.recovery \/ hold
               /\ ses' = IF runs THEN s2 ELSE s1
               /\ task' = IF runs THEN k2 ELSE k1
               /\ ctl' = Hold(IF s1.recovery THEN "held" ELSE "report", t)
               /\ UNCHANGED left
            \/ /\ ~s1.recovery /\ ~hold
               /\ \/ /\ ses' = [(IF runs THEN s2 ELSE s1) EXCEPT !.held = @ \ {t}]
                     /\ task' = Resume(IF runs THEN k2 ELSE k1, t, FALSE)
                     /\ ctl' = At("loop") /\ UNCHANGED left
                  \/ /\ runs /\ ses' = [s1 EXCEPT !.recovery = TRUE] /\ task' = k1
                     /\ ctl' = Hold("held", t) /\ Spend("fault")
                  \/ /\ ses' = (IF runs THEN s2 ELSE s1) /\ task' = (IF runs THEN k2 ELSE k1)
                     /\ ctl' = Hold("held", t) /\ Spend("fault")
      /\ UNCHANGED got

\* Our breakpoint: back onto the trap, stop everything, report.
HandleBreakpoint(s, k, t) ==
    /\ \E ok \in BOOLEAN : Try(ok) /\ ses' = Rewound(s, t, ok) /\ task' = RewindTask(k, t, ok)
    /\ ctl' = Hold("report", t)
    /\ UNCHANGED got

\* Everything else: interrupts and step traps are the debugger's and vanish,
\* signals (and traps that are not ours) are the program's.  They are reported
\* if they match an exception breakpoint or the target must stay stopped,
\* otherwise the thread goes on with its signal.
HandleSignal(s, k, t, why, hold) ==
    LET signal == IF why \in Sig \cup {"brk"} THEN why ELSE None
        kept == [s EXCEPT !.sig[t] = signal]
    IN \/ /\ hold \/ signal \in s.exc
          /\ ses' = kept /\ task' = k /\ ctl' = Hold("report", t)
          /\ UNCHANGED <<got, left>>
       \/ /\ ~hold /\ signal \notin s.exc
          /\ \/ /\ ses' = [s EXCEPT !.held = @ \ {t}] /\ task' = Resume(k, t, FALSE)
                /\ got' = IF signal = None \/ k[t].why = "exit" THEN got ELSE got \cup {<<t, signal>>}
                /\ ctl' = At("loop") /\ UNCHANGED left
             \/ /\ ses' = kept /\ task' = k /\ ctl' = Hold("held", t)
                /\ Spend("fault") /\ UNCHANGED got

HandleStop(s, k, t, why, hold) ==
    LET hit == OnOurTrap(s, t, why) /\ OnBreakpoint(s, t)
    IN \/ why = "clone" /\ HandleClone(s, k, t, hold)
       \/ hit /\ HandleBreakpoint(s, k, t)
       \/ why # "clone" /\ ~hit /\ HandleSignal(s, k, t, why, hold)

-----------------------------------------------------------------------------
(* Resuming and stepping.                                                  *)

\* A pending signal goes with the resume, unless the task is dying.
Delivered(t) == IF ses.sig[t] = None \/ task[t].why = "exit" THEN {} ELSE {<<t, ses.sig[t]>>}

\* Mutant of SingleStep: the signal given to the thread stays pending.
SingleStep_KeepsSignal(s, t) ==
    /\ task' = Resume(task, t, TRUE)
    /\ got' = got \cup Delivered(t)
    /\ ses' = [s EXCEPT !.held = @ \ {t}, !.seen[t] = None,
                        !.deferred = SelectSeq(@, LAMBDA e : e[1] # t)]

\* singleStepThread: t alone runs one instruction.
SingleStep(s, t) ==
    /\ task' = Resume(task, t, TRUE)
    /\ got' = got \cup Delivered(t)
    /\ ses' = [s EXCEPT !.sig[t] = None, !.held = @ \ {t}, !.seen[t] = None,
                        !.deferred = SelectSeq(@, LAMBDA e : e[1] # t)]

\* Threads whose reported stop is on a breakpoint must step over it.
StepsOver(t) == OnBreakpoint(ses, t) /\ ~task[t].past /\ ses.seen[t] = task[t].ip

\* stepThreadOverBp: lift the trap, run this thread alone over it.
ResumeStepOver(t) ==
    /\ ctl.pc = "resume" /\ t \in ctl.tids \cap ses.traced /\ StepsOver(t)
    /\ LET a == task[t].ip
       IN \/ /\ code' = IF ses.bp[a].in THEN Unpatched(a) ELSE code
             /\ SingleStep(Lifted(ses, a), t)
             /\ ctl' = [ctl EXCEPT !.pc = "step", !.cur = t, !.lift = a, !.poked = FALSE]
             /\ Blocked /\ UNCHANGED left
          \/ /\ ses.bp[a].in /\ Spend("fault")
             /\ EndContinue([ses EXCEPT !.recovery = TRUE], FALSE)
             /\ UNCHANGED <<task, code, got>>
    /\ UNCHANGED sent

\* The last loop of resumeAllThreads.  A refused resume stops the rest again.
ResumeRun ==
    /\ ctl.pc = "resume"
    /\ ~ \E t \in ctl.tids \cap ses.traced : StepsOver(t)
    /\ \E go \in SUBSET (ctl.tids \cap ses.traced), refused \in (ctl.tids \cap ses.traced) \cup {None} :
        LET all == go = ctl.tids \cap ses.traced
            s == [ses EXCEPT !.held = @ \ go,
                             !.sig = [t \in Tid |-> IF t \in go THEN None ELSE @[t]],
                             !.seen = [t \in Tid |-> IF t \in go \/ all \/ t = refused THEN None ELSE @[t]]]
        IN /\ refused \notin go /\ (all <=> refused = None)
           /\ task' = [t \in Tid |-> IF t \in go THEN Resume(task, t, FALSE)[t] ELSE task[t]]
           /\ got' = got \cup UNION {Delivered(t) : t \in go}
           /\ IF all THEN EndContinue([s EXCEPT !.stopped = FALSE], TRUE)
              ELSE ses' = s /\ ctl' = Hold("failed", None) /\ Blocked
           /\ Try(all)
    /\ UNCHANGED <<code, sent>>

\* doStep(Into): the active thread steps, over a breakpoint if it is on one.
PerformStep ==
    /\ ctl.pc = "perform" /\ ctl.cmd.op = "step"
    /\ LET t == IF ses.active = None THEN Leader ELSE ses.active
           a == task[t].ip
       IN IF ~ses.stopped \/ ses.recovery \/ t \notin ses.held
          THEN Answer /\ UNCHANGED taskVars /\ UNCHANGED ses
          ELSE \/ /\ OnBreakpoint(ses, t) => ~ses.bp[a].in
                  /\ SingleStep(ses, t)
                  /\ ctl' = [ctl EXCEPT !.pc = "step", !.cur = t, !.lift = IF OnBreakpoint(ses, t) THEN a ELSE None,
                                        !.poked = FALSE]
                  /\ Blocked /\ UNCHANGED <<code, sent, left>>
               \/ /\ OnBreakpoint(ses, t) /\ ses.bp[a].in
                  /\ code' = Unpatched(a)
                  /\ SingleStep(Lifted(ses, a), t)
                  /\ ctl' = [ctl EXCEPT !.pc = "step", !.cur = t, !.lift = a, !.poked = FALSE]
                  /\ Blocked /\ UNCHANGED <<sent, left>>
               \/ /\ OnBreakpoint(ses, t) /\ ses.bp[a].in
                  /\ ses' = [ses EXCEPT !.recovery = TRUE]
                  /\ Spend("fault") /\ Answer
                  /\ UNCHANGED <<task, code, sent, got>>

\* The stepped thread stopped.  Detach keeps a signal for delivery; an
\* interrupt that came first is stepped past; the step trap completes the
\* step; anything else is a stop to report.
StepCur ==
    LET t == ctl.cur
        why == task[t].why
        s == Note(ses, t)
        k == Reap(task, t)
    IN /\ CurStopped("step")
       /\ \/ /\ ~ses.attached
             /\ ses' = IF why \in Sig THEN [s EXCEPT !.sig[t] = why] ELSE s
             /\ task' = k /\ ctl' = [ctl EXCEPT !.pc = "unwind", !.ok = FALSE] /\ UNCHANGED <<left, got>>
          \/ /\ ses.attached /\ why = "event"
             /\ SingleStep(ses, t) /\ UNCHANGED <<left, ctl>>
          \/ /\ ses.attached /\ why = "step"
             /\ ses' = s /\ task' = k
             /\ ctl' = [ctl EXCEPT !.pc = "unwind", !.ok = TRUE] /\ UNCHANGED <<left, got>>
          \/ /\ ses.attached /\ why \notin {"event", "step"}
             /\ HandleStop(s, k, t, why, TRUE)
       /\ Blocked /\ UNCHANGED <<code, sent>>

\* stepThreadOverBp re-arms the lifted breakpoint, unless the image changed.
Unwind ==
    /\ ctl.pc = "unwind"
    /\ LET due == ctl.lift # None /\ ses.gen = ctl.gen /\ NeedsRearm(ses, ctl.lift)
           finish(s, ok) ==
             IF ctl.cmd.op = "step"
             THEN /\ ses' = IF ok /\ s.attached /\ ~s.recovery THEN Reported(s, ctl.cur) ELSE s
                  /\ Answer
             ELSE IF ok THEN ses' = s /\ ctl' = [ctl EXCEPT !.pc = "resume", !.lift = None] /\ Blocked
             ELSE EndContinue(s, FALSE)
       IN \/ /\ ~due /\ finish(ses, ctl.ok) /\ UNCHANGED <<code, left>>
          \/ /\ due /\ ses.held # {} /\ code[ctl.lift] # "trap"
             /\ code' = [code EXCEPT ![ctl.lift] = "trap"]
             /\ finish(Rearmed(ses, ctl.lift, code), ctl.ok) /\ UNCHANGED left
          \/ /\ due /\ finish([ses EXCEPT !.recovery = TRUE], FALSE)
             /\ IF ses.held # {} /\ code[ctl.lift] # "trap" THEN Spend("fault") ELSE UNCHANGED left
             /\ UNCHANGED code
    /\ UNCHANGED <<task, sent, got>>

-----------------------------------------------------------------------------
(* The tracer's main loop.                                                 *)

InLoop == ctl.pc = "loop" /\ ses.attached /\ (ses.recovery => ctl.tried)

LoopRecover ==
    /\ ctl.pc = "loop" /\ ses.attached /\ ses.recovery /\ ~ctl.tried
    /\ \E ok \in BOOLEAN : RecoverBreakpoints(ok) /\ ctl' = [ctl EXCEPT !.tried = ~ok]
    /\ Blocked /\ UNCHANGED <<sent, got>>

\* Stops recorded while another thread was awaited are handled as if just
\* reported.  (In a stopped target the loop would classify them instead; every
\* all-stop ends with none left, so there the loop never finds any.)
LoopForeign ==
    /\ InLoop /\ ses.foreign # <<>> /\ ~ses.stopped
    /\ LET e == Head(ses.foreign)
           s == [ses EXCEPT !.foreign = Tail(@)]
       IN IF e[1] \in s.traced
          THEN HandleStop(Note(s, e[1]), task, e[1], e[2], FALSE)
          ELSE ses' = s /\ ctl' = At("loop") /\ UNCHANGED <<task, got, left>>
    /\ Blocked /\ UNCHANGED <<code, sent>>

\* performCommand: a pending recovery comes first.
LoopCommand ==
    /\ InLoop /\ ses.foreign = <<>> /\ queue # <<>>
    /\ LET cmd == Head(queue)
           begin(s) == [At("perform") EXCEPT !.cmd = cmd, !.gen = s.gen]
       IN IF ses.recovery /\ cmd.op # "retry"
          THEN \E ok \in BOOLEAN :
                 /\ RecoverBreakpoints(ok)
                 /\ ctl' = IF ok THEN begin(ses') ELSE At("loop")
                 /\ caller' = IF ok THEN caller ELSE [caller EXCEPT ![cmd.c] = "idle"]
          ELSE /\ ctl' = begin(ses)
               /\ UNCHANGED <<ses, task, code, left, caller>>
    /\ queue' = Tail(queue)
    /\ UNCHANGED <<sent, got>>

\* Mutant of LoopSees: only waitpid is asked.
LoopSees_NoProbe(t) ==
    /\ InLoop /\ ses.foreign = <<>> /\ queue = <<>>
    /\ task[t].mine /\ task[t].st = "stop" /\ task[t].rep = "new"

\* waitpid found a stop, or (nothing to wait for) the probe found one whose
\* report another launcher thread consumed.
LoopSees(t) ==
    /\ InLoop /\ ses.foreign = <<>> /\ queue = <<>>
    /\ task[t].mine /\ task[t].st = "stop"
    /\ \/ task[t].rep = "new"
       \/ /\ task[t].rep = "stolen" /\ \A u \in Tid : task[u].mine => task[u].rep # "new"
          /\ t \in ses.traced /\ (t \notin ses.held \/ task[t].why = "exit")

LoopPoll(t) ==
    /\ LoopSees(t) /\ task[t].why \notin {"exit", "exec"}
    /\ IF t \in ses.traced
       THEN HandleStop(Note(ses, t), Reap(task, t), t, task[t].why, ses.stopped)
       ELSE /\ ses' = [ses EXCEPT !.traced = @ \cup {t}, !.held = @ \cup {t}]
            /\ task' = Reap(task, t) /\ ctl' = At("loop") /\ UNCHANGED <<got, left>>
    /\ Blocked /\ UNCHANGED <<code, sent>>

LoopExit(t) ==
    /\ LoopSees(t) /\ task[t].why = "exit"
    /\ \E ok \in BOOLEAN :
        /\ Try(ok)
        /\ IF ok THEN Leaves(t) /\ ctl' = At("loop")
           ELSE /\ task' = Reap(task, t)
                /\ ses' = [Note(ses, t) EXCEPT !.exits = @ \cup {t}, !.recovery = TRUE]
                /\ ctl' = Hold("held", None)
    /\ Blocked /\ UNCHANGED <<code, sent, got>>

LoopZombie(t) ==
    /\ InLoop /\ ses.foreign = <<>> /\ queue = <<>>
    /\ task[t].mine /\ task[t].st = "zombie"
    /\ Leaves(t) /\ ctl' = At("loop")
    /\ Blocked /\ UNCHANGED <<code, sent, got, left>>

LoopExec ==
    /\ InLoop /\ ses.foreign = <<>> /\ queue = <<>> /\ ExecVisible
    /\ HandleExec /\ ctl' = At("loop")
    /\ Blocked /\ UNCHANGED <<code, sent, got>>

LoopGone ==
    /\ InLoop /\ ses.foreign = <<>> /\ queue = <<>>
    /\ \A t \in Tid : task[t].mine => task[t].st = "gone"
    /\ ses' = Retire(ses, ses.traced) /\ ctl' = At("loop")
    /\ Blocked /\ UNCHANGED taskVars

-----------------------------------------------------------------------------
(* Attaching and detaching.                                                *)

\* seizeAllThreads: one thread at a time, listing again until nothing is new.
Seize(t) ==
    /\ ctl.pc = "seize" /\ task[t].st = "run" /\ t \notin ctl.asked
    /\ IF t \in ses.traced
       THEN ctl' = [ctl EXCEPT !.asked = @ \cup {t}] /\ UNCHANGED <<task, ses>>
       ELSE /\ task' = Interrupt([task EXCEPT ![t].mine = TRUE], t)
            /\ ses' = [ses EXCEPT !.traced = @ \cup {t}]
            /\ ctl' = [ctl EXCEPT !.pc = "seizing", !.cur = t, !.asked = @ \cup {t}]
    /\ Blocked /\ UNCHANGED <<code, sent, got, left>>

SeizeCur ==
    LET t == ctl.cur
        why == task[t].why
        s == Note(ses, t)
    IN /\ CurStopped("seizing")
       /\ IF why = "clone"
          THEN \E u \in Tid \cup {None} :
                 /\ AdoptMeets(s, t, u)
                 /\ ses' = Adopted(s, t, u) /\ task' = AdoptTask(s, Reap(task, t), t, u)
                 /\ ctl' = IF task[t].msg = None THEN Hold("cleanup", None)
                           ELSE [ctl EXCEPT !.pc = "seize"]
          ELSE /\ ses' = IF why \in Signals THEN [s EXCEPT !.sig[t] = why] ELSE s
               /\ task' = Reap(task, t) /\ ctl' = [ctl EXCEPT !.pc = "seize"]
       /\ Blocked /\ UNCHANGED <<code, sent, got, left>>

SeizeDone ==
    /\ ctl.pc = "seize" /\ \A t \in Tid : task[t].st = "run" => t \in ctl.asked
    /\ ctl' = Hold(IF ses.held = {} THEN "cleanup" ELSE "attach", None)
    /\ Blocked /\ UNCHANGED taskVars /\ UNCHANGED ses

\* tracerThread after the seize: attached and all-stopped, or not at all.
HoldAttach ==
    /\ AllStopped("attach")
    /\ IF ses.traced = {} \/ ses.traced # ses.held
       THEN ctl' = Hold("cleanup", None) /\ UNCHANGED <<ses, caller>>
       ELSE /\ ses' = [ses EXCEPT !.attached = TRUE, !.stopped = TRUE,
                         !.active = IF Leader \in ses.held THEN Leader
                                    ELSE CHOOSE t \in ses.held : TRUE]
            /\ ctl' = At("loop")
            /\ caller' = [c \in Client |-> IF caller[c] = "attach" THEN "idle" ELSE caller[c]]
    /\ UNCHANGED queue /\ UNCHANGED taskVars

\* The loop ends when attached_ is false: tracerCleanup.
LoopEnd ==
    /\ ctl.pc = "loop" /\ ~ses.attached
    /\ ctl' = Hold("cleanup", None)
    /\ Blocked /\ UNCHANGED taskVars /\ UNCHANGED ses

HoldCleanup ==
    /\ AllStopped("cleanup")
    /\ ses' = [ses EXCEPT !.recovery = TRUE, !.deferred = <<>>,
                 !.bp = [a \in Addr |-> IF @[a] = None THEN None ELSE [@[a] EXCEPT !.on = FALSE]]]
    /\ ctl' = [ctl EXCEPT !.pc = "cleanup"]
    /\ Blocked /\ UNCHANGED taskVars

CleanupRetry ==
    /\ ctl.pc = "cleanup" /\ ctl.tries <= RestoreAttempts
    /\ RecoverBreakpoints(FALSE)
    /\ ctl' = [(IF ctl.tries < RestoreAttempts THEN Hold("cleanup", None) ELSE ctl)
                 EXCEPT !.tries = ctl.tries + 1]
    /\ Blocked /\ UNCHANGED <<sent, got>>

CleanupRestored ==
    /\ ctl.pc = "cleanup" /\ ses.recovery
    /\ RecoverBreakpoints(TRUE)
    /\ UNCHANGED <<ctl, sent, got>> /\ Blocked

\* Mutants of CleanupDone: the target is detached before its code is
\* restored; the callers still queued are forgotten.
CleanupDone_NotRestored ==
    /\ ctl.pc = "cleanup"
    /\ task' = Detach(task, {t \in Tid : task[t].mine})
    /\ got' = got \cup UNION {Delivered(t) : t \in ses.held}
    /\ ses' = [Cleared(ses) EXCEPT !.attached = FALSE]
    /\ ctl' = At("off")
    /\ queue' = <<>> /\ caller' = [c \in Client |-> "idle"]
    /\ UNCHANGED <<code, sent, left>>

CleanupDone_ForgetsQueue ==
    LET mine == {t \in Tid : task[t].mine}
    IN /\ ctl.pc = "cleanup" /\ (ses.recovery => ctl.tries > RestoreAttempts)
       /\ task' = Detach(task, mine)
       /\ got' = got \cup UNION {Delivered(t) : t \in ses.held}
       /\ ses' = [Cleared(ses) EXCEPT !.attached = FALSE]
       /\ ctl' = At("off")
       /\ queue' = <<>>
       /\ caller' = [c \in Client |-> IF caller[c] = "join" THEN "idle" ELSE caller[c]]
       /\ UNCHANGED <<code, sent, left>>

\* Every task is detached with its pending signal (one that was never found
\* stopped is released by the tracer thread's exit), every waiting caller
\* answered.
CleanupDone ==
    LET mine == {t \in Tid : task[t].mine}
        unseen == {t \in mine \ ses.held : task[t].st = "stop" /\ task[t].why \in Signals}
    IN /\ ctl.pc = "cleanup" /\ (ses.recovery => ctl.tries > RestoreAttempts)
       /\ task' = Detach(task, mine)
       /\ got' = got \cup UNION {Delivered(t) : t \in ses.held} \cup {<<t, task[t].why>> : t \in unseen}
       /\ ses' = [Cleared(ses) EXCEPT !.attached = FALSE]
       /\ ctl' = At("off")
       /\ queue' = <<>> /\ caller' = [c \in Client |-> "idle"]
       /\ UNCHANGED <<code, sent, left>>

-----------------------------------------------------------------------------
(* Front ends.                                                             *)

Attach(c) ==
    /\ caller[c] = "idle" /\ ctl.pc = "off" /\ Spend("op")
    /\ ses' = Cleared(ses)
    /\ ctl' = At("seize")
    /\ caller' = [caller EXCEPT ![c] = "attach"]
    /\ UNCHANGED <<task, code, sent, got, queue>>

\* detach(): clear attached_, then join the tracer.
DetachCall(c) ==
    /\ caller[c] = "idle" /\ ses.attached /\ Spend("op")
    /\ ses' = [ses EXCEPT !.attached = FALSE]
    /\ caller' = [caller EXCEPT ![c] = "join"]
    /\ UNCHANGED <<task, code, sent, got, ctl, queue>>

\* postCommand: refused when not attached, otherwise queued and awaited.
Post(c, cmd) ==
    /\ caller[c] = "idle" /\ ses.attached /\ Spend("op")
    /\ queue' = Append(queue, cmd)
    /\ caller' = [caller EXCEPT ![c] = "wait"]
    /\ UNCHANGED <<task, code, sent, got, ses, ctl>>

Request(c) ==
    {[c |-> c, op |-> op, arg |-> None] : op \in {"continue", "step", "retry"}}
    \cup {[c |-> c, op |-> op, arg |-> a] : op \in {"set", "setip"}, a \in Addr}
    \cup {[c |-> c, op |-> "remove", arg |-> i] : i \in 1..(ses.nextId - 1)}
    \cup {[c |-> c, op |-> "select", arg |-> t] : t \in ses.traced}

\* addExceptionBreakpoint and removeExceptionBreakpoint act at once.
ToggleException(s) ==
    /\ Spend("op")
    /\ ses' = [ses EXCEPT !.exc = IF s \in @ THEN @ \ {s} ELSE @ \cup {s}]
    /\ UNCHANGED <<task, code, sent, got, ctl, queue, caller>>
-----------------------------------------------------------------------------
Init ==
    /\ TaskInit
    /\ ses = [attached |-> FALSE, stopped |-> FALSE, recovery |-> FALSE, traced |-> {},
              held |-> {}, sig |-> NoTids, rewind |-> {}, seen |-> NoTids, exits |-> {},
              foreign |-> <<>>, deferred |-> <<>>, active |-> None, bp |-> NoBps,
              nextId |-> 1, gen |-> 0, exc |-> {}]
    /\ ctl = At("off")
    /\ queue = <<>>
    /\ caller = [c \in Client |-> "idle"]

sessionVars == <<ses, ctl, queue, caller>>

\* The tracer thread: waits, all-stops, commands, the loop, attach and detach.
TracerNext ==
    \/ \E t \in Tid : \/ WaitOther(t) \/ WaitExit(t) \/ WaitZombie(t)
                      \/ HoldAsk(t) \/ ResumeStepOver(t) \/ Seize(t)
                      \/ LoopPoll(t) \/ LoopExit(t) \/ LoopZombie(t)
    \/ WaitExec \/ WaitGone \/ CancelStep
    \/ HoldAsked \/ AwaitCur \/ DrainCur \/ AbsorbForeign
    \/ HoldReport \/ HoldHeld \/ HoldMutate \/ HoldResume \/ HoldFailed
    \/ HoldAttach \/ HoldCleanup
    \/ PerformHold \/ PerformSet \/ PerformRemove \/ PerformSelect \/ PerformSetIp
    \/ PerformRetry \/ PerformContinue \/ PerformStep
    \/ ContinueDeferred \/ ContinueResume \/ ResumeRun
    \/ StepCur \/ Unwind
    \/ LoopRecover \/ LoopForeign \/ LoopCommand \/ LoopExec \/ LoopGone \/ LoopEnd
    \/ SeizeCur \/ SeizeDone \/ CleanupRetry \/ CleanupRestored \/ CleanupDone

ClientNext ==
    \/ \E c \in Client : Attach(c) \/ DetachCall(c) \/ \E cmd \in Request(c) : Post(c, cmd)
    \/ \E s \in Sig : ToggleException(s)

TargetNext == TaskNext /\ UNCHANGED sessionVars

Next == TracerNext \/ ClientNext \/ TargetNext

Spec == Init /\ [][Next]_vars
\* The tracer never stops polling; the kernel delivers what is pending to a
\* task that is running, completes an exec once the siblings are released,
\* and lets a single-stepped task execute.
Fairness ==
    /\ WF_vars(TracerNext)
    /\ \A t \in Tid : /\ WF_vars(TakeStop(t) /\ UNCHANGED sessionVars)
                      /\ WF_vars(ExecDone(t) /\ UNCHANGED sessionVars)
                      /\ WF_vars(task[t].tf /\ (Execute(t) \/ ExecuteTrap(t)) /\ UNCHANGED sessionVars)

FairSpec == Spec /\ Fairness

-----------------------------------------------------------------------------
\* Every field of the session, the tracer's place and the kernel state has
\* its type.
TypeOK ==
    /\ TaskTypeOK
    /\ ses \in Session
    /\ ctl \in Control
    /\ queue \in Seq(Command)
    /\ caller \in [Client -> {"idle", "attach", "wait", "join"}]

\* A thread never runs from the middle of the instruction a breakpoint
\* replaced: one byte past a trap it is stopped, or its trap is still queued.
\* The rewind may be owed (refused once), the breakpoint removed, the session
\* detached meanwhile.
NoTornThread ==
    \A t \in Tid : task[t].st = "run" /\ task[t].past => task[t].trap = "brk"

\* No trap of a breakpoint is ever delivered to the program, which would kill
\* it: not when the interrupt overtakes the trap, the breakpoint is removed,
\* or the session detaches while the trap is queued.
TrapNeverDelivered == \A t \in Tid : <<t, "brk">> \notin got

\* Whatever trap is in a living program's code is recorded as installed by the
\* session; after a detach none is left.
TrapsOwned ==
    (\E t \in Tid : Alive(t)) =>
        \A a \in Addr : code[a] = "trap" => ses.bp[a] # None /\ ses.bp[a].in

\* While a breakpoint is lifted for one thread to step over it, no other
\* thread runs past it unnoticed.
NoSilentPass ==
    \A a \in Addr, t \in Tid :
        /\ ses.bp[a] # None /\ ses.bp[a].on /\ code[a] = "orig"
        /\ task[t].st = "run" /\ task[t].mine
        => ctl.pc = "step" /\ ctl.cur = t /\ ctl.lift = a

\* A command never patches a program that replaced (exec) the one it was
\* taken from the queue for: neither the request itself nor the re-arming of
\* the breakpoint it lifted.
NoPatchAcrossExec ==
    [][code' # code /\ ses' # ses =>
         /\ ctl.cmd # None => ses.gen = ctl.gen
         /\ ~(task[Leader].why = "exec" /\ task[Leader].rep # "no")]_vars

\* Code that replaced a trap (or was there before it) is never overwritten
\* with bytes saved earlier.
NewCodeKept ==
    [][\A a \in Addr :
         \/ code[a] = "other"
         \/ code[a] = "trap" /\ ses.bp[a] # None /\ ses.bp[a].was = "other"
         => code'[a] # "orig"]_vars

\* All-stop: when the tracer is idle and says the target is stopped, every
\* thread of it is, and (unless all are being killed) the active thread is one
\* of those the session holds, and no recorded stop is left unclassified.
AllStop ==
    ctl.pc = "loop" /\ ses.attached /\ ses.stopped =>
        /\ \A t \in Tid : task[t].mine => task[t].st \notin {"run", "exec"}
        /\ (\E t \in ses.traced : Alive(t)) => ses.active \in ses.held
        /\ ses.held \subseteq ses.traced
        /\ ses.foreign = <<>>

\* Where a signal sent to a live thread can be: queued in the kernel, in a stop
\* nobody looked at, in a stop recorded for later, kept for the next resume, or
\* delivered.
Places(t, s) ==
    (IF s \in task[t].sigs THEN {"queued"} ELSE {})
    \cup (IF task[t].why = s /\ task[t].rep # "no" THEN {"stopped"} ELSE {})
    \cup (IF \E i \in DOMAIN ses.foreign : ses.foreign[i] = <<t, s>> THEN {"recorded"} ELSE {})
    \cup (IF ses.sig[t] = s THEN {"kept"} ELSE {})
    \cup (IF <<t, s>> \in got THEN {"delivered"} ELSE {})

\* Signals of the program are neither lost nor delivered twice.
SignalsConserved ==
    \A t \in Tid, s \in Sig : <<t, s>> \in sent /\ Alive(t) => Cardinality(Places(t, s)) = 1

\* Every caller gets its answer: a posted command, an attach and a detach end,
\* whatever the target does meanwhile.
CallersAnswered == \A c \in Client : caller[c] # "idle" ~> caller[c] = "idle"

\* A breakpoint trap is reported (the target is all-stopped) or the session
\* has ended.
HitsReported ==
    \A t \in Tid : ses.attached /\ ~ses.stopped /\ task[t].why = "brk" ~> ses.stopped \/ ~ses.attached

\* The program gets its own signals exactly once and the session's traps never.
SignalsOwned == TrapNeverDelivered /\ SignalsConserved

\* While the session says stopped every thread is, and one that steps over a
\* lifted breakpoint is the only one running.
HeldTogether == AllStop /\ NoSilentPass

\* Refused writes and requests leave neither a trap nobody knows of nor a
\* thread in the middle of a replaced instruction.
CodeIntact == TypeOK /\ NoTornThread /\ TrapsOwned
=============================================================================
