---------------------------- MODULE MCDebugTools ----------------------------
(***************************************************************************)
(* The code finder and the tracer on one program, with the scenarios TLC   *)
(* starts from.  A thread has one tracer: the second tool is refused and   *)
(* must leave the first alone.                                             *)
(***************************************************************************)
EXTENDS CodeFinder, Tracer
CONSTANTS t1, t2, t3

vars == <<kernelVars, finderVars, tr>>

Init ==
    \E s \in Scenarios :
        /\ KernelInit(s.start) /\ FinderInit(s.how) /\ TracerInit(s.cfg) /\ left = s.events

Program == KernelNext(~fi.how.single) /\ UNCHANGED <<finderVars, tr>>

Next ==
    \/ Program
    \/ FinderNext /\ UNCHANGED tr
    \/ TracerNext /\ UNCHANGED finderVars

\* The threads of the tools run, and so do the program's: one that is let go
\* on takes the stops pending for it and executes its next instruction.
Fairness ==
    /\ WF_vars(MonitorNext /\ UNCHANGED tr) /\ WF_vars(TraceWorker /\ UNCHANGED finderVars)
    /\ \A c \in Callers : WF_vars((StartAnswered(c) \/ StopLocked(c) \/ Joined(c)) /\ UNCHANGED tr)
    /\ \A t \in Tid :
        /\ WF_vars((TakeStop(t) \/ Work(t) \/ ExecDone(t)) /\ UNCHANGED <<finderVars, tr>>)
        /\ WF_vars(task[t].at # None /\ (Access(t, "touch") \/ Access(t, "near")) /\ UNCHANGED tr)

Spec == Init /\ [][Next]_vars /\ Fairness

-----------------------------------------------------------------------------
\* A trap caused by a tool never reaches the program, which it would end: an
\* interrupt that overtook it, a cancel, an exec or a refused request included.
\* (Known gaps: a guard fault, or a step, that an interrupt overtook is not
\* looked for when the thread is let go.)
TrapsNeverDelivered ==
    \A t \in Tid : /\ <<t, "hw">> \notin got
                   /\ <<t, "step">> \in got => tr.th[t].late
                   /\ <<t, "fault">> \in got \/ <<t, "near">> \in got => fi.th[t].late

\* With both tools idle again the program is as it was found: no thread is
\* traced, none has a debug register armed, the page is accessible, and every
\* signal it was sent was delivered or is still queued.
LeftAsFound ==
    /\ fi.pc = "idle" /\ (\E t \in Tid : Alive(t)) => page = "open"
    /\ fi.pc = "idle" /\ tr.pc = "idle" =>
        \A t \in Tid : Alive(t) =>
            /\ task[t].by = None /\ ~task[t].hw
            /\ \A s \in Sig : <<t, s>> \in sent => s \in task[t].sigs \/ <<t, s>> \in got

\* The program is left as it was found and never sees the tools' traps.
Undisturbed == TrapsNeverDelivered /\ LeftAsFound

\* A watch misses no access of a thread it holds, and a trace no instruction
\* of the frame it follows.
NothingMissed == EveryAccessRecorded /\ FrameKept

\* Stopping a watch and cancelling a trace end.
StopsEnd == StopReturns /\ CancelEndsTrace

-----------------------------------------------------------------------------
(* A scenario: the threads at first, how the finder watches, and the events
   that happen once or twice. *)
Scen(start, how, once, twice) ==
    [start |-> start, how |-> how, cfg |-> [start |-> TRUE, over |-> TRUE],
     events |-> [e \in Events |-> IF e \in twice THEN 2 ELSE IF e \in once THEN 1 ELSE 0]]
Hw == [soft |-> FALSE, single |-> FALSE, arm |-> FALSE]
Sw == [Hw EXCEPT !.soft = TRUE]
ArmHw == [Hw EXCEPT !.arm = TRUE]
One == [Hw EXCEPT !.single = TRUE]
HwClones == Scen({t1}, Hw, {"start", "stop", "clone", "exit"}, {"touch"})
HwSignals == Scen({t1, t2}, Hw, {"start", "stop", "signal", "fault", "touch"}, {})
HwExec == Scen({t1, t2}, Hw, {"start", "exec", "stop", "touch"}, {})
SoftTouches == Scen({t1, t2}, Sw, {"start", "stop", "near", "fault", "touch"}, {})
SoftClones == Scen({t1}, Sw, {"start", "stop", "clone", "kill", "touch"}, {})
SoftSignals == Scen({t1, t2}, Sw, {"start", "stop", "signal"}, {"touch"})
SoftExec == Scen({t1, t2}, Sw, {"start", "exec", "stop", "touch", "fault"}, {})
Arm == Scen({t1, t2}, ArmHw, {"start", "stop", "signal", "fault", "touch"}, {})
Single == Scen({t1, t2}, One, {"start", "stop", "clone", "fault"}, {"touch"})
Callers2 == Scen({t1}, Hw, {"touch", "exit"}, {"start", "stop"})
Traced(start, here, once, twice) ==
    [Scen(start, Hw, once \cup {"trace"}, twice) EXCEPT !.cfg.start = ~here]
TraceClones == Traced({t1}, FALSE, {"cancel", "clone", "reach", "deep"}, {})
TraceTwo == Traced({t1, t2}, FALSE, {"cancel", "signal"}, {"reach"})
TraceFaults == Traced({t1, t2}, FALSE, {"cancel", "reach", "fault", "exit"}, {})
TraceExec == Traced({t1, t2}, FALSE, {"cancel", "exec", "reach"}, {})
TraceKill == Traced({t1, t2}, FALSE, {"cancel", "kill", "reach"}, {})
TraceHere == Traced({t1}, TRUE, {"clone", "signal", "deep", "reach", "cancel"}, {})
Both == Traced({t1}, FALSE, {"start", "stop", "touch", "cancel"}, {})

AllScenarios == {HwClones, HwSignals, HwExec, SoftTouches, SoftClones, SoftSignals, SoftExec, Arm, Single, Callers2,
                 TraceClones, TraceTwo, TraceFaults, TraceExec, TraceKill, TraceHere, Both}
=============================================================================
