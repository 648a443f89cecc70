--------------------------- MODULE MCDebugSession ---------------------------
(***************************************************************************)
(* Instances of DebugSession for TLC: which events each run allows.  "op"  *)
(* counts the calls of the front ends; the other entries are events of the *)
(* target, the kernel or the launcher.                                     *)
(***************************************************************************)
EXTENDS DebugSession, TLC

CONSTANTS t1, t2, t3, c1, c2

NoEvents == [k \in EventKinds |-> 0]

\* Two front ends, only the debugger's own traps and interrupts.
Commands == [NoEvents EXCEPT !["op"] = 5]

\* Signals of the program, also with exception breakpoints.
Signalled == [NoEvents EXCEPT !["op"] = 4, !["signal"] = 1]

\* A thread is created.
Cloning == [NoEvents EXCEPT !["op"] = 3, !["clone"] = 1]

\* Requests to the kernel and writes to the target are refused.
Refused == [NoEvents EXCEPT !["op"] = 4, !["fault"] = 1]

\* Other code appears where a breakpoint is.
Rewritten == [NoEvents EXCEPT !["op"] = 4, !["rewrite"] = 1, !["fault"] = 1]

\* Another program is executed.
Executing == [NoEvents EXCEPT !["op"] = 4, !["exec"] = 1, !["steal"] = 1, !["setuid"] = 1]

\* Reports are lost to the launcher, and the program is killed.
Dying == [NoEvents EXCEPT !["op"] = 4, !["kill"] = 1, !["steal"] = 1]

\* A thread exits or executes another program.
Leaving == [NoEvents EXCEPT !["op"] = 4, !["exit"] = 1, !["exec"] = 1]

\* The scenarios of each run.
AnySafe == {Commands, Signalled, Executing, Cloning}
AnyLive == {Dying, Leaving, Refused, Rewritten}

ClientSymmetry == Permutations({c1, c2})
=============================================================================
