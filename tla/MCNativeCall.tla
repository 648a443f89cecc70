---------------------------- MODULE MCNativeCall ----------------------------
(***************************************************************************)
(* Scenarios of NativeCall and of TargetSyscall for TLC: two threads, up to*)
(* two calls, and which events may happen how often; or one thread lent    *)
(* for one system call, request by request.  Each scenario is an initial   *)
(* state, in which one of the two has something to do.                     *)
(***************************************************************************)
EXTENDS NativeCall, TargetSyscall

CONSTANTS t1, t2

MCThreads == {t1, t2}

(* Everything in a happens at most once, everything in b at most twice.    *)
Scenario(a, b) ==
    [e \in Events |-> IF e \in b THEN 2 ELSE IF e \in a THEN 1 ELSE 0]

(* The program execs while a call is made, cleaned up or swept.            *)
Exec == Scenario({"call", "exec", "slow", "stop"}, {"fault"})

(* Threads of the program park and exit, or all of it is killed.           *)
Deaths == Scenario({"call", "exit", "park", "fault", "stop", "map"}, {})
Killed == Scenario({"call", "kill", "fault", "map"}, {})

(* The called function is slow, is signalled or ends its thread.           *)
Function == Scenario({"call", "slow", "signal", "resume", "quit", "fault"}, {})

(* Memory of the target is mapped and unmapped between calls.              *)
Memory == Scenario({"call", "map", "free", "stop", "exec"}, {"fault"})
Mapping == [Scenario({"exec"}, {"map"}) EXCEPT !["fault"] = 3]

(* Two calls: one is not finished when the other is made.                  *)
Pair == Scenario({"slow", "busy"}, {"call"})
PairExec == Scenario({"exec"}, {"call"})
PairFree == Scenario({"free", "stop"}, {"call"})

(* No call is made: a thread is lent.                                      *)
Lending == Scenario({}, {})

MCBudgets == {Exec, Deaths, Killed, Function, Memory, Mapping, Pair,
              PairExec, PairFree, Lending}

(* For liveness: shutdown at any moment of one or two calls.               *)
LiveBudgets ==
    { Exec,
      Deaths,
      Scenario({"call", "slow", "signal", "quit", "busy", "stop"}, {}),
      Scenario({"slow", "stop"}, {"call"}),
      Lending }

-----------------------------------------------------------------------------
(* A mapping is made by a thread of a 64-bit program that was computing; it*)
(* has two system call instructions, one of them the vDSO's.               *)
Loan == [how |-> "borrow", proof |-> FALSE, same |-> TRUE, host |-> "x86_64",
         mode |-> "x86_64", wide |-> FALSE,
         op |-> [kind |-> "map", from |-> 0, to |-> 0], parked |-> "no",
         crosses |-> FALSE, behind |-> FALSE, rseq |-> FALSE,
         sites |-> <<[page |-> 1, last |-> 1, mode |-> "x86_64",
                      native |-> FALSE],
                     [page |-> 4, last |-> 4, mode |-> "x86_64",
                      native |-> TRUE]>>,
         dispatch |-> "off", writes |-> FALSE]

(* The ways to lend a thread, and the threads that can or cannot be lent.  *)
Shapes ==
    { Loan,
      [Loan EXCEPT !.proof = TRUE],
      [Loan EXCEPT !.proof = TRUE, !.same = FALSE],
      [Loan EXCEPT !.how = "inspect"],
      [Loan EXCEPT !.how = "inspect", !.writes = TRUE],
      [Loan EXCEPT !.how = "quiesced"],
      [Loan EXCEPT !.how = "site", !.proof = TRUE],
      [Loan EXCEPT !.how = "verify", !.proof = TRUE],
      [Loan EXCEPT !.how = "scratch", !.parked = "same"],
      [Loan EXCEPT !.how = "scratch", !.parked = "other"] }

Odd ==
    { [Loan EXCEPT !.rseq = TRUE],
      [Loan EXCEPT !.parked = "other"],
      [Loan EXCEPT !.mode = "x86_32", !.wide = TRUE],
      [Loan EXCEPT !.mode = "x86_32", !.host = "i386"],
      [Loan EXCEPT !.mode = "arm", !.host = "arm", !.how = "scratch"],
      [Loan EXCEPT !.dispatch = "blocks"],
      [Loan EXCEPT !.dispatch = "allows", !.sites = <<@[1]>>],
      [Loan EXCEPT !.dispatch = "blocks", !.sites = <<@[1]>>] }

(* Every range that can be unmapped or mapped over, around a thread that   *)
(* computes or waits, in an instruction on one page or on two.             *)
Layouts ==
    { [Loan EXCEPT !.op = [kind |-> k, from |-> f, to |-> t], !.how = h,
                   !.parked = p, !.crosses = x, !.behind = b] :
        k \in {"unmap", "noexec", "fixed"}, f \in Pages, t \in Pages \cup {6},
        h \in {"borrow", "quiesced", "scratch"}, p \in {"no", "same"},
        x \in BOOLEAN, b \in BOOLEAN }

(* What happens during a loan: nothing, or any two things.                 *)
Happens(a, b) ==
    [e \in LoanEvents |-> (IF e = a THEN 1 ELSE 0) + (IF e = b THEN 1 ELSE 0)]
Quiet == Happens("none", "none")
Twice == {Happens(a, b) : a, b \in LoanEvents}

MCLoans == [ask : Shapes, may : Twice]
             \cup [ask : Odd \cup Layouts, may : {Quiet}]

(* For liveness: a program that is stopped is continued.                   *)
LiveLoans ==
    [ask : Shapes, may : {m \in Twice : m["stop"] > 0 => m["cont"] > 0}]
      \cup [ask : Odd, may : {Quiet}]

NoLoan ==
    /\ ask = [how |-> "none"] /\ may = Quiet
    /\ task = [FreeTask EXCEPT !.live = FALSE]
    /\ rec = [NoRecovery EXCEPT !.done = TRUE]
    /\ at = "end"

CallsInit == Init /\ IF left = Lending THEN LoanInit ELSE NoLoan

CallsNext == (Next /\ UNCHANGED loan) \/ (LoanNext /\ UNCHANGED vars)

CallsSpec == CallsInit /\ [][CallsNext]_<<vars, loan>>

CallsFairSpec == CallsSpec /\ CallFairness /\ LoanFairness
=============================================================================
