---------------------------- MODULE TargetSyscall ----------------------------
(***************************************************************************)
(* One system call made by one borrowed thread of the target               *)
(* (platform/linux/target_syscall.cpp), and the recovery that gives the    *)
(* thread back.  NativeCall takes such a loan as one step; here it is the  *)
(* sequence of ptrace requests it consists of, any of which may be refused *)
(* and between any two of which the thread may be killed, signalled or     *)
(* replaced by an exec.                                                    *)
(*                                                                         *)
(* Registers, code words and the like are their own or not; addresses are  *)
(* the pages a call could destroy.  The nested calls that map and unmap    *)
(* the page by which two memory images are told apart are one step each:   *)
(* they are loans of the same kind.                                        *)
(***************************************************************************)
EXTENDS Naturals, Sequences

CONSTANT Loans      \* what may be asked for, and what may happen meanwhile

VARIABLES
    ask,    \* the request and the layout of the target
    task,   \* the thread, as the kernel has it
    rec,    \* TargetSyscallRecovery::State
    at,     \* where the owner is in the code
    may     \* what may still happen

loan == <<ask, task, rec, at, may>>

LoanEvents == {"fault", "kill", "exec", "signal", "stop", "cont", "deny"}

(* The calls that can be asked for, on pages with numbers; any number of   *)
(* each thing may happen.                                                  *)
ASSUME LoansAssumption ==
    \A l \in Loans :
      /\ l.may \in [LoanEvents -> Nat]
      /\ l.ask.op.kind \in {"map", "unmap", "noexec", "fixed"}
      /\ l.ask.op.from \in Nat /\ l.ask.op.to \in Nat
      /\ l.ask.crosses \in BOOLEAN /\ l.ask.behind \in BOOLEAN
      /\ l.ask.writes \in BOOLEAN

Phases == {"none", "begin", "masking", "ready", "entering", "entered",
           "interrupt", "resume", "waiting", "stopRestore", "stopInterrupt",
           "stopResume", "stopWait", "groupStop", "listening"}

(* Why a traced thread is stopped.                                         *)
Stops == {"none", "interrupt", "signal", "trap", "denied", "event", "exec",
          "entry", "stopsig", "group"}

Places == {"start", "seize", "interrupt", "await", "check", "inspect",
           "prove", "compare", "unprove", "plan", "patch", "set", "step",
           "collect", "retry", "affinity", "poll", "letgo", "release",
           "releaseWait", "drain", "drainWait", "restart", "restore",
           "detach", "kept", "end"}

Pages == 0 .. 5

(* The page the thread returns to, and the caller's private page.          *)
PcPage == 2
ScratchPage == 5

Task == [live : BOOLEAN, hold : {"free", "run", "stop", "listen"}, why : Stops,
         told : BOOLEAN, regs : {"own", "lent", "part", "entry", "edited"},
         code : {"own", "patched"}, mask : {"own", "held"},
         abi : {"own", "other"}, image : {1, 2},
         sig : {"none", "queued", "held", "delivered"},
         job : {"none", "sent", "held", "stopped", "over"}, int : BOOLEAN,
         trap : BOOLEAN, page : BOOLEAN, past : BOOLEAN, made : BOOLEAN,
         lost : SUBSET Pages]

Recovery == [seized : BOOLEAN, stopped : BOOLEAN, prepared : BOOLEAN,
             regs : BOOLEAN, words : BOOLEAN, mask : BOOLEAN, done : BOOLEAN,
             retired : BOOLEAN, dead : BOOLEAN, restored : BOOLEAN,
             tried : BOOLEAN, sig : BOOLEAN, step : BOOLEAN, nested : BOOLEAN,
             page : BOOLEAN, phase : Phases, seen : Stops, again : BOOLEAN,
             have : BOOLEAN, err : BOOLEAN]

(* State before anything was done: nothing is owned, nothing to restore.   *)
NoRecovery == [seized |-> FALSE, stopped |-> FALSE, prepared |-> FALSE,
               regs |-> FALSE, words |-> FALSE, mask |-> FALSE, done |-> FALSE,
               retired |-> FALSE, dead |-> FALSE, restored |-> FALSE,
               tried |-> FALSE, sig |-> FALSE, step |-> FALSE, nested |-> FALSE,
               page |-> FALSE, phase |-> "none", seen |-> "none",
               again |-> FALSE, have |-> FALSE, err |-> FALSE]

(* executeMemorySyscall and executeThreadInspection stop a running thread  *)
(* and let it go; the other entries are given a stopped one and keep it so.*)
Detaches == ask.how \in {"borrow", "inspect"}

(* A thread that is not traced, and has nothing but what is its own.       *)
FreeTask ==
    [live |-> TRUE, hold |-> "free", why |-> "none", told |-> FALSE,
     regs |-> "own", code |-> "own", mask |-> "own", abi |-> "own", image |-> 1,
     sig |-> "none", job |-> "none", int |-> FALSE, trap |-> FALSE,
     page |-> FALSE, past |-> FALSE, made |-> FALSE, lost |-> {}]

LoanInit ==
    /\ \E l \in Loans : ask = l.ask /\ may = l.may
    /\ task = IF Detaches THEN FreeTask
              ELSE [FreeTask EXCEPT !.hold = "stop", !.why = "interrupt",
                                    !.told = TRUE]
    /\ rec = NoRecovery
    /\ at = "start"

-----------------------------------------------------------------------------
(* The system call, and where it is made.                                  *)

(* The width of a result: the system call ABI of a program, entered from   *)
(* code of an instruction mode; 0 where there is none.                     *)
ResultWidth(host, mode) ==
    CASE mode = "x86_32" /\ host \in {"i386", "x86_64", "x32"} -> 4
      [] mode = "x86_64" /\ host \in {"x86_64", "x32"} -> 8
      [] mode = "aarch64" /\ host = "aarch64" -> 8
      [] mode \in {"arm", "thumb"} /\ host \in {"arm", "aarch64"} -> 4
      [] OTHER -> 0

(* An argument of more than 32 bits has no place in a narrow ABI.          *)
targetSyscallPlan(a, mode) ==
    LET width == ResultWidth(a.host, mode)
    IN  CASE width = 0 -> "unsupported"
          [] width # 0 /\ a.wide /\ (width = 4 \/ a.host = "x32") -> "invalid"
          [] OTHER -> "planned"

(* Windows code in compat mode on a 64-bit Unix loader is lent long mode.  *)
PlannedMode(a) ==
    IF targetSyscallPlan(a, a.mode) = "invalid" /\ a.mode = "x86_32"
         /\ a.host = "x86_64" THEN "x86_64" ELSE a.mode

(* Unmapping, taking away the right to execute, mapping over.              *)
Destructive(op) == op.kind \in {"unmap", "noexec", "fixed"}

(* It would touch one of the pages from first to last.                     *)
Affects(op, first, last) ==
    Destructive(op) /\ op.from < op.to /\ first < op.to /\ op.from <= last

(* The pages the thread needs to go on from where it was stopped: the rest *)
(* of its instruction, and the system call it was interrupted in and will  *)
(* make again, two bytes before.                                           *)
ReturnPages(a) ==
    {PcPage} \cup (IF a.crosses THEN {PcPage + 1} ELSE {})
             \cup (IF a.parked # "no" /\ a.behind THEN {PcPage - 1} ELSE {})

(* The page of the last byte of the instruction to return to.              *)
returnInstructionLastByte(a) == IF a.crosses THEN PcPage + 1 ELSE PcPage

(* What the call must not destroy: where the thread returns to, the system *)
(* call it restarts, and the site of the call when it is a patched one.    *)
Refused(a) ==
    \/ Affects(a.op, IF a.parked # "no" /\ a.behind THEN PcPage - 1 ELSE PcPage,
               PcPage)
    \/ /\ Affects(a.op, PcPage + 1, PcPage + 1)
       /\ Affects(a.op, PcPage, returnInstructionLastByte(a))
    \/ a.how = "scratch" /\ Affects(a.op, ScratchPage, ScratchPage)

(* The first system call instruction in code of this mode that the call    *)
(* leaves alone: one that is never dispatched to the program itself, else, *)
(* while its selector lets system calls through, any.  0: there is none.   *)
existingSyscallInstruction(a, mode) ==
    LET usable == SelectSeq(a.sites, LAMBDA s :
                    s.mode = mode /\ ~Affects(a.op, s.page, s.last))
        native == SelectSeq(usable, LAMBDA s : a.dispatch = "off" \/ s.native)
    IN  CASE native # <<>> -> native[1].page
          [] native = <<>> /\ usable # <<>> /\ a.dispatch = "allows" ->
               usable[1].page
          [] OTHER -> 0

(* The call is made at a site of the program's, or in bytes of its own.    *)
Borrowed(a) == a.how \in {"borrow", "site", "verify"}

Site(a) ==
    LET first == existingSyscallInstruction(a, PlannedMode(a))
    IN  CASE ~Borrowed(a) -> IF a.how = "scratch" THEN ScratchPage ELSE PcPage
          [] Borrowed(a) /\ first = 0 /\ PlannedMode(a) = "x86_32"
               /\ a.host = "x86_64" -> existingSyscallInstruction(a, "x86_64")
          [] OTHER -> first

(* Everything that is decided before the first byte changes.  A thread     *)
(* that waits in a system call of another ABI than the one lent is lent    *)
(* only in the caller's own page, and so is one in 32-bit ARM code.        *)
CanLend(a) ==
    /\ targetSyscallPlan(a, PlannedMode(a)) = "planned"
    /\ a.mode \in {"arm", "thumb"} => /\ a.how = "scratch" /\ a.host = "arm"
                                       /\ a.parked = "no"
    /\ a.parked = "other" => a.how = "scratch"
    /\ ~Refused(a)
    /\ Site(a) # 0

-----------------------------------------------------------------------------
(* The kernel.                                                             *)

(* A ptrace request reaches the thread.                                    *)
Stopped == task.live /\ task.hold = "stop"

Uses(e) == may[e] > 0 /\ may' = [may EXCEPT ![e] = @ - 1]

(* Its stop is over; a stop it was told of is not reported again.          *)
Running(t) == [t EXCEPT !.hold = "run", !.why = "none", !.told = FALSE]

StopWith(t, why) == [t EXCEPT !.hold = "stop", !.why = why, !.told = FALSE]

TaskKilled ==
    /\ task.live /\ Uses("kill")
    /\ task' = [task EXCEPT !.live = FALSE]
    /\ UNCHANGED <<ask, rec, at>>

SignalSent ==
    /\ task.live /\ task.sig = "none" /\ Uses("signal")
    /\ task' = [task EXCEPT !.sig = IF task.hold = "free" THEN "delivered"
                                    ELSE "queued"]
    /\ UNCHANGED <<ask, rec, at>>

(* What the call made with the lent registers does to the target.          *)
Destroyed ==
    {p \in Pages : ask.op.kind # "map" /\ ask.op.from <= p /\ p < ask.op.to}

(* A thread that runs traced takes the signals its mask lets through.      *)
SignalStops ==
    /\ task.live /\ task.hold = "run" /\ ~task.int
    /\ task.sig = "queued" /\ task.mask = "own" /\ ~task.trap
    /\ \E past \in IF task.regs = "lent" THEN BOOLEAN ELSE {FALSE} :
         task' = [StopWith(task, "signal") EXCEPT
                    !.sig = "held", !.past = past, !.made = past,
                    !.lost = IF past THEN Destroyed ELSE @,
                    !.abi = IF past /\ ask.parked = "other" THEN "other" ELSE @]
    /\ UNCHANGED <<ask, rec, at, may>>

(* SIGSTOP cannot be masked, and SIGCONT takes back one that waits.        *)
StopSent ==
    /\ task.live /\ task.job = "none"
    /\ rec.phase \in Phases \ {"none", "begin"}
    /\ Uses("stop")
    /\ task' = [task EXCEPT !.job = "sent"]
    /\ UNCHANGED <<ask, rec, at>>

JobStops ==
    /\ task.live /\ task.hold = "run" /\ task.job = "sent" /\ ~task.int
    /\ task' = [StopWith(task, "stopsig") EXCEPT !.job = "held"]
    /\ UNCHANGED <<ask, rec, at, may>>

ContSent ==
    /\ task.live /\ task.job \in {"sent", "held", "stopped"}
    /\ Uses("cont")
    /\ task' = [IF task.hold = "listen" THEN StopWith(task, "interrupt")
                ELSE task EXCEPT !.job = "over"]
    /\ UNCHANGED <<ask, rec, at>>

(* A requested interrupt stops it before it executes another instruction:  *)
(* in a group stop when it was resumed into one.                           *)
InterruptStops ==
    /\ task.live /\ task.hold = "run" /\ task.int
    /\ task' = IF task.job = "held"
               THEN [StopWith(task, "group") EXCEPT !.job = "stopped",
                                                    !.int = FALSE]
               ELSE [StopWith(task, "interrupt") EXCEPT !.int = FALSE]
    /\ UNCHANGED <<ask, rec, at, may>>

(* The program the thread belongs to is replaced.  Its own exec, and one   *)
(* of a sibling that is traced too, stop under its id; after any other the *)
(* id is that of an untraced thread.                                       *)
Replaced(t, hold) ==
    [t EXCEPT !.image = 2, !.hold = hold, !.why = IF hold = "stop" THEN "exec" ELSE "none",
              !.told = FALSE, !.regs = "own", !.code = "own", !.mask = "own",
              !.abi = "own", !.trap = FALSE, !.int = FALSE, !.page = FALSE,
              !.made = FALSE, !.lost = {},
              !.sig = IF t.sig = "delivered" THEN t.sig ELSE "none",
              !.job = "over"]

TaskExecs ==
    /\ task.live /\ task.image = 1 /\ Uses("exec")
    /\ \/ task.hold # "run" /\ task' = Replaced(task, "free")
       \/ task.hold = "run" /\ \E hold \in {"free", "stop"} :
            task' = Replaced(task, hold)
    /\ UNCHANGED <<ask, rec, at>>

(* The step over the injected instruction: it is done, the program's own   *)
(* policy denies it, or another event comes first or last.                 *)
InjectedRuns ==
    /\ task.live /\ task.hold = "run" /\ task.regs = "lent" /\ ~task.trap
    /\ ~task.int
    /\ \/ /\ task' = [StopWith(task, "trap") EXCEPT
                        !.past = TRUE, !.made = TRUE, !.lost = Destroyed,
                        !.abi = IF ask.parked = "other" THEN "other" ELSE @]
          /\ UNCHANGED may
       \/ /\ Uses("deny")
          /\ \E trap \in BOOLEAN :
             task' = [StopWith(task, "denied") EXCEPT
                        !.past = TRUE, !.trap = trap,
                        !.abi = IF ask.parked = "other" THEN "other" ELSE @]
       \/ /\ Uses("deny")
          /\ \E past \in BOOLEAN :
               task' = [StopWith(task, "event") EXCEPT
                          !.past = past, !.made = past,
                          !.lost = IF past THEN Destroyed ELSE @,
                          !.abi = IF past /\ ask.parked = "other" THEN "other" ELSE @]
    /\ UNCHANGED <<ask, rec, at>>

(* The step's trap, where the denial left one behind it.                   *)
TrapStops ==
    /\ task.live /\ task.hold = "run" /\ task.trap
    /\ task' = [StopWith(task, "trap") EXCEPT !.trap = FALSE]
    /\ UNCHANGED <<ask, rec, at, may>>

(* The original instruction enters the kernel, which makes no call of it.  *)
EntryStops ==
    /\ task.live /\ task.hold = "run" /\ task.regs = "entry"
    /\ task' = [StopWith(task, "entry") EXCEPT !.abi = "own"]
    /\ UNCHANGED <<ask, rec, at, may>>

KernelNext ==
    \/ SignalStops \/ JobStops \/ InterruptStops \/ InjectedRuns
    \/ TrapStops \/ EntryStops

EventNext == TaskKilled \/ SignalSent \/ StopSent \/ ContSent \/ TaskExecs

-----------------------------------------------------------------------------
(* The owner: stopping the thread.                                         *)

(* execute() fails with what it holds, retry() with what is left to do.    *)
Fails(r) == rec' = [r EXCEPT !.err = TRUE] /\ at' = "retry"
Keeps(r) == rec' = r /\ at' = "kept"
Ends(r) == rec' = [r EXCEPT !.done = TRUE] /\ at' = "end"

(* The thread is the one that was asked for, in the program it was in.     *)
targetProcessIdentity == task.live /\ task.image = 1

(* Nothing is owned before the thread is bound to its identity.            *)
Start ==
    /\ at = "start"
    /\ IF ~targetProcessIdentity
       THEN rec' = [rec EXCEPT !.err = TRUE] /\ at' = "end"
       ELSE IF Detaches THEN at' = "seize" /\ UNCHANGED rec
       ELSE /\ rec' = [rec EXCEPT !.seized = TRUE, !.stopped = TRUE]
            /\ at' = IF ask.proof THEN "prove" ELSE "plan"
    /\ UNCHANGED <<ask, task, may>>

(* seizeStopped: the thread is traced, then bound to its identity again.   *)
Seize ==
    /\ at = "seize"
    /\ \/ /\ ~task.live /\ UNCHANGED <<task, may>>
          /\ rec' = [rec EXCEPT !.err = TRUE] /\ at' = "end"
       \/ /\ Uses("fault") /\ UNCHANGED task
          /\ rec' = [rec EXCEPT !.err = TRUE] /\ at' = "end"
       \/ /\ task.live /\ task' = Running(task)
          /\ IF targetProcessIdentity
             THEN rec' = [rec EXCEPT !.seized = TRUE] /\ at' = "interrupt"
             ELSE Fails([rec EXCEPT !.seized = TRUE])
          /\ UNCHANGED may
    /\ UNCHANGED ask

Interrupt ==
    /\ at = "interrupt"
    /\ \/ /\ ~task.live \/ task.hold = "free"
          /\ Ends([rec EXCEPT !.err = TRUE])
          /\ UNCHANGED <<task, may>>
       \/ /\ Uses("fault") /\ Fails(rec)
          /\ UNCHANGED task
       \/ /\ task.live /\ task.hold # "free"
          /\ task' = [task EXCEPT !.int = TRUE]
          /\ at' = "await"
          /\ UNCHANGED <<rec, may>>
    /\ UNCHANGED ask

(* A stop is collected; a signal that was on its way is taken over.        *)
rememberStop(r) == [r EXCEPT !.stopped = TRUE, !.sig = @ \/ task.why = "signal"]

Told == task' = [task EXCEPT !.told = TRUE]

AwaitStop ==
    /\ at = "await"
    /\ \/ /\ ~task.live /\ Ends([rec EXCEPT !.err = TRUE])
          /\ UNCHANGED task
       \/ /\ task.live /\ task.hold = "free" /\ Fails(rec)
          /\ UNCHANGED task
       \/ /\ Stopped /\ Told
          /\ IF task.why = "interrupt" /\ targetProcessIdentity
             THEN rec' = rememberStop(rec) /\ at' = "check"
             ELSE Fails(rememberStop(rec))
    /\ UNCHANGED <<ask, may>>

(* A thread in a restartable sequence would finish it without its abort.   *)
checkRseqSection == ~ask.rseq

Check ==
    /\ at = "check"
    /\ IF ~Stopped \/ (ask.how = "borrow" /\ ~checkRseqSection) THEN Fails(rec)
       ELSE /\ at' = CASE ask.how = "inspect" -> "inspect"
                       [] ask.how # "inspect" /\ ask.proof -> "prove"
                       [] OTHER -> "plan"
            /\ UNCHANGED rec
    /\ UNCHANGED <<ask, task, may>>

(* executeThreadInspection: the caller reads, or edits registers; an edit  *)
(* that succeeded stays, one that failed is undone.                        *)
Inspect ==
    /\ at = "inspect"
    /\ LET held == [rec EXCEPT !.prepared = ask.writes, !.regs = ask.writes]
       IN  \/ /\ ~Stopped /\ Fails(rec)
              /\ UNCHANGED <<task, may>>
           \/ /\ Stopped /\ UNCHANGED may
              /\ task' = IF ask.writes THEN [task EXCEPT !.regs = "edited"] ELSE task
              /\ at' = "retry" /\ UNCHANGED rec
           \/ /\ Stopped /\ Uses("fault")
              /\ \/ UNCHANGED task
                 \/ ask.writes /\ task' = [task EXCEPT !.regs = "edited"]
              /\ Fails(held)
    /\ UNCHANGED ask

-----------------------------------------------------------------------------
(* The proof that the thread is in the memory the caller captured.         *)

(* A nested call was made; it may be refused its way back, with its value  *)
(* known, or meet a signal, before or after its instruction.               *)
NestedFails(page) ==
    \E did \in BOOLEAN :
      LET now == IF did THEN page ELSE task.page
      IN  \/ /\ Uses("fault")
             /\ task' = [task EXCEPT !.regs = "lent", !.page = now]
             /\ \E r \in {[rec EXCEPT !.nested = TRUE, !.page = now]} :
                  IF at = "affinity" THEN Keeps(r) ELSE Fails(r)
          \/ /\ task.sig = "queued" /\ UNCHANGED may
             /\ task' = [task EXCEPT !.sig = "held", !.why = "signal", !.page = now]
             /\ \E r \in {[rec EXCEPT !.sig = TRUE, !.page = now]} :
                  IF at = "affinity" THEN Keeps(r) ELSE Fails(r)

(* The memory the thread is in now is opened, between two looks at its     *)
(* identity.                                                               *)
capture == targetProcessIdentity

Prove ==
    /\ at = "prove"
    /\ \/ ~(Stopped /\ capture) /\ Fails(rec) /\ UNCHANGED <<task, may>>
       \/ /\ Stopped /\ capture /\ task' = [task EXCEPT !.page = TRUE]
          /\ rec' = [rec EXCEPT !.page = TRUE] /\ at' = "compare"
          /\ UNCHANGED may
       \/ Stopped /\ capture /\ NestedFails(TRUE)
    /\ UNCHANGED ask

(* What is written to the page through one image is read through the       *)
(* other, or it is another program's memory.                               *)
sharesPrivateMapping == ask.same /\ targetProcessIdentity

Compare ==
    /\ at = "compare"
    /\ IF sharesPrivateMapping THEN at' = "unprove" /\ UNCHANGED rec
       ELSE Fails(rec)
    /\ UNCHANGED <<ask, task, may>>

\* Mutant of retireDeadTask: the dead thread's context is taken for gone,
\* its owner goes on for ever.
retireDeadTask_Never(r) == Keeps([r EXCEPT !.dead = TRUE]) /\ UNCHANGED <<task, may>>

(* The thread is dead: its registers are nobody's.  Code words it was lent *)
(* through a retained image are put back in the memory that outlives it.   *)
retireDeadTask(r) ==
    \/ /\ Ends([r EXCEPT !.dead = TRUE])
       /\ task' = IF rec.phase # "none" THEN [task EXCEPT !.code = "own"] ELSE task
       /\ UNCHANGED may
    \/ /\ rec.phase # "none" /\ Uses("fault")
       /\ Keeps([r EXCEPT !.dead = TRUE])
       /\ UNCHANGED task

(* Drains the nested loan, then unmaps the page, unless its memory is gone.*)
(* Called by execute() once the image is proved, and first by retry().     *)
CleanupAffinity ==
    /\ at \in {"unprove", "affinity"}
    /\ LET fail(r) == IF at = "affinity" THEN Keeps(r) ELSE Fails(r)
           onward == CASE at = "affinity" -> "poll"
                       [] at = "unprove" /\ ask.how = "verify" -> "end"
                       [] OTHER -> "plan"
       IN
       \/ /\ rec.nested /\ Stopped
          /\ task' = [task EXCEPT !.regs = "own"]
          /\ rec' = [rec EXCEPT !.nested = FALSE]
          /\ UNCHANGED <<at, may>>
       \/ /\ rec.nested /\ Stopped /\ Uses("fault")
          /\ fail(rec)
          /\ UNCHANGED task
       \/ /\ rec.nested /\ ~Stopped
          /\ fail([rec EXCEPT !.nested = FALSE])
          /\ UNCHANGED <<task, may>>
       \/ /\ ~rec.nested /\ ~rec.page
          /\ at' = onward
          /\ UNCHANGED <<task, rec, may>>
       \/ /\ ~rec.nested /\ rec.page /\ ~task.live
          /\ Ends([rec EXCEPT !.page = FALSE, !.err = TRUE, !.dead = TRUE])
          /\ UNCHANGED <<task, may>>
       \/ /\ ~rec.nested /\ rec.page /\ task.live /\ task.image # 1
          /\ fail([rec EXCEPT !.page = FALSE])
          /\ UNCHANGED <<task, may>>
       \/ /\ ~rec.nested /\ rec.page /\ Stopped /\ task.image = 1
          /\ task' = [task EXCEPT !.page = FALSE]
          /\ rec' = [rec EXCEPT !.page = FALSE] /\ at' = onward
          /\ UNCHANGED may
       \/ /\ ~rec.nested /\ rec.page /\ Stopped /\ task.image = 1
          /\ NestedFails(FALSE)
    /\ UNCHANGED ask

-----------------------------------------------------------------------------
(* The loan.                                                               *)

(* All that must be restored is recorded before the first byte changes.    *)
Plan ==
    /\ at = "plan"
    /\ \/ /\ ~Stopped \/ ~CanLend(ask)
          /\ Fails(rec) /\ UNCHANGED may
       \/ Stopped /\ Uses("fault") /\ Fails(rec)
       \/ /\ Stopped /\ CanLend(ask) /\ UNCHANGED may
          /\ rec' = [rec EXCEPT !.prepared = TRUE, !.words = ~Borrowed(ask),
                        !.phase = IF ask.parked = "other" THEN "begin" ELSE "none"]
          /\ at' = IF Borrowed(ask) THEN "set" ELSE "patch"
    /\ UNCHANGED <<ask, task>>

(* The instruction is written where no existing one is used ...            *)
Patch ==
    /\ at = "patch"
    /\ \/ ~Stopped /\ Fails(rec) /\ UNCHANGED <<task, may>>
       \/ /\ Stopped /\ task' = [task EXCEPT !.code = "patched"]
          /\ at' = "set" /\ UNCHANGED <<rec, may>>
       \/ /\ Stopped /\ Uses("fault") /\ Fails(rec)
          /\ \E code \in {"own", "patched"} : task' = [task EXCEPT !.code = code]
    /\ UNCHANGED ask

(* The registers with the number and arguments of the call in them, in the *)
(* machine's layout and with the instruction mode of the site.             *)
prepare(t) == [t EXCEPT !.regs = "lent"]

(* ... the registers are exchanged for the call's; a refused write may     *)
(* have changed some of them ...                                           *)
SetRegisters ==
    /\ at = "set"
    /\ LET r == [rec EXCEPT !.regs = TRUE]
       IN  \/ ~Stopped /\ Fails(r) /\ UNCHANGED <<task, may>>
           \/ /\ Stopped /\ task' = prepare(task)
              /\ rec' = r /\ at' = "step"
              /\ UNCHANGED may
           \/ /\ Stopped /\ Uses("fault") /\ Fails(r)
              /\ task' = [task EXCEPT !.regs = "part"]
    /\ UNCHANGED ask

(* ... and the thread makes one step.                                      *)
Step ==
    /\ at = "step"
    /\ \/ ~Stopped /\ Fails(rec) /\ UNCHANGED <<task, may>>
       \/ /\ Stopped /\ task' = Running(task)
          /\ at' = "collect" /\ UNCHANGED <<rec, may>>
       \/ Stopped /\ Uses("fault") /\ Fails(rec) /\ UNCHANGED task
    /\ UNCHANGED ask

(* What the step's stop says: the call is done when the thread is behind   *)
(* its instruction, whatever else stopped it; a signal of the program's is *)
(* kept for it; a denial is not the program's to see, and the step's trap  *)
(* is still to come.                                                       *)
Collected ==
    CASE task.why = "trap" -> [rec EXCEPT !.have = TRUE]
      [] task.why = "signal" ->
           [rec EXCEPT !.err = TRUE, !.sig = TRUE, !.have = task.past]
      [] task.why = "denied" -> [rec EXCEPT !.err = TRUE, !.step = TRUE]
      [] OTHER -> [rec EXCEPT !.err = TRUE, !.have = task.past]

Collect ==
    /\ at = "collect"
    /\ \/ /\ ~task.live /\ Ends([rec EXCEPT !.err = TRUE])
          /\ UNCHANGED task
       \/ /\ task.live /\ task.hold = "free" /\ Fails(rec)
          /\ UNCHANGED task
       \/ /\ Stopped /\ Told
          /\ IF task.why = "exec"
             THEN Fails([rec EXCEPT !.prepared = FALSE, !.retired = TRUE,
                                    !.stopped = TRUE])
             ELSE rec' = Collected /\ at' = "retry"
    /\ UNCHANGED <<ask, may>>

-----------------------------------------------------------------------------
(* retry(): giving the thread back.                                        *)

Retry ==
    /\ at = "retry"
    /\ \/ rec.dead /\ retireDeadTask(rec)
       \/ /\ ~rec.dead
          /\ at' = IF rec.retired THEN "poll" ELSE "affinity"
          /\ UNCHANGED <<task, rec, may>>
    /\ UNCHANGED ask

(* The order things are undone in.                                         *)
Onward(r) ==
    CASE r.step -> "drain"
      [] ~r.step /\ r.phase # "none" /\ r.regs -> "restart"
      [] OTHER -> "restore"

(* An exec stop, another executable, or a memory that is no more.          *)
Replacement == task.image # 1

(* Somebody traces the thread: the refusal of a request does not say so.   *)
taskTracer == task.hold # "free"

(* A detach that was reported as refused has worked.                       *)
Released ==
    ~taskTracer /\ rec.tried /\ (~rec.prepared \/ rec.restored \/ rec.retired)

(* The thread's report, its birth and its program, in this order.          *)
Poll ==
    /\ at = "poll"
    /\ LET news == task.hold = "stop" /\ ~task.told
           r == IF news /\ rec.prepared
                THEN [rec EXCEPT !.seen = IF rec.phase = "none" THEN @ ELSE task.why]
                ELSE IF news THEN rememberStop(rec) ELSE rec
       IN
       \/ ~task.live /\ retireDeadTask(rec)
       \/ /\ task.live /\ Released
          /\ Ends(rec)
          /\ UNCHANGED <<task, may>>
       \/ /\ task.live /\ ~Released
          /\ task' = [task EXCEPT !.told = @ \/ news]
          /\ CASE rec.retired -> rec' = rec /\ at' = "letgo"
               [] ~rec.retired /\ ~rec.prepared -> rec' = r /\ at' = "release"
               [] ~rec.retired /\ rec.prepared /\ Replacement ->
                    rec' = [rec EXCEPT !.retired = TRUE] /\ at' = "letgo"
               [] OTHER -> rec' = r /\ at' = Onward(r)
          /\ UNCHANGED may
    /\ UNCHANGED ask

(* The replacement is released with nothing of the old program in it.      *)
LetGo ==
    /\ at = "letgo"
    /\ LET r == [rec EXCEPT !.tried = TRUE]
       IN  \/ /\ ~Detaches /\ Ends(rec)
              /\ UNCHANGED <<task, may>>
           \/ /\ Detaches /\ Stopped
              /\ task' = [task EXCEPT !.hold = "free", !.why = "none", !.int = FALSE]
              /\ Ends(r) /\ UNCHANGED may
           \/ /\ Detaches /\ Stopped /\ Uses("fault")
              /\ Keeps(r) /\ UNCHANGED task
           \/ /\ Detaches /\ ~Stopped
              /\ Keeps(r) /\ UNCHANGED <<task, may>>
    /\ UNCHANGED ask

(* Nothing was changed yet: the thread is only to be stopped and released. *)
ReleaseUnprepared ==
    /\ at = "release"
    /\ \/ /\ rec.stopped /\ at' = "detach"
          /\ UNCHANGED <<task, rec, may>>
       \/ /\ ~rec.stopped /\ (~task.live \/ task.hold = "free")
          /\ Ends(rec)
          /\ UNCHANGED <<task, may>>
       \/ /\ ~rec.stopped /\ Uses("fault")
          /\ Keeps(rec)
          /\ UNCHANGED task
       \/ /\ ~rec.stopped /\ task.live /\ task.hold # "free"
          /\ task' = [task EXCEPT !.int = TRUE]
          /\ at' = "releaseWait"
          /\ UNCHANGED <<rec, may>>
    /\ UNCHANGED ask

ReleaseWait ==
    /\ at = "releaseWait"
    /\ \/ ~task.live /\ Ends(rec) /\ UNCHANGED task
       \/ task.live /\ task.hold = "free" /\ Keeps(rec) /\ UNCHANGED task
       \/ /\ Stopped /\ Told
          /\ rec' = rememberStop(rec) /\ at' = "detach"
    /\ UNCHANGED <<ask, may>>

(* The trap of a step that was denied is taken before the program sees it. *)
Drain ==
    /\ at = "drain"
    /\ \/ ~Stopped /\ Keeps(rec) /\ UNCHANGED <<task, may>>
       \/ /\ Stopped /\ ~task.trap
          /\ rec' = [rec EXCEPT !.step = FALSE] /\ at' = Onward(rec')
          /\ UNCHANGED <<task, may>>
       \/ /\ Stopped /\ task.trap
          /\ task' = Running(task) /\ at' = "drainWait"
          /\ UNCHANGED <<rec, may>>
       \/ Stopped /\ task.trap /\ Uses("fault") /\ Keeps(rec) /\ UNCHANGED task
    /\ UNCHANGED ask

DrainWait ==
    /\ at = "drainWait"
    /\ \/ /\ ~task.live \/ task.hold = "free"
          /\ Ends(rec) /\ UNCHANGED task
       \/ /\ Stopped /\ Told
          /\ IF task.why = "exec"
             THEN rec' = [rec EXCEPT !.retired = TRUE, !.stopped = TRUE] /\ at' = "letgo"
             ELSE rec' = [rec EXCEPT !.step = FALSE] /\ at' = Onward(rec')
    /\ UNCHANGED <<ask, may>>

-----------------------------------------------------------------------------
(* progressRestartAbi: the thread waited in a system call of one ABI and   *)
(* was lent to make one of another.  Before it may go on, its own entry is *)
(* made again without making the call, every signal but the forced ones    *)
(* masked meanwhile, and an interrupt guards each instruction boundary.    *)

Phase(p) == [rec EXCEPT !.phase = p]
InPhase(p) == at = "restart" /\ rec.phase = p

(* A request the phase begins with is refused, before or after it worked.  *)
PhaseRefused(r, worked) ==
    /\ Uses("fault")
    /\ \E t \in {task, worked} : task' = t
    /\ Keeps(r)

(* In a phase that looks at a stopped thread, the thread is not.           *)
NoStop ==
    /\ at = "restart"
    /\ rec.phase \notin {"entering", "waiting", "stopWait", "listening"}
    /\ ~Stopped
    /\ Keeps(rec)
    /\ UNCHANGED <<ask, task, may>>

(* The ABI the kernel takes the thread to have entered it by.              *)
x86SyscallInfo == task.abi

RestartBegin ==
    /\ InPhase("begin") /\ Stopped
    /\ IF x86SyscallInfo = "own" THEN rec' = Phase("none") /\ at' = "restore"
       ELSE rec' = [Phase("masking") EXCEPT !.seen = "none"] /\ UNCHANGED at
    /\ UNCHANGED <<ask, task, may>>

(* The mask is the owner's to restore from before the first write of it.   *)
RestartMask ==
    /\ InPhase("masking") /\ Stopped
    /\ LET masked == [task EXCEPT !.mask = "held"]
       IN  \/ /\ task' = masked /\ rec' = [Phase("ready") EXCEPT !.mask = TRUE]
              /\ UNCHANGED <<at, may>>
           \/ PhaseRefused([rec EXCEPT !.mask = TRUE], masked)
    /\ UNCHANGED ask

(* The entry's registers, then SYSEMU: the two may fail separately.        *)
RestartEnter ==
    /\ InPhase("ready") /\ Stopped
    /\ LET entry == [task EXCEPT !.regs = "entry"]
       IN  \/ /\ task' = Running(entry) /\ rec' = Phase("entering")
              /\ UNCHANGED <<at, may>>
           \/ /\ Uses("fault") /\ task' = entry
              /\ Keeps(rec)
           \/ /\ Uses("fault") /\ \E t \in {entry, Running(entry)} : task' = t
              /\ Keeps([Phase("entering") EXCEPT !.again = TRUE])
    /\ UNCHANGED ask

(* The stop a phase waits for is looked at: the one expected leads on, an  *)
(* exec retires the context, a SIGSTOP is given to the kernel's job        *)
(* control rather than synthesized later.                                  *)
Expect(stop, next, onward) ==
    CASE rec.seen = stop -> rec' = next /\ at' = onward
      [] rec.seen = "exec" -> Keeps([rec EXCEPT !.retired = TRUE])
      [] OTHER -> Keeps(Phase("stopRestore"))

(* A wait ends with a stop, with the thread's death or after 100 ms.       *)
Awaiting == rec.seen = "none" /\ ~(Stopped /\ task.told)

PhaseWait ==
    /\ at = "restart"
    /\ rec.phase \in {"entering", "waiting", "stopWait", "listening"}
    /\ Awaiting
    /\ \/ ~task.live /\ retireDeadTask(rec)
       \/ /\ task.live /\ task.hold # "stop"
          /\ Keeps(rec)
          /\ UNCHANGED <<task, may>>
       \/ /\ Stopped
          /\ Told /\ rec' = [rec EXCEPT !.seen = task.why, !.stopped = TRUE]
          /\ UNCHANGED <<at, may>>
    /\ UNCHANGED ask

(* SYSEMU is repeated only at the very stop it was refused at.             *)
RestartEntering ==
    /\ InPhase("entering")
    /\ \/ /\ rec.seen = "none" /\ rec.again /\ Stopped /\ task.told
          /\ \/ /\ task' = Running(task)
                /\ rec' = [rec EXCEPT !.again = FALSE]
                /\ UNCHANGED <<at, may>>
             \/ PhaseRefused(rec, Running(task))
       \/ /\ rec.seen # "none"
          /\ Expect("entry", Phase("entered"), "restart")
          /\ UNCHANGED <<task, may>>
    /\ UNCHANGED ask

RestartEntered ==
    /\ InPhase("entered") /\ Stopped
    /\ LET own == [task EXCEPT !.regs = "own"]
       IN  \/ /\ task' = own /\ rec' = Phase("interrupt")
              /\ UNCHANGED <<at, may>>
           \/ PhaseRefused(rec, own)
    /\ UNCHANGED ask

\* Mutant of RestartInterrupt: the thread runs on without a guard.
RestartInterrupt_None ==
    /\ at = "restart" /\ rec.phase \in {"interrupt", "stopInterrupt"} /\ Stopped
    /\ rec' = [Phase(IF rec.phase = "interrupt" THEN "resume" ELSE "stopResume")
                 EXCEPT !.seen = "none"]
    /\ UNCHANGED <<ask, task, at, may>>

(* An interrupt is asked for before the thread runs with its own registers.*)
RestartInterrupt ==
    /\ at = "restart" /\ rec.phase \in {"interrupt", "stopInterrupt"} /\ Stopped
    /\ LET asked == [task EXCEPT !.int = TRUE]
       IN  \/ /\ task' = asked
              /\ rec' = [Phase(IF rec.phase = "interrupt" THEN "resume"
                               ELSE "stopResume") EXCEPT !.seen = "none"]
              /\ UNCHANGED <<at, may>>
           \/ PhaseRefused(rec, asked)
    /\ UNCHANGED ask

(* The thread is resumed, into its group stop if it was stopped by one; a  *)
(* refused resume is repeated while the thread is still at that stop.      *)
RestartResume ==
    /\ at = "restart" /\ Stopped
    /\ \/ rec.phase \in {"resume", "stopResume"}
       \/ rec.phase \in {"waiting", "stopWait"} /\ rec.seen = "none" /\ task.told
    /\ LET r == Phase(IF rec.phase \in {"resume", "waiting"} THEN "waiting"
                      ELSE "stopWait")
       IN  \/ task' = Running(task) /\ rec' = r /\ UNCHANGED <<at, may>>
           \/ PhaseRefused(r, Running(task))
    /\ UNCHANGED ask

RestartWaiting ==
    /\ InPhase("waiting") /\ rec.seen # "none"
    /\ Expect("interrupt", Phase("none"), "restore")
    /\ UNCHANGED <<ask, task, may>>

(* restoreContext: words, registers and mask, those that were changed.     *)
Undone(r) == [task EXCEPT !.code = IF r.words THEN "own" ELSE @,
                          !.regs = IF r.regs THEN "own" ELSE @,
                          !.mask = IF r.mask THEN "own" ELSE @]

RestartStopped ==
    /\ InPhase("stopRestore") /\ Stopped
    /\ \/ /\ task' = Undone(rec) /\ rec' = Phase("stopInterrupt")
          /\ UNCHANGED <<at, may>>
       \/ PhaseRefused(rec, [task EXCEPT !.regs = "own"])
    /\ UNCHANGED ask

(* The group stop, or none where SIGCONT came first.                       *)
RestartStopWait ==
    /\ InPhase("stopWait") /\ rec.seen # "none"
    /\ IF rec.seen = "group" THEN rec' = Phase("groupStop") /\ UNCHANGED at
       ELSE Expect("interrupt", Phase("begin"), "restart")
    /\ UNCHANGED <<ask, task, may>>

(* It stays stopped for its own program and its SIGCONT is waited for.     *)
RestartListen ==
    /\ \/ InPhase("groupStop") /\ Stopped
       \/ InPhase("listening") /\ rec.seen = "none" /\ Stopped /\ task.told
    /\ LET r == [Phase("listening") EXCEPT !.seen = "none", !.stopped = FALSE]
           listens == IF task.job = "stopped" THEN [task EXCEPT !.hold = "listen"]
                      ELSE StopWith(task, "interrupt")
       IN  \/ task' = listens /\ rec' = r /\ UNCHANGED <<at, may>>
           \/ PhaseRefused(r, listens)
    /\ UNCHANGED ask

RestartListening ==
    /\ InPhase("listening") /\ rec.seen # "none"
    /\ Expect("interrupt", Phase("begin"), "restart")
    /\ UNCHANGED <<ask, task, may>>

RestartNext ==
    \/ NoStop \/ RestartBegin \/ RestartMask \/ RestartEnter \/ PhaseWait
    \/ RestartEntering \/ RestartEntered \/ RestartInterrupt \/ RestartResume
    \/ RestartWaiting \/ RestartStopped \/ RestartStopWait \/ RestartListen
    \/ RestartListening

-----------------------------------------------------------------------------
(* Verified, the context is back; a refused write is tried again.          *)
Restore ==
    /\ at = "restore"
    /\ \/ ~Stopped /\ Keeps(rec) /\ UNCHANGED <<task, may>>
       \/ /\ Stopped /\ task' = Undone(rec)
          /\ rec' = [rec EXCEPT !.restored = TRUE] /\ at' = "detach"
          /\ UNCHANGED may
       \/ /\ Stopped /\ Uses("fault")
          /\ \E t \in {task, [Undone(rec) EXCEPT !.regs = task.regs]} : task' = t
          /\ Keeps(rec)
    /\ UNCHANGED ask

(* The signal that was taken over is the program's when the thread goes.   *)
GivenBack == [task EXCEPT !.hold = "free", !.why = "none", !.int = FALSE,
                      !.sig = IF rec.sig \/ @ = "queued" THEN "delivered" ELSE @]

(* A detach reported as refused may have worked: retry() finds out.        *)
DetachStop ==
    /\ at = "detach"
    /\ LET r == [rec EXCEPT !.tried = TRUE]
       IN  \/ ~Detaches /\ Ends(rec) /\ UNCHANGED <<task, may>>
           \/ /\ Detaches /\ Stopped
              /\ task' = GivenBack /\ Ends(r) /\ UNCHANGED may
           \/ /\ Detaches /\ Stopped /\ Uses("fault")
              /\ \E t \in {task, GivenBack} : task' = t
              /\ Keeps(r)
           \/ /\ Detaches /\ ~Stopped
              /\ Keeps(r) /\ UNCHANGED <<task, may>>
    /\ UNCHANGED ask

(* The caller holds the recovery and tries again; the owner of a stop it   *)
(* was given releases it, with the signal it was told of.                  *)
TryAgain == at = "kept" /\ at' = "retry" /\ UNCHANGED <<ask, task, rec, may>>

CallerDetaches ==
    /\ at = "end" /\ ~Detaches /\ Stopped
    /\ task' = GivenBack
    /\ UNCHANGED <<ask, rec, at, may>>

LenderNext ==
    \/ Start \/ Seize \/ Interrupt \/ AwaitStop \/ Check \/ Inspect
    \/ Prove \/ Compare \/ CleanupAffinity \/ Plan \/ Patch \/ SetRegisters
    \/ Step \/ Collect \/ Retry \/ Poll \/ LetGo \/ ReleaseUnprepared
    \/ ReleaseWait \/ Drain \/ DrainWait \/ RestartNext \/ Restore \/ DetachStop
    \/ TryAgain \/ CallerDetaches

LoanNext == LenderNext \/ KernelNext \/ EventNext

LoanSpec == LoanInit /\ [][LoanNext]_loan

(* The owner goes on, a running thread reaches its next stop, and a        *)
(* program that was stopped is continued.                                  *)
LoanFairness == WF_loan(LenderNext) /\ WF_loan(KernelNext) /\ WF_loan(ContSent)

-----------------------------------------------------------------------------
LoanTypeOK ==
    /\ task \in Task
    /\ rec \in Recovery
    /\ at \in Places
    /\ may \in [LoanEvents -> Nat]

(* The thread has everything that is its own ...                           *)
Untouched(t) ==
    /\ t.regs = "own" \/ (ask.how = "inspect" /\ ask.writes /\ t.regs = "edited")
    /\ t.code = "own" /\ t.mask = "own" /\ t.abi = "own"
    /\ ~t.trap /\ ~t.page

(* ... and goes on with its signal, at an instruction that is still there. *)
Whole(t) ==
    /\ Untouched(t)
    /\ t.sig # "held"
    /\ t.lost \cap ReturnPages(ask) = {}

(* A thread that was borrowed and let go, after whatever was refused,      *)
(* denied, signalled or replaced on the way, has its registers, code,      *)
(* signal mask and kernel entry back, no trap, page or signal of the loan  *)
(* is left, and the instruction it returns to still exists.  It never runs *)
(* its own instructions with the ABI it was lent, and a program that       *)
(* replaced it is never given anything of the old one's.                   *)
ContextKept ==
    task.live =>
      /\ task.hold = "free" => Whole(task)
      /\ task.hold = "run" /\ task.regs = "own" /\ task.abi # "own" => task.int
      /\ task.image = 2 => Untouched(task)

(* A call that was made is reported as made, so that its mapping has an    *)
(* owner: with the result or beside the error and the recovery.            *)
ValueReported ==
    task.live /\ task.made /\ at \in {"kept", "end"} => rec.have

LoanSound == LoanTypeOK /\ ContextKept /\ ValueReported

(* Every loan ends, and with it the recovery that would have to be tried   *)
(* again: the thread is let go, or is dead.                                *)
ThreadLetGo == <>[](at = "end" /\ (~task.live \/ task.hold = "free"))
=============================================================================
