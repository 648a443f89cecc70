-------------------------- MODULE TargetSyscallProofs --------------------------
(***************************************************************************)
(* LoanSound of TargetSyscall for any request and layout of the target that*)
(* LoansAssumption allows, and any number of refused requests and denials, *)
(* with a signal, a SIGSTOP, an exec and a kill at any moment.             *)
(*                                                                         *)
(* That a thread let go has everything back is not inductive: it depends on*)
(* what the owner remembers of the loan.  LoanInv says that whatever of the*)
(* loan is still in the thread has its original in the record (Recorded),  *)
(* what the record has at each place of the code (RecordOK), who may have  *)
(* let the thread run and with what (RunOK), what is known of a stop       *)
(* (StopOK), of a program that replaced the thread's (ReplacedOK) and of   *)
(* the phases that make its own kernel entry again (PhaseOK).              *)
(***************************************************************************)
EXTENDS TargetSyscall, TLAPS

(* The request, as the model's assumption has it.                          *)
AskOK ==
    /\ ask.op.kind \in {"map", "unmap", "noexec", "fixed"}
    /\ ask.op.from \in Nat /\ ask.op.to \in Nat
    /\ ask.crosses \in BOOLEAN /\ ask.behind \in BOOLEAN
    /\ ask.writes \in BOOLEAN

(* Before anything is prepared; while it is lent; where every try to give  *)
(* it back passes.                                                         *)
Before == {"start", "seize", "interrupt", "await", "check", "inspect",
           "prove", "compare", "unprove", "plan"}
Lending == {"patch", "set", "step", "collect"}
Passing == {"kept", "retry", "affinity", "poll"}

(* The thread must be stopped, and by this owner.                          *)
Looking == {"check", "inspect", "prove", "compare", "unprove", "plan",
            "patch", "set", "step"}

(* Phases that wait for the next stop of a thread they resumed.            *)
Waits == {"entering", "waiting", "stopWait"}

(* What the record says of itself and of the owner's place.                *)
RecordOK ==
    /\ at \in Before => ~rec.prepared /\ ~rec.retired /\ ~rec.nested
    /\ at \in Lending \cup {"restart", "restore", "drain", "drainWait"}
         => rec.prepared /\ ~rec.retired
    /\ at \in {"release", "releaseWait"} => ~rec.prepared /\ ~rec.retired
    /\ at = "letgo" => rec.retired
    /\ at \in {"affinity", "detach"} => ~rec.retired
    /\ ~rec.prepared /\ ~rec.retired =>
         ~rec.regs /\ ~rec.words /\ ~rec.mask /\ ~rec.step /\ rec.phase = "none"
    /\ rec.prepared \/ rec.retired \/ at \notin {"prove", "compare", "unprove",
                                     "kept", "retry", "affinity", "end"}
         => ~rec.page /\ ~rec.nested
    /\ at \in Lending => /\ CanLend(ask) /\ ~rec.step
                         /\ rec.phase = IF ask.parked = "other" THEN "begin" ELSE "none"
    /\ at = "patch" => rec.words
    /\ at \in Before \cup Lending => ~rec.have
    /\ at \in {"step", "collect"} => rec.regs
    /\ at \in {"restart", "restore", "detach"} => ~rec.step
    /\ at = "restart" => rec.phase # "none" /\ rec.regs
    /\ at = "restore" => rec.phase = "none" \/ ~rec.regs
    /\ rec.phase \notin {"none", "begin"} => rec.regs /\ ~rec.step
    /\ at \in {"check", "inspect", "prove", "compare", "unprove", "plan"}
         => rec.stopped
    /\ at \in {"start", "seize", "interrupt", "await"} => ~rec.stopped
    /\ at \in {"seize", "interrupt", "await", "check", "inspect"} => Detaches
    /\ at = "inspect" => ask.how = "inspect"
    /\ rec.nested \/ rec.page => rec.stopped
    /\ ~rec.dead

(* Whatever of the loan the thread has, the record has the original of.    *)
Recorded ==
    /\ task.code = "patched" => rec.prepared /\ rec.words
    /\ task.mask = "held" => rec.prepared /\ rec.mask
    /\ task.regs = "edited" => ask.how = "inspect" /\ ask.writes
    /\ task.regs \notin {"own", "edited"} =>
         rec.nested \/ (rec.prepared /\ rec.regs)
    /\ task.abi # "own" => rec.prepared /\ rec.regs /\ rec.phase # "none"
    /\ task.page => rec.page
    /\ task.trap => /\ task.regs = "lent" /\ rec.prepared
                    /\ rec.step \/ (at = "collect" /\ Stopped /\ task.why = "denied")
    /\ task.lost \cap ReturnPages(ask) = {}
    /\ task.made => \/ rec.have
                    \/ /\ at = "collect" /\ Stopped
                       /\ \/ task.why = "trap"
                          \/ task.why \in {"signal", "event"} /\ task.past
    /\ task.sig = "held" =>
         \/ rec.sig
         \/ /\ Stopped /\ task.why = "signal" /\ ~task.told
            /\ ~rec.prepared /\ ~rec.retired /\ ~rec.stopped
            /\ at \in {"interrupt", "await", "release", "releaseWait"} \cup Passing
         \/ at = "collect" /\ Stopped /\ task.why = "signal"

(* Who let the thread run, and with what.                                  *)
RunsUnprepared ==
    /\ ~rec.prepared /\ ~rec.retired /\ ~rec.stopped /\ ~rec.nested
    /\ at \in {"interrupt", "await", "release", "releaseWait"} \cup Passing

RunsLent == at = "collect" /\ task.regs = "lent" /\ ~task.trap /\ task.image = 1

RunsToTrap == at = "drainWait" /\ task.regs = "lent" /\ task.trap /\ task.image = 1

RunsInPhase ==
    /\ rec.prepared /\ ~rec.retired /\ task.image = 1
    /\ at \in {"restart"} \cup Passing
    /\ rec.phase \in Waits /\ rec.seen = "none"

RunOK ==
    /\ task.hold = "run" =>
         RunsUnprepared \/ RunsLent \/ RunsToTrap \/ RunsInPhase
    /\ task.hold = "listen" =>
         rec.prepared /\ ~rec.retired /\ task.image = 1 /\ rec.phase = "listening"
         /\ at \in {"restart"} \cup Passing

(* A thread that is stopped, or is nobody's.                               *)
StopOK ==
    /\ task.hold = "free" => Whole(task)
    /\ at \in {"start", "seize"} =>
         /\ task.hold # "run" /\ ~task.int
         /\ task.hold = "stop" => task.told /\ ~Detaches /\ task.image = 1
         /\ task.sig # "held"
    /\ at \in Looking => /\ task.hold \in {"stop", "free"} /\ ~task.int
                         /\ task.hold = "stop" => task.image = 1 /\ task.told
    /\ at \in Looking \/ (at = "start" /\ ~Detaches) =>
         (task.hold = "free" => task.image = 2)
    /\ at = "step" /\ task.hold = "stop" => task.regs = "lent"
    /\ at = "interrupt" => ~task.int /\ (Stopped => task.why # "interrupt")
    /\ at = "await" => (Stopped /\ task.why = "interrupt" => ~task.int)
    /\ at = "detach" => task.hold \in {"stop", "free"}
    /\ at \in {"detach", "end"} /\ task.hold = "stop" => Untouched(task)
    /\ at = "end" => task.hold \in {"stop", "free"}
    /\ ~rec.prepared /\ ~rec.retired /\ rec.stopped =>
         /\ task.hold \in {"stop", "free"}
         /\ task.hold = "stop" => task.told
    /\ at = "collect" \/ rec.step => ~task.int /\ task.job \in {"none", "over"}
    /\ at \in Before \cup Lending => task.job \in {"none", "over"}
    /\ at = "drainWait" /\ Stopped => ~task.trap /\ (task.image = 2 => task.why = "exec")
    /\ task.why = "entry" => task.abi = "own"
    /\ task.hold = "stop" => task.why # "none"

(* A program that took the thread's place.                                 *)
ReplacedOK ==
    /\ task.image = 2 => Untouched(task)
    /\ rec.retired \/ task.why = "exec" \/ rec.seen = "exec" => task.image = 2
    /\ task.image = 2 /\ (rec.prepared \/ rec.retired) =>
         /\ task.hold \in {"stop", "free"} /\ task.sig # "held"
         /\ task.hold = "stop" => task.why = "exec"
         /\ task.hold = "stop" /\ ~rec.retired =>
              \/ at \in {"collect", "drainWait"}
              \/ /\ rec.phase \in Waits
                 /\ at \in {"restart"} \cup Passing
                 /\ (~task.told /\ rec.seen = "none") \/ rec.seen = "exec"

(* Where a phase of the restart has brought the thread.                    *)
PhaseOK ==
    rec.prepared /\ ~rec.retired /\ task.image = 1 =>
      /\ rec.phase \notin {"none", "begin"} => at \in {"restart"} \cup Passing
      /\ rec.phase \notin {"none", "begin"} => task.hold # "free"
      /\ task.hold = "free" => rec.phase = "none" \/ ~rec.regs
      /\ rec.phase \in {"masking", "ready"} => rec.seen = "none"
      /\ rec.phase \notin {"none", "begin", "listening"} \cup Waits =>
           task.hold = "stop" /\ task.told
      /\ rec.phase \in {"listening"} \cup Waits /\ rec.seen # "none" =>
           task.hold = "stop" /\ task.told
      /\ at = "drain" \/ (at = "restart" /\ rec.phase = "begin") =>
           (task.hold = "stop" => task.told)
      /\ at \in {"detach", "end"} => rec.phase = "none" \/ ~rec.regs
      /\ rec.phase \in {"ready", "entering", "entered", "interrupt", "resume",
                        "waiting"} => task.mask = "held"
      /\ rec.phase \in {"entered", "interrupt", "resume", "waiting"} => task.abi = "own"
      /\ rec.phase \in {"interrupt", "resume", "waiting", "stopInterrupt",
                        "stopResume", "stopWait", "groupStop", "listening"}
           => task.regs = "own"
      /\ rec.phase = "entering" => task.regs = "entry"
      /\ rec.phase = "entering" /\ rec.seen = "entry" => task.abi = "own"
      /\ rec.phase \in {"resume", "stopResume"} => rec.seen = "none" /\ task.int
      /\ rec.phase \in {"waiting", "stopWait"} =>
           (task.hold = "run" \/ (rec.seen = "none" /\ task.told) => task.int)

(* A dead thread has nothing, and never lives again.                       *)
Living == RecordOK /\ Recorded /\ RunOK /\ StopOK /\ ReplacedOK /\ PhaseOK

LoanInv == LoanTypeOK /\ AskOK /\ (task.live => Living)

-----------------------------------------------------------------------------
(* u is the thread t but for the fields in S ...                           *)
OnlyTask(u, t, S) ==
    /\ u \in Task
    /\ "live" \notin S => u.live = t.live
    /\ "hold" \notin S => u.hold = t.hold
    /\ "why" \notin S => u.why = t.why
    /\ "told" \notin S => u.told = t.told
    /\ "regs" \notin S => u.regs = t.regs
    /\ "code" \notin S => u.code = t.code
    /\ "mask" \notin S => u.mask = t.mask
    /\ "abi" \notin S => u.abi = t.abi
    /\ "image" \notin S => u.image = t.image
    /\ "sig" \notin S => u.sig = t.sig
    /\ "job" \notin S => u.job = t.job
    /\ "int" \notin S => u.int = t.int
    /\ "trap" \notin S => u.trap = t.trap
    /\ "page" \notin S => u.page = t.page
    /\ "past" \notin S => u.past = t.past
    /\ "made" \notin S => u.made = t.made
    /\ "lost" \notin S => u.lost = t.lost

(* ... and the record t but for the fields in S.                           *)
OnlyRec(u, t, S) ==
    /\ u \in Recovery
    /\ "seized" \notin S => u.seized = t.seized
    /\ "stopped" \notin S => u.stopped = t.stopped
    /\ "prepared" \notin S => u.prepared = t.prepared
    /\ "regs" \notin S => u.regs = t.regs
    /\ "words" \notin S => u.words = t.words
    /\ "mask" \notin S => u.mask = t.mask
    /\ "done" \notin S => u.done = t.done
    /\ "retired" \notin S => u.retired = t.retired
    /\ "dead" \notin S => u.dead = t.dead
    /\ "restored" \notin S => u.restored = t.restored
    /\ "tried" \notin S => u.tried = t.tried
    /\ "sig" \notin S => u.sig = t.sig
    /\ "step" \notin S => u.step = t.step
    /\ "nested" \notin S => u.nested = t.nested
    /\ "page" \notin S => u.page = t.page
    /\ "phase" \notin S => u.phase = t.phase
    /\ "seen" \notin S => u.seen = t.seen
    /\ "again" \notin S => u.again = t.again
    /\ "have" \notin S => u.have = t.have
    /\ "err" \notin S => u.err = t.err

(* The same, with the equality of truth values as an equivalence: what is  *)
(* true of the old is true of the new.                                     *)
TaskBut(u, t, S) ==
    /\ "live" \notin S => (u.live <=> t.live)
    /\ "hold" \notin S => u.hold = t.hold
    /\ "why" \notin S => u.why = t.why
    /\ "told" \notin S => (u.told <=> t.told)
    /\ "regs" \notin S => u.regs = t.regs
    /\ "code" \notin S => u.code = t.code
    /\ "mask" \notin S => u.mask = t.mask
    /\ "abi" \notin S => u.abi = t.abi
    /\ "image" \notin S => u.image = t.image
    /\ "sig" \notin S => u.sig = t.sig
    /\ "job" \notin S => u.job = t.job
    /\ "int" \notin S => (u.int <=> t.int)
    /\ "trap" \notin S => (u.trap <=> t.trap)
    /\ "page" \notin S => (u.page <=> t.page)
    /\ "past" \notin S => (u.past <=> t.past)
    /\ "made" \notin S => (u.made <=> t.made)
    /\ "lost" \notin S => u.lost = t.lost

RecBut(u, t, S) ==
    /\ "seized" \notin S => (u.seized <=> t.seized)
    /\ "stopped" \notin S => (u.stopped <=> t.stopped)
    /\ "prepared" \notin S => (u.prepared <=> t.prepared)
    /\ "regs" \notin S => (u.regs <=> t.regs)
    /\ "words" \notin S => (u.words <=> t.words)
    /\ "mask" \notin S => (u.mask <=> t.mask)
    /\ "done" \notin S => (u.done <=> t.done)
    /\ "retired" \notin S => (u.retired <=> t.retired)
    /\ "dead" \notin S => (u.dead <=> t.dead)
    /\ "restored" \notin S => (u.restored <=> t.restored)
    /\ "tried" \notin S => (u.tried <=> t.tried)
    /\ "sig" \notin S => (u.sig <=> t.sig)
    /\ "step" \notin S => (u.step <=> t.step)
    /\ "nested" \notin S => (u.nested <=> t.nested)
    /\ "page" \notin S => (u.page <=> t.page)
    /\ "phase" \notin S => u.phase = t.phase
    /\ "seen" \notin S => u.seen = t.seen
    /\ "again" \notin S => (u.again <=> t.again)
    /\ "have" \notin S => (u.have <=> t.have)
    /\ "err" \notin S => (u.err <=> t.err)

(* A step that changes only these fields of the thread and of the record.  *)
Only(S, Q) ==
    /\ OnlyTask(task', task, S) /\ OnlyRec(rec', rec, Q)
    /\ ask' = ask /\ may' \in [LoanEvents -> Nat] /\ at' \in Places

USE DEF Before, Lending, Passing, Looking, Waits, Stopped, Detaches

-----------------------------------------------------------------------------
(* What the assignments of the actions leave alone.                        *)

LEMMA LoanTypes ==
    ASSUME LoanInv
    PROVE  task \in Task /\ rec \in Recovery /\ at \in Places /\ AskOK
BY DEF LoanInv, LoanTypeOK

LEMMA MayStays ==
    ASSUME LoanInv, may' = may \/ \E e \in LoanEvents : Uses(e)
    PROVE  may' \in [LoanEvents -> Nat]
BY DEF LoanInv, LoanTypeOK, Uses

LEMMA TaskStays ==
    ASSUME LoanInv, task' = task
    PROVE  OnlyTask(task', task, {})
BY DEF LoanInv, LoanTypeOK, OnlyTask

LEMMA RecStays ==
    ASSUME LoanInv, rec' = rec
    PROVE  OnlyRec(rec', rec, {})
BY DEF LoanInv, LoanTypeOK, OnlyRec

LEMMA RunningIs ==
    ASSUME LoanInv, task' = Running(task)
    PROVE  /\ task'.hold = "run" /\ task'.why = "none" /\ ~task'.told
           /\ OnlyTask(task', task, {"hold", "why", "told"})
BY ZenonT(40) DEF Running, Task, OnlyTask, Stops, LoanInv, LoanTypeOK

LEMMA StopWithIs ==
    ASSUME NEW t \in Task, NEW why \in Stops
    PROVE  /\ StopWith(t, why).hold = "stop" /\ StopWith(t, why).why = why
           /\ ~StopWith(t, why).told
           /\ OnlyTask(StopWith(t, why), t, {"hold", "why", "told"})
BY DEF StopWith, Task, OnlyTask

Called(s, past, lost, abi) ==
    [s EXCEPT !.past = past, !.made = past, !.lost = lost, !.abi = abi]

LEMMA CalledIs ==
    ASSUME NEW s \in Task, NEW past \in BOOLEAN, NEW lost \in SUBSET Pages,
           NEW abi \in {"own", "other"}, NEW u, u = Called(s, past, lost, abi)
    PROVE  /\ OnlyTask(u, s, {"past", "made", "lost", "abi"})
           /\ u.past = past /\ u.made = past /\ u.lost = lost /\ u.abi = abi
BY ZenonT(40) DEF Task, OnlyTask, Called

Cleared(t, lost, sig) ==
    [t EXCEPT !.trap = FALSE, !.int = FALSE, !.page = FALSE, !.made = FALSE,
              !.lost = lost, !.sig = sig, !.job = "over"]

LEMMA ClearedIs ==
    ASSUME NEW t \in Task, NEW lost \in SUBSET Pages, NEW sig \in {"none", "delivered"}
    PROVE  Cleared(t, lost, sig) \in Task
BY ZenonT(40) DEF Task, Cleared

LEMMA ReplacedIs ==
    ASSUME NEW t \in Task, NEW hold \in {"free", "stop"}, NEW u,
           u = Replaced(t, hold)
    PROVE  /\ OnlyTask(u, t, {"image", "hold", "why", "told", "regs", "code", "mask",
                              "abi", "trap", "int", "page", "made", "lost", "sig", "job"})
           /\ u.image = 2 /\ u.hold = hold /\ ~u.told
           /\ u.why = IF hold = "stop" THEN "exec" ELSE "none"
           /\ u.regs = "own" /\ u.code = "own" /\ u.mask = "own" /\ u.abi = "own"
           /\ ~u.trap /\ ~u.int /\ ~u.page /\ ~u.made /\ u.lost = {}
           /\ u.sig # "held" /\ u.job = "over"
<1>1. PICK why \in Stops : why = IF hold = "stop" THEN "exec" ELSE "none"
  BY DEF Stops
<1>2. PICK sig \in {"none", "delivered"} :
        sig = IF t.sig = "delivered" THEN t.sig ELSE "none"
  BY DEF Task
<1>0. PICK none \in SUBSET Pages : none = {}
  OBVIOUS
<1>3. u = [t EXCEPT !.image = 2, !.hold = hold, !.why = why, !.told = FALSE,
             !.regs = "own", !.code = "own", !.mask = "own", !.abi = "own",
             !.trap = FALSE, !.int = FALSE, !.page = FALSE, !.made = FALSE,
             !.lost = none, !.sig = sig, !.job = "over"]
  BY <1>0, <1>1, <1>2 DEF Replaced
<1>4. u \in Task
  <2> DEFINE v == [t EXCEPT !.image = 2, !.hold = hold, !.why = why,
                            !.told = FALSE, !.lost = none, !.regs = "own",
                            !.code = "own", !.mask = "own", !.abi = "own"]
  <2>1. v \in Task
    BY ZenonT(40) DEF Task
  <2>2. u = Cleared(v, none, sig)
    BY ZenonT(40), <1>3 DEF Task, Cleared
  <2> HIDE DEF v
  <2> QED BY <2>1, <2>2, ClearedIs
<1>5. u.past = t.past /\ u.live = t.live
  BY <1>3 DEF Task
<1>6. /\ u.image = 2 /\ u.hold = hold /\ ~u.told /\ u.why = why
      /\ u.regs = "own" /\ u.code = "own" /\ u.mask = "own" /\ u.abi = "own"
  BY <1>3 DEF Task
<1>7. /\ ~u.trap /\ ~u.int /\ ~u.page /\ ~u.made /\ u.lost = none
      /\ u.sig = sig /\ u.job = "over"
  BY <1>3 DEF Task
<1> QED BY <1>0, <1>1, <1>4, <1>5, <1>6, <1>7 DEF OnlyTask

LEMMA ToldIs ==
    ASSUME LoanInv, Told
    PROVE  task'.told /\ OnlyTask(task', task, {"told"})
BY DEF Told, Task, OnlyTask, LoanInv, LoanTypeOK

LEMMA FailsIs ==
    ASSUME LoanInv, Fails(rec)
    PROVE  at' = "retry" /\ OnlyRec(rec', rec, {"err"})
BY DEF Fails, Recovery, OnlyRec, LoanInv, LoanTypeOK

LEMMA KeepsIs ==
    ASSUME LoanInv, Keeps(rec)
    PROVE  at' = "kept" /\ OnlyRec(rec', rec, {})
BY DEF Keeps, OnlyRec, LoanInv, LoanTypeOK

LEMMA EndsIs ==
    ASSUME LoanInv, Ends(rec)
    PROVE  at' = "end" /\ OnlyRec(rec', rec, {"done"})
BY DEF Ends, Recovery, OnlyRec, LoanInv, LoanTypeOK

LEMMA EndsInError ==
    ASSUME LoanInv, Ends([rec EXCEPT !.err = TRUE])
    PROVE  at' = "end" /\ OnlyRec(rec', rec, {"done", "err"})
BY DEF Ends, Recovery, OnlyRec, LoanInv, LoanTypeOK

LEMMA RememberIs ==
    ASSUME LoanInv
    PROVE  /\ OnlyRec(rememberStop(rec), rec, {"stopped", "sig"})
           /\ rememberStop(rec).stopped
           /\ rec.sig \/ task.why = "signal" => rememberStop(rec).sig
BY DEF rememberStop, Recovery, OnlyRec, LoanInv, LoanTypeOK

LEMMA FailsRemembering ==
    ASSUME LoanInv, Fails(rememberStop(rec))
    PROVE  /\ at' = "retry" /\ OnlyRec(rec', rec, {"stopped", "sig", "err"})
           /\ rec'.stopped /\ (rec.sig \/ task.why = "signal" => rec'.sig)
<1> DEFINE r == rememberStop(rec)
<1>1. OnlyRec(r, rec, {"stopped", "sig"}) /\ r.stopped
      /\ (rec.sig \/ task.why = "signal" => r.sig)
  BY RememberIs
<1>2. at' = "retry" /\ rec' = [r EXCEPT !.err = TRUE]
  BY DEF Fails
<1> HIDE DEF r
<1>3. OnlyRec(rec', r, {"err"})
  BY <1>1, <1>2 DEF OnlyRec, Recovery
<1> QED BY <1>1, <1>2, <1>3 DEF OnlyRec

(* A call that is lent leaves alone what the thread returns to.            *)
LEMMA LentIsSafe ==
    ASSUME AskOK, CanLend(ask)
    PROVE  Destroyed \cap ReturnPages(ask) = {} /\ Destroyed \in SUBSET Pages
<1>1. ~Refused(ask)
  BY DEF CanLend
<1>2. ASSUME NEW p \in Destroyed, p \in ReturnPages(ask) PROVE FALSE
  <2>1. /\ Destructive(ask.op) /\ p \in Nat
        /\ ask.op.from <= p /\ p < ask.op.to
    BY <1>2 DEF Destroyed, Destructive, AskOK, Pages
  <2>2. CASE p = PcPage
    BY <1>1, <2>1, <2>2 DEF Refused, Affects, PcPage, AskOK
  <2>3. CASE p = PcPage + 1 /\ ask.crosses
    BY <1>1, <2>1, <2>3 DEF Refused, Affects, PcPage, AskOK, returnInstructionLastByte
  <2>4. CASE p = PcPage - 1 /\ ask.parked # "no" /\ ask.behind
    BY <1>1, <2>1, <2>4 DEF Refused, Affects, PcPage, AskOK
  <2> QED BY <1>2, <2>2, <2>3, <2>4 DEF ReturnPages
<1> QED BY <1>2 DEF Destroyed

-----------------------------------------------------------------------------
USE DEF Only, OnlyTask, OnlyRec, AskOK, RecordOK, Recorded,
        RunOK, RunsUnprepared, RunsLent, RunsToTrap, RunsInPhase, StopOK,
        ReplacedOK, PhaseOK, Whole, Untouched

(* Nothing is recorded: nothing of the loan is in the thread.              *)
LEMMA NothingLent ==
    ASSUME LoanInv, task.live, ~rec.prepared, ~rec.nested, ~rec.page
    PROVE  Untouched(task)
BY LoanTypes DEF Task, LoanInv, Living

(* The kernel and the program's own events.                                *)

LEMMA KilledKeeps == ASSUME LoanInv, TaskKilled PROVE LoanInv'
<1>1. Only({"live"}, {}) /\ ~task'.live
  BY LoanTypes, MayStays, RecStays DEF TaskKilled, Task, LoanEvents
<1> QED BY <1>1 DEF TaskKilled, LoanInv, LoanTypeOK, Living

LEMMA SignalSentKeeps == ASSUME LoanInv, SignalSent PROVE LoanInv'
<1>1. Only({"sig"}, {})
      /\ task'.sig = IF task.hold = "free" THEN "delivered" ELSE "queued"
  BY ZenonT(40), LoanTypes, MayStays, RecStays DEF SignalSent, Task, LoanEvents
<1> QED BY <1>1 DEF SignalSent, LoanInv, LoanTypeOK, Living

LEMMA SignalStopsKeeps == ASSUME LoanInv, SignalStops PROVE LoanInv'
<1> DEFINE s == StopWith(task, "signal")
<1>1. PICK past \in IF task.regs = "lent" THEN BOOLEAN ELSE {FALSE} :
         task' = [s EXCEPT
                    !.sig = "held", !.past = past, !.made = past,
                    !.lost = IF past THEN Destroyed ELSE @,
                    !.abi = IF past /\ ask.parked = "other" THEN "other" ELSE @]
  BY DEF SignalStops
<1>2. task.regs = "lent" => at = "collect"
  BY DEF SignalStops, LoanInv, Living
<1>3. /\ Destroyed \in SUBSET Pages
      /\ past => Destroyed \cap ReturnPages(ask) = {}
  BY <1>1, <1>2, LentIsSafe DEF SignalStops, Destroyed, LoanInv, Living
<1>s. s.hold = "stop" /\ s.why = "signal" /\ ~s.told
      /\ OnlyTask(s, task, {"hold", "why", "told"})
  BY LoanTypes, StopWithIs DEF Stops
<1> HIDE DEF s
<1>4. /\ OnlyTask(task', s, {"sig", "past", "made", "lost", "abi"})
      /\ task'.sig = "held" /\ task'.past = past /\ task'.made = past
      /\ task'.lost = IF past THEN Destroyed ELSE s.lost
      /\ task'.abi = IF past /\ ask.parked = "other" THEN "other" ELSE s.abi
  BY ZenonT(40), <1>1, <1>3, <1>s DEF Task
<1>7. past \in BOOLEAN /\ (past => task.regs = "lent")
  BY <1>1
<1>6. /\ OnlyTask(task', task, {"hold", "why", "told", "sig", "past", "made", "lost", "abi"})
      /\ task'.hold = "stop" /\ task'.why = "signal" /\ ~task'.told
      /\ task'.sig = "held" /\ task'.past = past /\ task'.made = past
      /\ task'.lost = IF past THEN Destroyed ELSE task.lost
      /\ task'.abi = IF past /\ ask.parked = "other" THEN "other" ELSE task.abi
  BY <1>4, <1>s
<1>5. /\ OnlyRec(rec', rec, {}) /\ ask' = ask /\ at' = at
      /\ may' \in [LoanEvents -> Nat]
      /\ task.live /\ task.hold = "run" /\ task.mask = "own" /\ ~task.trap /\ ~task.int
  BY MayStays, RecStays DEF SignalStops
<1> QED BY <1>2, <1>3, <1>5, <1>6, <1>7 DEF LoanInv, LoanTypeOK, Living

LEMMA StopSentKeeps == ASSUME LoanInv, StopSent PROVE LoanInv'
<1>1. Only({"job"}, {}) /\ task'.job = "sent"
  BY LoanTypes, MayStays, RecStays DEF StopSent, Task, LoanEvents
<1> QED BY <1>1 DEF StopSent, LoanInv, LoanTypeOK, Living

LEMMA JobStopsKeeps == ASSUME LoanInv, JobStops PROVE LoanInv'
<1>1. Only({"hold", "why", "told", "job"}, {})
      /\ task'.hold = "stop" /\ task'.why = "stopsig" /\ ~task'.told
  BY ZenonT(40), LoanTypes, MayStays, RecStays DEF JobStops, StopWith, Task, Stops
<1> QED BY <1>1 DEF JobStops, LoanInv, LoanTypeOK, Living

LEMMA ContSentKeeps == ASSUME LoanInv, ContSent PROVE LoanInv'
<1>1. CASE task.hold = "listen"
  <2> DEFINE heard == StopWith(task, "interrupt")
  <2>1. /\ heard.hold = "stop" /\ heard.why = "interrupt" /\ ~heard.told
        /\ OnlyTask(heard, task, {"hold", "why", "told"})
    <3>1. task \in Task /\ "interrupt" \in Stops
      BY LoanTypes DEF Stops
    <3> QED BY <3>1, StopWithIs
  <2>2. task' = [heard EXCEPT !.job = "over"]
    BY <1>1 DEF ContSent
  <2> HIDE DEF heard
  <2>3. heard \in Task
    BY <2>1 DEF OnlyTask
  <2>4. OnlyTask(task', heard, {"job"})
    BY <2>2, <2>3 DEF Task, OnlyTask
  <2>5. /\ Only({"hold", "why", "told", "job"}, {})
        /\ task'.hold = "stop" /\ task'.why = "interrupt" /\ ~task'.told
    <3>1. OnlyRec(rec', rec, {}) /\ ask' = ask /\ at' \in Places
          /\ may' \in [LoanEvents -> Nat]
      BY LoanTypes, MayStays, RecStays DEF ContSent, LoanEvents
    <3> QED BY <2>1, <2>4, <3>1 DEF Only, OnlyTask
  <2> QED BY <1>1, <2>5 DEF ContSent, LoanInv, LoanTypeOK, Living
<1>2. CASE task.hold # "listen"
  <2>1. Only({"job"}, {}) /\ task'.job = "over"
    BY <1>2, LoanTypes, MayStays, RecStays DEF ContSent, Task, LoanEvents
  <2> QED BY <1>2, <2>1 DEF ContSent, LoanInv, LoanTypeOK, Living
<1> QED BY <1>1, <1>2

LEMMA InterruptStopsKeeps == ASSUME LoanInv, InterruptStops PROVE LoanInv'
<1>1. CASE task.job = "held"
  <2>1. Only({"hold", "why", "told", "job", "int"}, {})
        /\ task'.hold = "stop" /\ task'.why = "group" /\ ~task'.told /\ ~task'.int
    BY ZenonT(40), <1>1, LoanTypes, MayStays, RecStays DEF InterruptStops, StopWith, Task, Stops
  <2> QED BY <1>1, <2>1 DEF InterruptStops, LoanInv, LoanTypeOK, Living
<1>2. CASE task.job # "held"
  <2>1. Only({"hold", "why", "told", "int"}, {})
        /\ task'.hold = "stop" /\ task'.why = "interrupt" /\ ~task'.told
        /\ ~task'.int
    BY ZenonT(40), <1>2, LoanTypes, MayStays, RecStays DEF InterruptStops, StopWith, Task, Stops
  <2> QED BY <1>2, <2>1 DEF InterruptStops, LoanInv, LoanTypeOK, Living
<1> QED BY <1>1, <1>2

LEMMA ExecsKeeps == ASSUME LoanInv, TaskExecs PROVE LoanInv'
<1>1. PICK hold \in {"free", "stop"} :
        task' = Replaced(task, hold) /\ (hold = "stop" => task.hold = "run")
  BY DEF TaskExecs
<1>2. /\ OnlyTask(task', task, {"image", "hold", "why", "told", "regs", "code",
                 "mask", "abi", "trap", "int", "page", "made", "lost", "sig", "job"})
      /\ task'.image = 2 /\ task'.hold = hold /\ ~task'.told
      /\ task'.why = IF hold = "stop" THEN "exec" ELSE "none"
      /\ task'.regs = "own" /\ task'.code = "own" /\ task'.mask = "own"
      /\ task'.abi = "own" /\ ~task'.trap /\ ~task'.int /\ ~task'.page
      /\ ~task'.made /\ task'.lost = {} /\ task'.sig # "held" /\ task'.job = "over"
  BY <1>1, LoanTypes, ReplacedIs
<1>3. rec' = rec /\ at' = at /\ ask' = ask /\ may' \in [LoanEvents -> Nat]
  BY MayStays DEF TaskExecs, LoanEvents
<1> QED BY <1>1, <1>2, <1>3 DEF TaskExecs, LoanInv, LoanTypeOK, Living

LEMMA InjectedKeeps == ASSUME LoanInv, InjectedRuns PROVE LoanInv'
<1>0. /\ task.live /\ task.hold = "run" /\ task.regs = "lent" /\ ~task.trap /\ ~task.int
      /\ ask' = ask /\ at' = at /\ OnlyRec(rec', rec, {})
      /\ may' \in [LoanEvents -> Nat]
  BY MayStays, RecStays DEF InjectedRuns, LoanEvents
<1>1. /\ at = "collect" /\ Destroyed \cap ReturnPages(ask) = {}
      /\ Destroyed \in SUBSET Pages
  BY <1>0, LentIsSafe DEF LoanInv, Living
<1>a. task \in Task
  BY LoanTypes
<1>2. ASSUME NEW past \in BOOLEAN, NEW why \in {"trap", "event"}, why = "trap" => past,
             task' = [StopWith(task, why) EXCEPT
                        !.past = past, !.made = past,
                        !.lost = IF past THEN Destroyed ELSE @,
                        !.abi = IF past /\ ask.parked = "other" THEN "other" ELSE @]
      PROVE  LoanInv'
  <2> DEFINE s == StopWith(task, why)
             lost == IF past THEN Destroyed ELSE s.lost
             abi == IF past /\ ask.parked = "other" THEN "other" ELSE s.abi
  <2>1. s.hold = "stop" /\ s.why = why /\ ~s.told
        /\ OnlyTask(s, task, {"hold", "why", "told"})
    BY <1>a, StopWithIs DEF Stops
  <2>0. s \in Task
    BY <2>1
  <2>2. task' = Called(s, past, lost, abi)
    BY <1>2 DEF Called
  <2> HIDE DEF s
  <2>3. lost \in SUBSET Pages /\ abi \in {"own", "other"}
    BY <1>1, <2>1 DEF Task
  <2> HIDE DEF lost, abi
  <2> HIDE DEF OnlyTask
  <2>4. /\ OnlyTask(task', s, {"past", "made", "lost", "abi"})
        /\ task'.past = past /\ task'.made = past
        /\ task'.lost = lost /\ task'.abi = abi
    BY <2>0, <2>2, <2>3, CalledIs
  <2> USE DEF OnlyTask
  <2> QED BY <1>0, <1>1, <1>2, <2>1, <2>4 DEF LoanInv, LoanTypeOK, Living, lost, abi
<1>3. ASSUME NEW trap \in BOOLEAN,
             task' = [StopWith(task, "denied") EXCEPT
                        !.past = TRUE, !.trap = trap,
                        !.abi = IF ask.parked = "other" THEN "other" ELSE @]
      PROVE  LoanInv'
  <2> DEFINE s == StopWith(task, "denied")
             abi == IF ask.parked = "other" THEN "other" ELSE s.abi
  <2>1. s.hold = "stop" /\ s.why = "denied" /\ ~s.told
        /\ OnlyTask(s, task, {"hold", "why", "told"})
    BY <1>a, StopWithIs DEF Stops
  <2>0. s \in Task
    BY <2>1
  <2>2. task' = [s EXCEPT !.past = TRUE, !.trap = trap, !.abi = abi]
    BY <1>3
  <2> HIDE DEF s
  <2>3. abi \in {"own", "other"}
    BY <2>1 DEF Task
  <2> HIDE DEF abi
  <2>4. OnlyTask(task', s, {"past", "trap", "abi"}) /\ task'.abi = abi
    BY ZenonT(40), <1>3, <2>0, <2>2, <2>3 DEF Task
  <2> QED BY <1>0, <1>1, <2>1, <2>4 DEF LoanInv, LoanTypeOK, Living, abi
<1>4. CASE task' = [StopWith(task, "trap") EXCEPT
                      !.past = TRUE, !.made = TRUE, !.lost = Destroyed,
                      !.abi = IF ask.parked = "other" THEN "other" ELSE @]
  <2>1. task' = [StopWith(task, "trap") EXCEPT
                   !.past = TRUE, !.made = TRUE,
                   !.lost = IF TRUE THEN Destroyed ELSE @,
                   !.abi = IF TRUE /\ ask.parked = "other" THEN "other" ELSE @]
    BY <1>4
  <2> QED BY <1>2, <2>1
<1> QED BY <1>2, <1>3, <1>4 DEF InjectedRuns

LEMMA TrapStopsKeeps == ASSUME LoanInv, TrapStops PROVE LoanInv'
<1>1. Only({"hold", "why", "told", "trap"}, {})
      /\ task'.hold = "stop" /\ task'.why = "trap" /\ ~task'.told /\ ~task'.trap
  BY ZenonT(40), LoanTypes, MayStays, RecStays DEF TrapStops, StopWith, Task, Stops
<1> QED BY <1>1 DEF TrapStops, LoanInv, LoanTypeOK, Living

LEMMA EntryStopsKeeps == ASSUME LoanInv, EntryStops PROVE LoanInv'
<1>1. Only({"hold", "why", "told", "abi"}, {})
      /\ task'.hold = "stop" /\ task'.why = "entry" /\ ~task'.told
      /\ task'.abi = "own"
  BY ZenonT(40), LoanTypes, MayStays, RecStays DEF EntryStops, StopWith, Task, Stops
<1> QED BY <1>1 DEF EntryStops, LoanInv, LoanTypeOK, Living

-----------------------------------------------------------------------------
(* Stopping the thread.                                                    *)

LEMMA StartKeeps == ASSUME LoanInv, Start PROVE LoanInv'
<1>0. /\ at = "start" /\ ask' = ask /\ OnlyTask(task', task, {})
      /\ may' \in [LoanEvents -> Nat]
  BY TaskStays, MayStays DEF Start
<1>1. CASE ~targetProcessIdentity
  <2>1. OnlyRec(rec', rec, {"err"}) /\ at' = "end"
    BY ZenonT(40), <1>1, LoanTypes DEF Start, Recovery
  <2> QED BY <1>0, <1>1, <2>1
        DEF targetProcessIdentity, Places, LoanInv, LoanTypeOK, Living, Task
<1>2. CASE targetProcessIdentity /\ Detaches
  <2>1. OnlyRec(rec', rec, {}) /\ at' = "seize"
    BY <1>2, RecStays DEF Start
  <2> QED BY <1>0, <1>2, <2>1 DEF Places, LoanInv, LoanTypeOK, Living
<1>3. CASE targetProcessIdentity /\ ~Detaches
  <2>1. OnlyRec(rec', rec, {"seized", "stopped"}) /\ rec'.stopped
        /\ at' \in {"prove", "plan"}
    BY ZenonT(40), <1>3, LoanTypes DEF Start, Recovery
  <2> QED BY <1>0, <1>3, <2>1
        DEF targetProcessIdentity, Places, LoanInv, LoanTypeOK, Living, Task
<1> QED BY <1>1, <1>2, <1>3

LEMMA SeizeKeeps == ASSUME LoanInv, Seize PROVE LoanInv'
<1>0. at = "seize" /\ ask' = ask /\ may' \in [LoanEvents -> Nat]
  BY MayStays DEF Seize, LoanEvents
<1>1. CASE rec' = [rec EXCEPT !.err = TRUE] /\ at' = "end" /\ UNCHANGED task
  <2>1. OnlyRec(rec', rec, {"err"}) /\ OnlyTask(task', task, {})
    BY <1>1, LoanTypes, TaskStays DEF Recovery
  <2> QED BY <1>0, <1>1, <2>1 DEF Places, LoanInv, LoanTypeOK, Living, Task
<1>2. CASE task.live /\ task' = Running(task) /\ targetProcessIdentity
           /\ rec' = [rec EXCEPT !.seized = TRUE] /\ at' = "interrupt"
  <2>1. OnlyRec(rec', rec, {"seized"}) /\ OnlyTask(task', task, {"hold", "why", "told"})
        /\ task'.hold = "run" /\ task'.why = "none" /\ ~task'.told
    BY <1>2, LoanTypes, RunningIs DEF Recovery
  <2> QED BY <1>0, <1>2, <2>1 DEF Places, LoanInv, LoanTypeOK, Living, Task
<1>3. CASE task.live /\ task' = Running(task) /\ Fails([rec EXCEPT !.seized = TRUE])
  <2>1. OnlyRec(rec', rec, {"seized", "err"}) /\ at' = "retry"
    BY <1>3, LoanTypes DEF Fails, Recovery
  <2>2. OnlyTask(task', task, {"hold", "why", "told"})
        /\ task'.hold = "run" /\ task'.why = "none" /\ ~task'.told
    BY <1>3, RunningIs
  <2> QED BY <1>0, <1>3, <2>1, <2>2 DEF Places, LoanInv, LoanTypeOK, Living, Task
<1> QED BY <1>1, <1>2, <1>3 DEF Seize

LEMMA InterruptKeeps == ASSUME LoanInv, Interrupt PROVE LoanInv'
<1>0. at = "interrupt" /\ ask' = ask /\ may' \in [LoanEvents -> Nat]
  BY MayStays DEF Interrupt, LoanEvents
<1>1. CASE (~task.live \/ task.hold = "free") /\ Ends([rec EXCEPT !.err = TRUE])
           /\ UNCHANGED task
  <2>1. OnlyRec(rec', rec, {"done", "err"}) /\ OnlyTask(task', task, {}) /\ at' = "end"
    BY <1>1, EndsInError, TaskStays
  <2> QED BY <1>0, <1>1, <2>1 DEF Places, LoanInv, LoanTypeOK, Living
<1>2. CASE Fails(rec) /\ UNCHANGED task
  <2>1. OnlyRec(rec', rec, {"err"}) /\ OnlyTask(task', task, {}) /\ at' = "retry"
    BY <1>2, FailsIs, TaskStays
  <2> QED BY <1>0, <2>1 DEF Places, LoanInv, LoanTypeOK, Living
<1>3. CASE task.live /\ task.hold # "free" /\ task' = [task EXCEPT !.int = TRUE]
           /\ at' = "await" /\ UNCHANGED rec
  <2>1. OnlyRec(rec', rec, {}) /\ OnlyTask(task', task, {"int"}) /\ task'.int
    BY <1>3, LoanTypes, RecStays DEF Task
  <2> QED BY <1>0, <1>3, <2>1 DEF Places, LoanInv, LoanTypeOK, Living
<1> QED BY <1>1, <1>2, <1>3 DEF Interrupt

LEMMA AwaitStopKeeps == ASSUME LoanInv, AwaitStop PROVE LoanInv'
<1>0. at = "await" /\ ask' = ask /\ may' \in [LoanEvents -> Nat]
  BY MayStays DEF AwaitStop
<1>1. CASE ~task.live /\ Ends([rec EXCEPT !.err = TRUE]) /\ UNCHANGED task
  <2>1. OnlyRec(rec', rec, {"done", "err"}) /\ OnlyTask(task', task, {}) /\ at' = "end"
    BY <1>1, EndsInError, TaskStays
  <2> QED BY <1>0, <1>1, <2>1 DEF Places, LoanInv, LoanTypeOK, Living
<1>2. CASE task.live /\ task.hold = "free" /\ Fails(rec) /\ UNCHANGED task
  <2>1. OnlyRec(rec', rec, {"err"}) /\ OnlyTask(task', task, {}) /\ at' = "retry"
    BY <1>2, FailsIs, TaskStays
  <2> QED BY <1>0, <1>2, <2>1 DEF Places, LoanInv, LoanTypeOK, Living
<1>3. CASE Stopped /\ Told /\ task.why = "interrupt" /\ targetProcessIdentity
           /\ rec' = rememberStop(rec) /\ at' = "check"
  <2>1. /\ OnlyRec(rec', rec, {"stopped", "sig"}) /\ OnlyTask(task', task, {"told"})
        /\ rec'.stopped /\ (rec.sig \/ task.why = "signal" => rec'.sig) /\ task'.told
    BY <1>3, RememberIs, ToldIs
  <2> QED BY <1>0, <1>3, <2>1
        DEF targetProcessIdentity, Places, LoanInv, LoanTypeOK, Living
<1>4. CASE Stopped /\ Told /\ Fails(rememberStop(rec))
  <2>1. /\ OnlyRec(rec', rec, {"stopped", "sig", "err"})
        /\ OnlyTask(task', task, {"told"}) /\ at' = "retry"
        /\ rec'.stopped /\ (rec.sig \/ task.why = "signal" => rec'.sig) /\ task'.told
    BY <1>4, FailsRemembering, ToldIs
  <2> QED BY <1>0, <1>4, <2>1 DEF Places, LoanInv, LoanTypeOK, Living
<1> QED BY <1>1, <1>2, <1>3, <1>4 DEF AwaitStop

LEMMA CheckKeeps == ASSUME LoanInv, Check PROVE LoanInv'
<1>0. /\ at = "check" /\ ask' = ask /\ OnlyTask(task', task, {})
      /\ may' \in [LoanEvents -> Nat]
  BY TaskStays, MayStays DEF Check
<1>1. CASE Fails(rec)
  <2>1. OnlyRec(rec', rec, {"err"}) /\ at' = "retry"
    BY <1>1, FailsIs
  <2> QED BY <1>0, <2>1 DEF Places, LoanInv, LoanTypeOK, Living
<1>2. CASE at' \in {"inspect", "prove", "plan"} /\ UNCHANGED rec
           /\ (at' = "inspect" => ask.how = "inspect")
  <2>1. OnlyRec(rec', rec, {})
    BY <1>2, RecStays
  <2> QED BY <1>0, <1>2, <2>1 DEF Places, LoanInv, LoanTypeOK, Living
<1> QED BY <1>1, <1>2 DEF Check

LEMMA InspectKeeps == ASSUME LoanInv, Inspect PROVE LoanInv'
<1>0. at = "inspect" /\ ask' = ask /\ may' \in [LoanEvents -> Nat]
  BY MayStays DEF Inspect, LoanEvents
<1>1. CASE ~Stopped /\ Fails(rec) /\ UNCHANGED task
  <2>1. OnlyRec(rec', rec, {"err"}) /\ OnlyTask(task', task, {}) /\ at' = "retry"
    BY <1>1, FailsIs, TaskStays
  <2> QED BY <1>0, <1>1, <2>1 DEF Places, LoanInv, LoanTypeOK, Living
<1>t. ASSUME \/ UNCHANGED task
             \/ ask.writes /\ task' = [task EXCEPT !.regs = "edited"]
      PROVE  OnlyTask(task', task, {"regs"})
             /\ (task'.regs = task.regs \/ (ask.writes /\ task'.regs = "edited"))
  BY <1>t, LoanTypes DEF Task
<1>2. CASE Stopped /\ at' = "retry" /\ UNCHANGED rec
           /\ task' = IF ask.writes THEN [task EXCEPT !.regs = "edited"] ELSE task
  <2>1. OnlyRec(rec', rec, {})
    BY <1>2, RecStays
  <2>2. LoanTypeOK' /\ AskOK'
    BY <1>0, <1>2, <1>t, <2>1 DEF Places, LoanInv, LoanTypeOK
  <2>3. ASSUME task'.live PROVE Living'
    BY <1>0, <1>2, <1>t, <2>1, <2>3 DEF LoanInv, Living
  <2> QED BY <2>2, <2>3 DEF LoanInv
<1>3. CASE /\ Stopped
           /\ \/ UNCHANGED task
              \/ ask.writes /\ task' = [task EXCEPT !.regs = "edited"]
           /\ Fails([rec EXCEPT !.prepared = ask.writes, !.regs = ask.writes])
  <2>1. /\ OnlyRec(rec', rec, {"prepared", "regs", "err"}) /\ at' = "retry"
        /\ rec'.prepared = ask.writes /\ rec'.regs = ask.writes
    <3> DEFINE r == [rec EXCEPT !.prepared = ask.writes, !.regs = ask.writes]
    <3>1. /\ OnlyRec(r, rec, {"prepared", "regs"})
          /\ r.prepared = ask.writes /\ r.regs = ask.writes
      BY LoanTypes DEF Recovery
    <3>2. rec' = [r EXCEPT !.err = TRUE] /\ at' = "retry"
      BY <1>3 DEF Fails
    <3> HIDE DEF r
    <3>3. OnlyRec(rec', r, {"err"})
      BY <3>1, <3>2 DEF Recovery
    <3> QED BY <3>1, <3>2, <3>3
  <2>2. LoanTypeOK' /\ AskOK'
    BY <1>0, <1>3, <1>t, <2>1 DEF Places, LoanInv, LoanTypeOK
  <2>3. ASSUME task'.live PROVE Living'
    BY <1>0, <1>3, <1>t, <2>1, <2>3 DEF LoanInv, Living
  <2> QED BY <2>2, <2>3 DEF LoanInv
<1> QED BY <1>1, <1>2, <1>3 DEF Inspect

-----------------------------------------------------------------------------
(* The proof that the thread is in the memory the caller captured.         *)

LEMMA NestedIs ==
    ASSUME LoanInv, NEW page \in BOOLEAN, NestedFails(page)
    PROVE  /\ may' \in [LoanEvents -> Nat]
           /\ at' = IF at = "affinity" THEN "kept" ELSE "retry"
           /\ OnlyTask(task', task, {"regs", "page", "sig", "why"})
           /\ OnlyRec(rec', rec, {"nested", "page", "sig", "err"})
           /\ task'.page => rec'.page
           /\ \/ /\ task'.regs = "lent" /\ rec'.nested
                 /\ task'.sig = task.sig /\ task'.why = task.why /\ rec'.sig = rec.sig
              \/ /\ task'.sig = "held" /\ task'.why = "signal" /\ rec'.sig
                 /\ task'.regs = task.regs /\ rec'.nested = rec.nested
<1> HIDE DEF Only, OnlyTask, OnlyRec
<1>0. task \in Task /\ rec \in Recovery
  BY LoanTypes
<1>1. PICK did \in BOOLEAN :
        LET now == IF did THEN page ELSE task.page
        IN  \/ /\ Uses("fault")
               /\ task' = [task EXCEPT !.regs = "lent", !.page = now]
               /\ \E r \in {[rec EXCEPT !.nested = TRUE, !.page = now]} :
                    IF at = "affinity" THEN Keeps(r) ELSE Fails(r)
            \/ /\ task.sig = "queued" /\ UNCHANGED may
               /\ task' = [task EXCEPT !.sig = "held", !.why = "signal", !.page = now]
               /\ \E r \in {[rec EXCEPT !.sig = TRUE, !.page = now]} :
                    IF at = "affinity" THEN Keeps(r) ELSE Fails(r)
  BY DEF NestedFails
<1>2. PICK now \in BOOLEAN : now = IF did THEN page ELSE task.page
  BY <1>0 DEF Task
<1>3. ASSUME NEW r \in Recovery, IF at = "affinity" THEN Keeps(r) ELSE Fails(r)
      PROVE  OnlyRec(rec', r, {"err"}) /\ at' = IF at = "affinity" THEN "kept" ELSE "retry"
  <2>1. CASE at = "affinity"
    BY <1>3, <2>1 DEF Keeps, OnlyRec
  <2>2. CASE at # "affinity"
    BY ZenonT(40), <1>3, <2>2 DEF Fails, OnlyRec, Recovery
  <2> QED BY <2>1, <2>2
<1>4. CASE /\ Uses("fault")
           /\ task' = [task EXCEPT !.regs = "lent", !.page = now]
           /\ \E r \in {[rec EXCEPT !.nested = TRUE, !.page = now]} :
                IF at = "affinity" THEN Keeps(r) ELSE Fails(r)
  <2>1. /\ OnlyTask(task', task, {"regs", "page"})
        /\ task'.regs = "lent" /\ task'.page = now
    BY <1>0, <1>4 DEF Task, OnlyTask
  <2> DEFINE r == [rec EXCEPT !.nested = TRUE, !.page = now]
  <2>2. r \in Recovery /\ OnlyRec(r, rec, {"nested", "page"}) /\ r.nested /\ r.page = now
    BY <1>0 DEF Recovery, OnlyRec
  <2>3. IF at = "affinity" THEN Keeps(r) ELSE Fails(r)
    BY <1>4
  <2> HIDE DEF r
  <2>4. OnlyRec(rec', r, {"err"}) /\ at' = IF at = "affinity" THEN "kept" ELSE "retry"
    BY <1>3, <2>2, <2>3
  <2>5. may' \in [LoanEvents -> Nat]
    BY <1>4, MayStays DEF LoanEvents
  <2>6. OnlyTask(task', task, {"regs", "page", "sig", "why"})
    BY <2>1 DEF OnlyTask
  <2>7. OnlyRec(rec', rec, {"nested", "page", "sig", "err"}) /\ rec'.page = task'.page
    BY <2>1, <2>2, <2>4 DEF OnlyRec
  <2>8. rec'.nested /\ rec'.sig = rec.sig /\ task'.sig = task.sig /\ task'.why = task.why
    BY <2>1, <2>2, <2>4 DEF OnlyTask, OnlyRec
  <2> QED BY <2>1, <2>4, <2>5, <2>6, <2>7, <2>8
<1>5. CASE /\ task.sig = "queued" /\ UNCHANGED may
           /\ task' = [task EXCEPT !.sig = "held", !.why = "signal", !.page = now]
           /\ \E r \in {[rec EXCEPT !.sig = TRUE, !.page = now]} :
                IF at = "affinity" THEN Keeps(r) ELSE Fails(r)
  <2>1. /\ OnlyTask(task', task, {"sig", "why", "page"})
        /\ task'.sig = "held" /\ task'.why = "signal" /\ task'.page = now
    BY <1>0, <1>5 DEF Task, OnlyTask, Stops
  <2> DEFINE r == [rec EXCEPT !.sig = TRUE, !.page = now]
  <2>2. r \in Recovery /\ OnlyRec(r, rec, {"sig", "page"}) /\ r.sig /\ r.page = now
    BY <1>0 DEF Recovery, OnlyRec
  <2>3. IF at = "affinity" THEN Keeps(r) ELSE Fails(r)
    BY <1>5
  <2> HIDE DEF r
  <2>4. OnlyRec(rec', r, {"err"}) /\ at' = IF at = "affinity" THEN "kept" ELSE "retry"
    BY <1>3, <2>2, <2>3
  <2>5. may' \in [LoanEvents -> Nat]
    BY <1>5, MayStays
  <2>6. OnlyTask(task', task, {"regs", "page", "sig", "why"})
    BY <2>1 DEF OnlyTask
  <2>7. OnlyRec(rec', rec, {"nested", "page", "sig", "err"}) /\ rec'.page = task'.page
    BY <2>1, <2>2, <2>4 DEF OnlyRec
  <2>8. rec'.sig /\ task'.regs = task.regs /\ rec'.nested = rec.nested
    BY <2>1, <2>2, <2>4 DEF OnlyTask, OnlyRec
  <2> QED BY <2>1, <2>4, <2>5, <2>6, <2>7, <2>8
<1> QED BY <1>1, <1>2, <1>4, <1>5

LEMMA ProveKeeps == ASSUME LoanInv, Prove PROVE LoanInv'
<1>0. at = "prove" /\ ask' = ask
  BY DEF Prove
<1>1. CASE ~(Stopped /\ capture) /\ Fails(rec) /\ UNCHANGED <<task, may>>
  <2>1. /\ OnlyRec(rec', rec, {"err"}) /\ OnlyTask(task', task, {}) /\ at' = "retry"
        /\ may' \in [LoanEvents -> Nat]
    BY <1>1, FailsIs, TaskStays, MayStays
  <2> QED BY <1>0, <1>1, <2>1 DEF Places, LoanInv, LoanTypeOK, Living
<1>2. CASE /\ Stopped /\ capture /\ task' = [task EXCEPT !.page = TRUE]
           /\ rec' = [rec EXCEPT !.page = TRUE] /\ at' = "compare" /\ UNCHANGED may
  <2>1. /\ OnlyRec(rec', rec, {"page"}) /\ OnlyTask(task', task, {"page"})
        /\ task'.page /\ rec'.page /\ may' \in [LoanEvents -> Nat]
    BY <1>2, LoanTypes, MayStays DEF Task, Recovery
  <2> QED BY <1>0, <1>2, <2>1
        DEF capture, targetProcessIdentity, Places, LoanInv, LoanTypeOK, Living
<1>3. CASE Stopped /\ capture /\ NestedFails(TRUE)
  <2>1. /\ may' \in [LoanEvents -> Nat] /\ at' = "retry"
        /\ OnlyTask(task', task, {"regs", "page", "sig", "why"})
        /\ OnlyRec(rec', rec, {"nested", "page", "sig", "err"})
        /\ task'.page => rec'.page
        /\ \/ /\ task'.regs = "lent" /\ rec'.nested
              /\ task'.sig = task.sig /\ task'.why = task.why /\ rec'.sig = rec.sig
           \/ /\ task'.sig = "held" /\ task'.why = "signal" /\ rec'.sig
              /\ task'.regs = task.regs /\ rec'.nested = rec.nested
    BY <1>0, <1>3, NestedIs
  <2> QED BY <1>0, <1>3, <2>1
        DEF capture, targetProcessIdentity, Places, LoanInv, LoanTypeOK, Living
<1> QED BY <1>1, <1>2, <1>3 DEF Prove

LEMMA CompareKeeps == ASSUME LoanInv, Compare PROVE LoanInv'
<1>0. /\ at = "compare" /\ ask' = ask /\ OnlyTask(task', task, {})
      /\ may' \in [LoanEvents -> Nat]
  BY TaskStays, MayStays DEF Compare
<1>1. CASE at' = "unprove" /\ UNCHANGED rec
  <2>1. OnlyRec(rec', rec, {})
    BY <1>1, RecStays
  <2> QED BY <1>0, <1>1, <2>1 DEF Places, LoanInv, LoanTypeOK, Living
<1>2. CASE Fails(rec)
  <2>1. OnlyRec(rec', rec, {"err"}) /\ at' = "retry"
    BY <1>2, FailsIs
  <2> QED BY <1>0, <2>1 DEF Places, LoanInv, LoanTypeOK, Living
<1> QED BY <1>1, <1>2 DEF Compare

(* What is left of a nested call, at its first or a later try.             *)
LEMMA CleanupKeeps == ASSUME LoanInv, CleanupAffinity PROVE LoanInv'
<1> DEFINE fail(r) == IF at = "affinity" THEN Keeps(r) ELSE Fails(r)
           onward == CASE at = "affinity" -> "poll"
                       [] at = "unprove" /\ ask.how = "verify" -> "end"
                       [] OTHER -> "plan"
<1>0. at \in {"unprove", "affinity"} /\ ask' = ask
  BY DEF CleanupAffinity
<1>f. ASSUME NEW r \in Recovery, fail(r)
      PROVE  OnlyRec(rec', r, {"err"}) /\ at' = IF at = "affinity" THEN "kept" ELSE "retry"
  <2>1. CASE at = "affinity"
    BY <1>f, <2>1 DEF Keeps
  <2>2. CASE at # "affinity"
    BY <1>f, <2>2 DEF Fails, Recovery
  <2> QED BY <2>1, <2>2
<1>o. onward \in IF at = "affinity" THEN {"poll"} ELSE {"plan", "end"}
  BY <1>0
<1>1. CASE /\ rec.nested /\ Stopped /\ task' = [task EXCEPT !.regs = "own"]
           /\ rec' = [rec EXCEPT !.nested = FALSE] /\ UNCHANGED <<at, may>>
  <2>1. OnlyTask(task', task, {"regs"}) /\ task'.regs = "own"
    BY <1>1, LoanTypes DEF Task
  <2>2. OnlyRec(rec', rec, {"nested"}) /\ ~rec'.nested /\ may' \in [LoanEvents -> Nat]
    BY <1>1, LoanTypes, MayStays DEF Recovery
  <2> QED BY <1>0, <1>1, <2>1, <2>2 DEF Places, LoanInv, LoanTypeOK, Living
<1>2. CASE rec.nested /\ Stopped /\ Uses("fault") /\ fail(rec) /\ UNCHANGED task
  <2>1. /\ OnlyRec(rec', rec, {"err"}) /\ OnlyTask(task', task, {})
        /\ may' \in [LoanEvents -> Nat]
        /\ at' = IF at = "affinity" THEN "kept" ELSE "retry"
    <3>1. rec \in Recovery /\ fail(rec)
      BY <1>2, LoanTypes
    <3> HIDE DEF fail
    <3> QED BY <1>2, <1>f, <3>1, TaskStays, MayStays DEF LoanEvents
  <2>2. LoanTypeOK' /\ AskOK'
    BY <1>0, <2>1 DEF Places, LoanInv, LoanTypeOK
  <2>3. rec.nested /\ Stopped
    BY <1>2
  <2>4. RecordOK' /\ RunOK'
    BY <1>0, <2>1, <2>3 DEF LoanInv, Living
  <2>5. Recorded'
    BY <1>0, <1>2, <2>1 DEF LoanInv, Living
  <2>6. StopOK' /\ ReplacedOK' /\ PhaseOK'
    BY <1>0, <2>1, <2>3 DEF LoanInv, Living
  <2> QED BY <2>2, <2>4, <2>5, <2>6 DEF LoanInv, Living
<1>3. CASE rec.nested /\ ~Stopped /\ fail([rec EXCEPT !.nested = FALSE])
           /\ UNCHANGED <<task, may>>
  <2> DEFINE r == [rec EXCEPT !.nested = FALSE]
  <2>1. OnlyRec(r, rec, {"nested"}) /\ ~r.nested
    BY LoanTypes DEF Recovery
  <2>2. fail(r)
    BY <1>3
  <2> HIDE DEF r, fail
  <2>3. /\ OnlyRec(rec', r, {"err"}) /\ OnlyTask(task', task, {})
        /\ may' \in [LoanEvents -> Nat]
        /\ at' = IF at = "affinity" THEN "kept" ELSE "retry"
    BY <1>3, <1>f, <2>1, <2>2, TaskStays, MayStays
  <2> QED BY <1>0, <1>3, <2>1, <2>3 DEF Places, LoanInv, LoanTypeOK, Living
<1>4. CASE ~rec.nested /\ ~rec.page /\ at' = onward /\ UNCHANGED <<task, rec, may>>
  <2>1. /\ OnlyRec(rec', rec, {}) /\ OnlyTask(task', task, {})
        /\ may' \in [LoanEvents -> Nat]
    BY <1>4, RecStays, TaskStays, MayStays
  <2>2. at = "unprove" /\ task.live => Untouched(task)
    BY <1>4, NothingLent DEF LoanInv, Living
  <2> HIDE DEF onward, fail
  <2> QED BY <1>0, <1>4, <1>o, <2>1, <2>2 DEF Places, LoanInv, LoanTypeOK, Living
<1>5. CASE /\ rec.page /\ ~task.live /\ UNCHANGED <<task, may>>
           /\ Ends([rec EXCEPT !.page = FALSE, !.err = TRUE, !.dead = TRUE])
  <2>1. /\ rec' \in Recovery /\ OnlyTask(task', task, {}) /\ at' = "end"
        /\ may' \in [LoanEvents -> Nat]
    <3> DEFINE r == [rec EXCEPT !.page = FALSE, !.err = TRUE, !.dead = TRUE]
    <3>1. r \in Recovery
      BY LoanTypes DEF Recovery
    <3>2. rec' = [r EXCEPT !.done = TRUE] /\ at' = "end"
      BY <1>5 DEF Ends
    <3> HIDE DEF r
    <3>3. rec' \in Recovery
      BY <3>1, <3>2 DEF Recovery
    <3> QED BY <1>5, <3>2, <3>3, TaskStays, MayStays
  <2> QED BY <1>0, <1>5, <2>1 DEF Places, LoanInv, LoanTypeOK, Living
<1>6. CASE ~rec.nested /\ task.live /\ task.image # 1
           /\ fail([rec EXCEPT !.page = FALSE]) /\ UNCHANGED <<task, may>>
  <2> DEFINE r == [rec EXCEPT !.page = FALSE]
  <2>1. OnlyRec(r, rec, {"page"}) /\ ~r.page
    BY LoanTypes DEF Recovery
  <2>2. fail(r)
    BY <1>6
  <2> HIDE DEF r, fail
  <2>3. /\ OnlyRec(rec', r, {"err"}) /\ OnlyTask(task', task, {})
        /\ may' \in [LoanEvents -> Nat]
        /\ at' = IF at = "affinity" THEN "kept" ELSE "retry"
    BY <1>6, <1>f, <2>1, <2>2, TaskStays, MayStays
  <2>4. task.image = 2
    BY <1>6, LoanTypes DEF Task
  <2> QED BY <1>0, <1>6, <2>1, <2>3, <2>4 DEF Places, LoanInv, LoanTypeOK, Living
<1>7. CASE /\ ~rec.nested /\ Stopped /\ task' = [task EXCEPT !.page = FALSE]
           /\ rec' = [rec EXCEPT !.page = FALSE] /\ at' = onward /\ UNCHANGED may
  <2>1. /\ OnlyRec(rec', rec, {"page"}) /\ OnlyTask(task', task, {"page"})
        /\ ~task'.page /\ ~rec'.page /\ may' \in [LoanEvents -> Nat]
    BY ZenonT(40), <1>7, LoanTypes, MayStays DEF Task, Recovery
  <2>2. at = "unprove" => Untouched(task')
    BY <1>7, <2>1, LoanTypes DEF Task, LoanInv, Living
  <2> HIDE DEF onward, fail
  <2> QED BY <1>0, <1>7, <1>o, <2>1, <2>2 DEF Places, LoanInv, LoanTypeOK, Living
<1>8. CASE ~rec.nested /\ rec.page /\ Stopped /\ task.image = 1 /\ NestedFails(FALSE)
  <2>1. /\ may' \in [LoanEvents -> Nat]
        /\ at' = IF at = "affinity" THEN "kept" ELSE "retry"
        /\ OnlyTask(task', task, {"regs", "page", "sig", "why"})
        /\ OnlyRec(rec', rec, {"nested", "page", "sig", "err"})
        /\ task'.page => rec'.page
        /\ \/ /\ task'.regs = "lent" /\ rec'.nested
              /\ task'.sig = task.sig /\ task'.why = task.why /\ rec'.sig = rec.sig
           \/ /\ task'.sig = "held" /\ task'.why = "signal" /\ rec'.sig
              /\ task'.regs = task.regs /\ rec'.nested = rec.nested
    BY <1>8, NestedIs
  <2> QED BY <1>0, <1>8, <2>1 DEF Places, LoanInv, LoanTypeOK, Living
<1> QED BY <1>1, <1>2, <1>3, <1>4, <1>5, <1>6, <1>7, <1>8 DEF CleanupAffinity

-----------------------------------------------------------------------------
(* The loan.                                                               *)

LEMMA PlanKeeps == ASSUME LoanInv, Plan PROVE LoanInv'
<1>0. /\ at = "plan" /\ ask' = ask /\ OnlyTask(task', task, {})
      /\ may' \in [LoanEvents -> Nat]
  BY TaskStays, MayStays DEF Plan, LoanEvents
<1>1. CASE Fails(rec)
  <2>1. OnlyRec(rec', rec, {"err"}) /\ at' = "retry"
    BY <1>1, FailsIs
  <2> QED BY <1>0, <2>1 DEF Places, LoanInv, LoanTypeOK, Living
<1>2. CASE /\ Stopped /\ CanLend(ask)
           /\ rec' = [rec EXCEPT !.prepared = TRUE, !.words = ~Borrowed(ask),
                        !.phase = IF ask.parked = "other" THEN "begin" ELSE "none"]
           /\ at' = IF Borrowed(ask) THEN "set" ELSE "patch"
  <2>0. PICK words \in BOOLEAN : words = ~Borrowed(ask)
    BY DEF Borrowed
  <2>p. PICK phase \in Phases :
          phase = IF ask.parked = "other" THEN "begin" ELSE "none"
    BY DEF Phases
  <2>c. rec' = [rec EXCEPT !.prepared = TRUE, !.words = words, !.phase = phase]
    BY <1>2, <2>0, <2>p
  <2>1. /\ OnlyRec(rec', rec, {"prepared", "words", "phase"}) /\ rec'.prepared
        /\ rec'.phase = IF ask.parked = "other" THEN "begin" ELSE "none"
        /\ rec'.words = words
    BY ZenonT(40), <2>c, <2>p, LoanTypes DEF Recovery
  <2>2. at' \in {"set", "patch"} /\ (at' = "patch" => words)
    BY <1>2, <2>0
  <2> QED BY <1>0, <1>2, <2>1, <2>2 DEF Places, LoanInv, LoanTypeOK, Living
<1> QED BY <1>1, <1>2 DEF Plan

LEMMA PatchKeeps == ASSUME LoanInv, Patch PROVE LoanInv'
<1>0. at = "patch" /\ ask' = ask /\ may' \in [LoanEvents -> Nat]
  BY MayStays DEF Patch, LoanEvents
<1>1. CASE ~Stopped /\ Fails(rec) /\ UNCHANGED task
  <2>1. OnlyRec(rec', rec, {"err"}) /\ OnlyTask(task', task, {}) /\ at' = "retry"
    BY <1>1, FailsIs, TaskStays
  <2> QED BY <1>0, <1>1, <2>1 DEF Places, LoanInv, LoanTypeOK, Living
<1>2. CASE Stopped /\ task' = [task EXCEPT !.code = "patched"]
           /\ at' = "set" /\ UNCHANGED rec
  <2>1. OnlyRec(rec', rec, {}) /\ OnlyTask(task', task, {"code"})
    BY <1>2, LoanTypes, RecStays DEF Task
  <2> QED BY <1>0, <1>2, <2>1 DEF Places, LoanInv, LoanTypeOK, Living
<1>3. ASSUME Stopped, Fails(rec), NEW code \in {"own", "patched"},
             task' = [task EXCEPT !.code = code]
      PROVE  LoanInv'
  <2>1. OnlyRec(rec', rec, {"err"}) /\ OnlyTask(task', task, {"code"}) /\ at' = "retry"
    BY <1>3, FailsIs, LoanTypes DEF Task
  <2> QED BY <1>0, <1>3, <2>1 DEF Places, LoanInv, LoanTypeOK, Living
<1> QED BY <1>1, <1>2, <1>3 DEF Patch

LEMMA SetRegistersKeeps == ASSUME LoanInv, SetRegisters PROVE LoanInv'
<1> DEFINE r == [rec EXCEPT !.regs = TRUE]
<1>0. at = "set" /\ ask' = ask /\ may' \in [LoanEvents -> Nat]
  BY MayStays DEF SetRegisters, LoanEvents
<1>r. OnlyRec(r, rec, {"regs"}) /\ r.regs
  BY LoanTypes DEF Recovery
<1>s. SetRegisters =>
        \/ ~Stopped /\ Fails(r) /\ UNCHANGED task
        \/ Stopped /\ task' = prepare(task) /\ rec' = r /\ at' = "step"
        \/ Stopped /\ Fails(r) /\ task' = [task EXCEPT !.regs = "part"]
  BY DEF SetRegisters
<1> HIDE DEF r
<1>f. ASSUME Fails(r)
      PROVE  OnlyRec(rec', rec, {"regs", "err"}) /\ rec'.regs /\ at' = "retry"
  <2>1. OnlyRec(rec', r, {"err"}) /\ at' = "retry"
    BY <1>f, <1>r DEF Fails, Recovery
  <2> QED BY ZenonT(40), <1>r, <2>1
<1>1. CASE ~Stopped /\ Fails(r) /\ UNCHANGED task
  <2>1. /\ OnlyTask(task', task, {}) /\ OnlyRec(rec', rec, {"regs", "err"})
        /\ rec'.regs /\ at' = "retry"
    BY <1>1, <1>f, TaskStays
  <2> QED BY <1>0, <1>1, <2>1 DEF Places, LoanInv, LoanTypeOK, Living
<1>2. CASE Stopped /\ task' = prepare(task) /\ rec' = r /\ at' = "step"
  <2>1. OnlyTask(task', task, {"regs"}) /\ task'.regs = "lent"
    BY <1>2, LoanTypes DEF Task, prepare
  <2> QED BY <1>0, <1>2, <1>r, <2>1 DEF Places, LoanInv, LoanTypeOK, Living
<1>3. CASE Stopped /\ Fails(r) /\ task' = [task EXCEPT !.regs = "part"]
  <2>1. OnlyTask(task', task, {"regs"}) /\ task'.regs = "part"
    BY <1>3, LoanTypes DEF Task
  <2>2. OnlyRec(rec', rec, {"regs", "err"}) /\ rec'.regs /\ at' = "retry"
    BY <1>3, <1>f
  <2> QED BY <1>0, <1>3, <2>1, <2>2 DEF Places, LoanInv, LoanTypeOK, Living
<1> QED BY <1>s, <1>1, <1>2, <1>3

LEMMA StepKeeps == ASSUME LoanInv, Step PROVE LoanInv'
<1>0. at = "step" /\ ask' = ask /\ may' \in [LoanEvents -> Nat]
  BY MayStays DEF Step, LoanEvents
<1>1. CASE Fails(rec) /\ UNCHANGED task
  <2>1. OnlyRec(rec', rec, {"err"}) /\ OnlyTask(task', task, {}) /\ at' = "retry"
    BY <1>1, FailsIs, TaskStays
  <2> QED BY <1>0, <1>1, <2>1 DEF Places, LoanInv, LoanTypeOK, Living
<1>2. CASE Stopped /\ task' = Running(task) /\ at' = "collect" /\ UNCHANGED rec
  <2>1. /\ OnlyRec(rec', rec, {}) /\ OnlyTask(task', task, {"hold", "why", "told"})
        /\ task'.hold = "run" /\ task'.why = "none" /\ ~task'.told
    BY <1>2, RunningIs, RecStays
  <2> QED BY <1>0, <1>2, <2>1 DEF Places, LoanInv, LoanTypeOK, Living
<1> QED BY <1>1, <1>2 DEF Step

LEMMA CollectKeeps == ASSUME LoanInv, Collect PROVE LoanInv'
<1>0. at = "collect" /\ ask' = ask /\ may' \in [LoanEvents -> Nat]
  BY MayStays DEF Collect
<1>1. CASE ~task.live /\ Ends([rec EXCEPT !.err = TRUE]) /\ UNCHANGED task
  <2>1. OnlyRec(rec', rec, {"done", "err"}) /\ OnlyTask(task', task, {}) /\ at' = "end"
    BY <1>1, EndsInError, TaskStays
  <2> QED BY <1>0, <1>1, <2>1 DEF Places, LoanInv, LoanTypeOK, Living
<1>2. CASE task.live /\ task.hold = "free" /\ Fails(rec) /\ UNCHANGED task
  <2>1. OnlyRec(rec', rec, {"err"}) /\ OnlyTask(task', task, {}) /\ at' = "retry"
    BY <1>2, FailsIs, TaskStays
  <2> QED BY <1>0, <1>2, <2>1 DEF Places, LoanInv, LoanTypeOK, Living
<1>t. ASSUME Told PROVE task'.told /\ OnlyTask(task', task, {"told"})
  BY <1>t, ToldIs
<1>3. CASE /\ Stopped /\ Told /\ task.why = "exec"
           /\ Fails([rec EXCEPT !.prepared = FALSE, !.retired = TRUE, !.stopped = TRUE])
  <2> DEFINE r == [rec EXCEPT !.prepared = FALSE, !.retired = TRUE, !.stopped = TRUE]
  <2>1. /\ OnlyRec(r, rec, {"prepared", "retired", "stopped"})
        /\ ~r.prepared /\ r.retired /\ r.stopped
    BY LoanTypes DEF Recovery
  <2>2. Fails(r)
    BY <1>3
  <2> HIDE DEF r
  <2>4. OnlyRec(rec', r, {"err"}) /\ at' = "retry"
    BY <2>1, <2>2 DEF Fails, Recovery
  <2>3. /\ OnlyRec(rec', rec, {"prepared", "retired", "stopped", "err"})
        /\ ~rec'.prepared /\ rec'.retired /\ rec'.stopped /\ at' = "retry"
    BY ZenonT(40), <2>1, <2>4
  <2> QED BY <1>0, <1>3, <1>t, <2>3 DEF Places, LoanInv, LoanTypeOK, Living
<1>4. CASE Stopped /\ Told /\ task.why = "trap" /\ rec' = Collected /\ at' = "retry"
  <2>1. OnlyRec(rec', rec, {"have"}) /\ rec'.have
    BY <1>4, LoanTypes DEF Recovery, Collected
  <2> QED BY <1>0, <1>4, <1>t, <2>1 DEF Places, LoanInv, LoanTypeOK, Living
<1>5. CASE Stopped /\ Told /\ task.why = "signal" /\ rec' = Collected /\ at' = "retry"
  <2>1. OnlyRec(rec', rec, {"err", "sig", "have"}) /\ rec'.sig /\ (task.past => rec'.have)
    BY ZenonT(40), <1>5, LoanTypes DEF Recovery, Collected, Task
  <2> QED BY <1>0, <1>5, <1>t, <2>1 DEF Places, LoanInv, LoanTypeOK, Living
<1>6. CASE Stopped /\ Told /\ task.why = "denied" /\ rec' = Collected /\ at' = "retry"
  <2>1. OnlyRec(rec', rec, {"err", "step"}) /\ rec'.step
    BY <1>6, LoanTypes DEF Recovery, Collected
  <2> QED BY <1>0, <1>6, <1>t, <2>1 DEF Places, LoanInv, LoanTypeOK, Living
<1>7. CASE /\ Stopped /\ Told /\ task.why \notin {"trap", "signal", "denied", "exec"}
           /\ rec' = Collected /\ at' = "retry"
  <2>1. OnlyRec(rec', rec, {"err", "have"}) /\ (task.past => rec'.have)
    BY <1>7, LoanTypes DEF Recovery, Collected, Task
  <2> QED BY <1>0, <1>7, <1>t, <2>1 DEF Places, LoanInv, LoanTypeOK, Living
<1> QED BY <1>1, <1>2, <1>3, <1>4, <1>5, <1>6, <1>7 DEF Collect

-----------------------------------------------------------------------------
HIDE DEF Only, OnlyTask, OnlyRec

LEMMA ButTask ==
    ASSUME NEW u, NEW t, NEW S, OnlyTask(u, t, S)
    PROVE  u \in Task /\ TaskBut(u, t, S)
BY Zenon DEF OnlyTask, TaskBut

LEMMA ButRec ==
    ASSUME NEW u, NEW t, NEW S, OnlyRec(u, t, S)
    PROVE  u \in Recovery /\ RecBut(u, t, S)
<1>1. /\ u \in Recovery
      /\ "seized" \notin S => (u.seized <=> t.seized)
      /\ "stopped" \notin S => (u.stopped <=> t.stopped)
      /\ "prepared" \notin S => (u.prepared <=> t.prepared)
      /\ "regs" \notin S => (u.regs <=> t.regs)
      /\ "words" \notin S => (u.words <=> t.words)
      /\ "mask" \notin S => (u.mask <=> t.mask)
      /\ "done" \notin S => (u.done <=> t.done)
      /\ "retired" \notin S => (u.retired <=> t.retired)
      /\ "dead" \notin S => (u.dead <=> t.dead)
  BY Zenon DEF OnlyRec
<1>2. /\ "restored" \notin S => (u.restored <=> t.restored)
      /\ "tried" \notin S => (u.tried <=> t.tried)
      /\ "sig" \notin S => (u.sig <=> t.sig)
      /\ "step" \notin S => (u.step <=> t.step)
      /\ "nested" \notin S => (u.nested <=> t.nested)
      /\ "page" \notin S => (u.page <=> t.page)
      /\ "phase" \notin S => u.phase = t.phase
      /\ "seen" \notin S => u.seen = t.seen
      /\ "again" \notin S => (u.again <=> t.again)
      /\ "have" \notin S => (u.have <=> t.have)
      /\ "err" \notin S => (u.err <=> t.err)
  BY Zenon DEF OnlyRec
<1> QED BY <1>1, <1>2 DEF RecBut

(* The step changes the fields in S of the thread, in Q of the record.     *)
Becomes(S, Q) ==
    /\ task' \in Task /\ TaskBut(task', task, S)
    /\ rec' \in Recovery /\ RecBut(rec', rec, Q)

LEMMA Becoming ==
    ASSUME NEW S, NEW Q, OnlyTask(task', task, S), OnlyRec(rec', rec, Q)
    PROVE  Becomes(S, Q)
BY ButTask, ButRec DEF Becomes

(* What a step has to show.                                                *)
LEMMA LoanKept ==
    ASSUME LoanInv, NEW S, NEW Q, Becomes(S, Q), ask' = ask, at' \in Places,
           may' \in [LoanEvents -> Nat], task'.live => Living'
    PROVE  LoanInv'
BY DEF Becomes, LoanInv, LoanTypeOK

-----------------------------------------------------------------------------
(* retry(): giving the thread back.                                        *)

(* Of a thread that is dead there is nothing to say.                       *)
LEMMA DeadKeeps ==
    ASSUME LoanInv, ~task'.live, task' \in Task, rec' \in Recovery, at' \in Places,
           may' \in [LoanEvents -> Nat], ask' = ask
    PROVE  LoanInv'
BY DEF LoanInv, LoanTypeOK

LEMMA RetireKeeps ==
    ASSUME LoanInv, ~task.live, retireDeadTask(rec), ask' = ask
    PROVE  LoanInv'
<1> DEFINE r == [rec EXCEPT !.dead = TRUE]
<1>1. r \in Recovery /\ may' \in [LoanEvents -> Nat]
  BY LoanTypes, MayStays DEF Recovery, retireDeadTask, LoanEvents
<1>2. Ends(r) \/ Keeps(r)
  BY DEF retireDeadTask
<1>3. task' \in Task /\ ~task'.live
  BY LoanTypes DEF Task, retireDeadTask
<1> HIDE DEF r
<1>4. rec' \in Recovery /\ at' \in Places
  BY <1>1, <1>2 DEF Ends, Keeps, Recovery, Places
<1> QED BY <1>1, <1>3, <1>4, DeadKeeps

LEMMA RetryKeeps == ASSUME LoanInv, Retry PROVE LoanInv'
<1>1. CASE rec.dead /\ retireDeadTask(rec)
  BY <1>1, RetireKeeps DEF Retry, LoanInv, Living
<1>2. CASE ~rec.dead
  <2>1. /\ at = "retry" /\ ask' = ask /\ may' \in [LoanEvents -> Nat]
        /\ at' = IF rec.retired THEN "poll" ELSE "affinity"
    BY <1>2, MayStays DEF Retry
  <2>2. Becomes({}, {})
    BY <1>2, TaskStays, RecStays, Becoming DEF Retry
  <2> QED BY <2>1, <2>2 DEF Places, Becomes, TaskBut, RecBut, LoanInv, LoanTypeOK, Living
<1> QED BY <1>1, <1>2 DEF Retry

(* The record the owner goes on with is r.                                 *)
LEMMA KeepsOnly ==
    ASSUME NEW r, NEW Q, OnlyRec(r, rec, Q), Keeps(r)
    PROVE  at' = "kept" /\ rec' = r /\ OnlyRec(rec', rec, Q)
BY DEF Keeps

(* What is undone first.                                                   *)
LEMMA OnwardIs ==
    ASSUME NEW r \in Recovery
    PROVE  /\ r.step => Onward(r) = "drain"
           /\ ~r.step /\ r.phase # "none" /\ r.regs => Onward(r) = "restart"
           /\ ~r.step /\ (r.phase = "none" \/ ~r.regs) => Onward(r) = "restore"
           /\ Onward(r) \in {"drain", "restart", "restore"}
BY DEF Onward, Recovery

LEMMA PollKeeps == ASSUME LoanInv, Poll PROVE LoanInv'
<1> DEFINE news == task.hold = "stop" /\ ~task.told
           seen == [rec EXCEPT !.seen = IF rec.phase = "none" THEN @ ELSE task.why]
           r == IF news /\ rec.prepared THEN seen
                ELSE IF news THEN rememberStop(rec) ELSE rec
<1>0. at = "poll" /\ ask' = ask
  BY DEF Poll
<1>1. CASE ~task.live /\ retireDeadTask(rec)
  BY <1>0, <1>1, RetireKeeps
<1>2. CASE task.live /\ Released /\ Ends(rec) /\ UNCHANGED <<task, may>>
  <2>1. Becomes({}, {"done"}) /\ at' = "end" /\ may' \in [LoanEvents -> Nat]
    BY <1>2, EndsIs, TaskStays, MayStays, Becoming
  <2>2. task.live /\ task.hold = "free"
    BY <1>2 DEF Released, taskTracer
  <2>3. Living'
    BY <1>0, <2>1, <2>2 DEF Becomes, TaskBut, RecBut, LoanInv, Living
  <2> QED BY <1>0, <2>1, <2>3, LoanKept DEF Places
<1>3. CASE /\ task.live /\ task' = [task EXCEPT !.told = @ \/ news] /\ UNCHANGED may
           /\ CASE rec.retired -> rec' = rec /\ at' = "letgo"
                [] ~rec.retired /\ ~rec.prepared -> rec' = r /\ at' = "release"
                [] ~rec.retired /\ rec.prepared /\ Replacement ->
                     rec' = [rec EXCEPT !.retired = TRUE] /\ at' = "letgo"
                [] OTHER -> rec' = r /\ at' = Onward(r)
  <2>1. /\ OnlyTask(task', task, {"told"}) /\ may' \in [LoanEvents -> Nat]
        /\ task.live /\ (task.hold = "stop" => task'.told)
        /\ task'.told => task.told \/ news
    BY <1>3, LoanTypes, MayStays DEF Task, OnlyTask
  <2>2. CASE rec.retired
    <3>1. Becomes({"told"}, {}) /\ at' = "letgo"
      BY <1>3, <2>1, <2>2, RecStays, Becoming
    <3>2. Living'
      BY <1>0, <2>1, <2>2, <3>1 DEF Becomes, TaskBut, RecBut, LoanInv, Living
    <3> QED BY <1>0, <2>1, <3>1, <3>2, LoanKept DEF Places
  <2>3. CASE ~rec.retired /\ ~rec.prepared
    <3>1. /\ OnlyRec(rec', rec, {"stopped", "sig"}) /\ at' = "release"
          /\ news => rec'.stopped
          /\ rec.sig \/ (news /\ task.why = "signal") => rec'.sig
          /\ ~news => (rec'.stopped <=> rec.stopped)
      <4>1. rec' = (IF news THEN rememberStop(rec) ELSE rec) /\ at' = "release"
        BY <1>3, <2>3
      <4>2. CASE news
        BY <4>1, <4>2, RememberIs DEF OnlyRec
      <4>3. CASE ~news
        BY <4>1, <4>3, RecStays DEF OnlyRec
      <4> QED BY <4>2, <4>3
    <3>2. Becomes({"told"}, {"stopped", "sig"})
      BY <2>1, <3>1, Becoming
    <3> HIDE DEF r
    <3>3. Living'
      BY <1>0, <2>1, <2>3, <3>1, <3>2 DEF Becomes, TaskBut, RecBut, LoanInv, Living
    <3> QED BY <1>0, <2>1, <3>1, <3>2, <3>3, LoanKept DEF Places
  <2>4. CASE ~rec.retired /\ rec.prepared /\ Replacement
    <3>1. OnlyRec(rec', rec, {"retired"}) /\ rec'.retired /\ at' = "letgo"
      BY ZenonT(40), <1>3, <2>4, LoanTypes DEF Recovery, OnlyRec
    <3>2. task.image = 2
      BY <2>4, LoanTypes DEF Task, Replacement
    <3>3. Becomes({"told"}, {"retired"})
      BY <2>1, <3>1, Becoming
    <3>4. Living'
      BY <1>0, <2>1, <2>4, <3>1, <3>2, <3>3 DEF Becomes, TaskBut, RecBut, LoanInv, Living
    <3> QED BY <1>0, <2>1, <3>1, <3>3, <3>4, LoanKept DEF Places
  <2>5. CASE ~rec.retired /\ rec.prepared /\ ~Replacement
    <3>1. /\ OnlyRec(r, rec, {"seen"})
          /\ r.seen = IF news /\ rec.phase # "none" THEN task.why ELSE rec.seen
      <4>1. CASE news
        <5>1. r = [rec EXCEPT !.seen = IF rec.phase = "none" THEN rec.seen ELSE task.why]
          BY <2>5, <4>1
        <5> QED BY <4>1, <5>1, LoanTypes DEF Recovery, Task, OnlyRec
      <4>2. CASE ~news
        <5>1. r = rec
          BY <4>2
        <5> QED BY <4>2, <5>1, LoanTypes DEF OnlyRec
      <4> QED BY <4>1, <4>2
    <3>2. rec' = r /\ at' = Onward(r)
      BY <1>3, <2>5
    <3> HIDE DEF r
    <3>3. /\ r.step => at' = "drain"
          /\ ~r.step /\ r.phase # "none" /\ r.regs => at' = "restart"
          /\ ~r.step /\ (r.phase = "none" \/ ~r.regs) => at' = "restore"
          /\ at' \in {"drain", "restart", "restore"}
      BY <3>1, <3>2, OnwardIs, ButRec
    <3>4. Becomes({"told"}, {"seen"})
      BY <2>1, <3>1, <3>2, Becoming
    <3>5. task.image = 1
      BY <2>5 DEF Replacement
    <3>6. Living'
      BY <1>0, <2>1, <2>5, <3>1, <3>2, <3>3, <3>4, <3>5
         DEF Becomes, TaskBut, RecBut, LoanInv, Living
    <3> QED BY <1>0, <2>1, <3>3, <3>4, <3>6, LoanKept DEF Places
  <2> QED BY <2>2, <2>3, <2>4, <2>5
<1> QED BY <1>1, <1>2, <1>3 DEF Poll

(* A thread that is let go, of a program that took the old one's place.    *)
LEMMA LetGoKeeps == ASSUME LoanInv, LetGo PROVE LoanInv'
<1> DEFINE r == [rec EXCEPT !.tried = TRUE]
<1>0. at = "letgo" /\ ask' = ask /\ may' \in [LoanEvents -> Nat]
  BY MayStays DEF LetGo, LoanEvents
<1>r. OnlyRec(r, rec, {"tried"})
  BY LoanTypes DEF Recovery, OnlyRec
<1>s. \/ Ends(rec) /\ UNCHANGED task
      \/ Stopped /\ Ends(r)
         /\ task' = [task EXCEPT !.hold = "free", !.why = "none", !.int = FALSE]
      \/ Keeps(r) /\ UNCHANGED task
  BY DEF LetGo
<1> HIDE DEF r
<1>1. CASE Ends(rec) /\ UNCHANGED task
  <2>1. Becomes({}, {"done"}) /\ at' = "end"
    BY <1>1, EndsIs, TaskStays, Becoming
  <2>2. ASSUME task'.live PROVE Living'
    BY <1>0, <2>1, <2>2 DEF Becomes, TaskBut, RecBut, LoanInv, Living
  <2> QED BY <1>0, <2>1, <2>2, LoanKept DEF Places
<1>2. CASE Stopped /\ Ends(r)
           /\ task' = [task EXCEPT !.hold = "free", !.why = "none", !.int = FALSE]
  <2>1. OnlyRec(rec', r, {"done"}) /\ at' = "end"
    BY <1>2, <1>r DEF Ends, Recovery, OnlyRec
  <2>2. /\ OnlyTask(task', task, {"hold", "why", "int"}) /\ task'.hold = "free"
        /\ ~task'.int /\ task'.why = "none"
    BY ZenonT(40), <1>2, LoanTypes DEF Task, Stops, OnlyTask
  <2>3. OnlyRec(rec', rec, {"done", "tried"})
    BY <1>r, <2>1 DEF OnlyRec
  <2>4. Becomes({"hold", "why", "int"}, {"done", "tried"})
    BY <2>2, <2>3, Becoming
  <2>5. Living'
    BY <1>0, <1>2, <2>1, <2>2, <2>4 DEF Becomes, TaskBut, RecBut, LoanInv, Living
  <2> QED BY <1>0, <2>1, <2>4, <2>5, LoanKept DEF Places
<1>3. CASE Keeps(r) /\ UNCHANGED task
  <2>1. Becomes({}, {"tried"}) /\ at' = "kept"
    BY <1>3, <1>r, TaskStays, KeepsOnly, Becoming
  <2>2. ASSUME task'.live PROVE Living'
    BY <1>0, <2>1, <2>2 DEF Becomes, TaskBut, RecBut, LoanInv, Living
  <2> QED BY <1>0, <2>1, <2>2, LoanKept DEF Places
<1> QED BY <1>s, <1>1, <1>2, <1>3

LEMMA ReleaseKeeps == ASSUME LoanInv, ReleaseUnprepared PROVE LoanInv'
<1>0. at = "release" /\ ask' = ask /\ may' \in [LoanEvents -> Nat]
  BY MayStays DEF ReleaseUnprepared, LoanEvents
<1>1. CASE rec.stopped /\ at' = "detach" /\ UNCHANGED <<task, rec>>
  <2>1. Becomes({}, {})
    BY <1>1, RecStays, TaskStays, Becoming
  <2>2. task.live => Untouched(task)
    BY <1>0, NothingLent DEF LoanInv, Living
  <2>3. ASSUME task'.live PROVE Living'
    BY <1>0, <1>1, <2>1, <2>2, <2>3 DEF Becomes, TaskBut, RecBut, LoanInv, Living
  <2> QED BY <1>0, <1>1, <2>1, <2>3, LoanKept DEF Places
<1>2. CASE ~rec.stopped /\ (~task.live \/ task.hold = "free") /\ Ends(rec)
           /\ UNCHANGED task
  <2>1. Becomes({}, {"done"}) /\ at' = "end"
    BY <1>2, EndsIs, TaskStays, Becoming
  <2>2. ASSUME task'.live PROVE Living'
    BY <1>0, <1>2, <2>1, <2>2 DEF Becomes, TaskBut, RecBut, LoanInv, Living
  <2> QED BY <1>0, <2>1, <2>2, LoanKept DEF Places
<1>3. CASE ~rec.stopped /\ Keeps(rec) /\ UNCHANGED task
  <2>1. Becomes({}, {}) /\ at' = "kept"
    BY <1>3, KeepsIs, TaskStays, Becoming
  <2>2. ASSUME task'.live PROVE Living'
    BY <1>0, <1>3, <2>1, <2>2 DEF Becomes, TaskBut, RecBut, LoanInv, Living
  <2> QED BY <1>0, <2>1, <2>2, LoanKept DEF Places
<1>4. CASE /\ ~rec.stopped /\ task.live /\ task.hold # "free"
           /\ task' = [task EXCEPT !.int = TRUE] /\ at' = "releaseWait" /\ UNCHANGED rec
  <2>1. OnlyTask(task', task, {"int"}) /\ task'.int
    BY <1>4, LoanTypes DEF Task, OnlyTask
  <2>2. Becomes({"int"}, {})
    BY <1>4, <2>1, RecStays, Becoming
  <2>3. Living'
    BY <1>0, <1>4, <2>1, <2>2 DEF Becomes, TaskBut, RecBut, LoanInv, Living
  <2> QED BY <1>0, <1>4, <2>2, <2>3, LoanKept DEF Places
<1> QED BY <1>1, <1>2, <1>3, <1>4 DEF ReleaseUnprepared

LEMMA ReleaseWaitKeeps == ASSUME LoanInv, ReleaseWait PROVE LoanInv'
<1>0. at = "releaseWait" /\ ask' = ask /\ may' \in [LoanEvents -> Nat]
  BY MayStays DEF ReleaseWait
<1>1. CASE ~task.live /\ Ends(rec) /\ UNCHANGED task
  <2>1. Becomes({}, {"done"}) /\ at' = "end" /\ ~task'.live
    BY <1>1, EndsIs, TaskStays, Becoming
  <2> QED BY <1>0, <2>1, LoanKept DEF Places
<1>2. CASE task.live /\ task.hold = "free" /\ Keeps(rec) /\ UNCHANGED task
  <2>1. Becomes({}, {}) /\ at' = "kept"
    BY <1>2, KeepsIs, TaskStays, Becoming
  <2>2. Living'
    BY <1>0, <1>2, <2>1 DEF Becomes, TaskBut, RecBut, LoanInv, Living
  <2> QED BY <1>0, <2>1, <2>2, LoanKept DEF Places
<1>3. CASE Stopped /\ Told /\ rec' = rememberStop(rec) /\ at' = "detach"
  <2>1. /\ Becomes({"told"}, {"stopped", "sig"}) /\ task'.told
        /\ rec'.stopped /\ (rec.sig \/ task.why = "signal" => rec'.sig)
    BY <1>3, RememberIs, ToldIs, Becoming
  <2>2. Untouched(task)
    BY <1>0, <1>3, NothingLent DEF LoanInv, Living
  <2>3. Living'
    BY <1>0, <1>3, <2>1, <2>2 DEF Becomes, TaskBut, RecBut, LoanInv, Living
  <2> QED BY <1>0, <1>3, <2>1, <2>3, LoanKept DEF Places
<1> QED BY <1>1, <1>2, <1>3 DEF ReleaseWait

(* The trap of a denied step is taken.                                     *)
LEMMA DrainKeeps == ASSUME LoanInv, Drain PROVE LoanInv'
<1>0. at = "drain" /\ ask' = ask /\ may' \in [LoanEvents -> Nat]
  BY MayStays DEF Drain, LoanEvents
<1>1. CASE Keeps(rec) /\ UNCHANGED task
  <2>1. Becomes({}, {}) /\ at' = "kept"
    BY <1>1, KeepsIs, TaskStays, Becoming
  <2>2. ASSUME task'.live PROVE Living'
    BY <1>0, <2>1, <2>2 DEF Becomes, TaskBut, RecBut, LoanInv, Living
  <2> QED BY <1>0, <2>1, <2>2, LoanKept DEF Places
<1>2. CASE /\ Stopped /\ ~task.trap /\ UNCHANGED task
           /\ rec' = [rec EXCEPT !.step = FALSE] /\ at' = Onward(rec')
  <2>1. OnlyRec(rec', rec, {"step"}) /\ ~rec'.step
    BY <1>2, LoanTypes DEF Recovery, OnlyRec
  <2>2. Becomes({}, {"step"})
    BY <1>2, <2>1, TaskStays, Becoming
  <2>3. /\ rec'.phase # "none" /\ rec'.regs => at' = "restart"
        /\ rec'.phase = "none" \/ ~rec'.regs => at' = "restore"
        /\ at' \in {"restart", "restore"}
    BY <1>2, <2>1, <2>2, OnwardIs DEF Becomes
  <2>4. Living'
    BY <1>0, <1>2, <2>1, <2>2, <2>3 DEF Becomes, TaskBut, RecBut, LoanInv, Living
  <2> QED BY <1>0, <2>2, <2>3, <2>4, LoanKept DEF Places
<1>3. CASE Stopped /\ task.trap /\ task' = Running(task) /\ at' = "drainWait"
           /\ UNCHANGED rec
  <2>1. /\ Becomes({"hold", "why", "told"}, {})
        /\ task'.hold = "run" /\ task'.why = "none" /\ ~task'.told
    BY <1>3, RunningIs, RecStays, Becoming
  <2>3. task.image = 1
    BY <1>3, LoanTypes DEF Task, LoanInv, Living
  <2>2. Living'
    BY <1>0, <1>3, <2>1, <2>3 DEF Becomes, TaskBut, RecBut, LoanInv, Living
  <2> QED BY <1>0, <1>3, <2>1, <2>2, LoanKept DEF Places
<1> QED BY <1>1, <1>2, <1>3 DEF Drain

LEMMA DrainWaitKeeps == ASSUME LoanInv, DrainWait PROVE LoanInv'
<1>0. at = "drainWait" /\ ask' = ask /\ may' \in [LoanEvents -> Nat]
  BY MayStays DEF DrainWait
<1>1. CASE (~task.live \/ task.hold = "free") /\ Ends(rec) /\ UNCHANGED task
  <2>1. Becomes({}, {"done"}) /\ at' = "end"
    BY <1>1, EndsIs, TaskStays, Becoming
  <2>2. ASSUME task'.live PROVE Living'
    BY <1>0, <1>1, <2>1, <2>2 DEF Becomes, TaskBut, RecBut, LoanInv, Living
  <2> QED BY <1>0, <2>1, <2>2, LoanKept DEF Places
<1>2. CASE /\ Stopped /\ Told /\ task.why = "exec" /\ at' = "letgo"
           /\ rec' = [rec EXCEPT !.retired = TRUE, !.stopped = TRUE]
  <2>1. OnlyRec(rec', rec, {"retired", "stopped"}) /\ rec'.retired /\ rec'.stopped
    BY <1>2, LoanTypes DEF Recovery, OnlyRec
  <2>2. Becomes({"told"}, {"retired", "stopped"}) /\ task'.told
    BY <1>2, <2>1, ToldIs, Becoming
  <2>3. Living'
    BY <1>0, <1>2, <2>1, <2>2 DEF Becomes, TaskBut, RecBut, LoanInv, Living
  <2> QED BY <1>0, <1>2, <2>2, <2>3, LoanKept DEF Places
<1>3. CASE /\ Stopped /\ Told /\ task.why # "exec"
           /\ rec' = [rec EXCEPT !.step = FALSE] /\ at' = Onward(rec')
  <2>1. OnlyRec(rec', rec, {"step"}) /\ ~rec'.step
    BY <1>3, LoanTypes DEF Recovery, OnlyRec
  <2>2. Becomes({"told"}, {"step"}) /\ task'.told
    BY <1>3, <2>1, ToldIs, Becoming
  <2>3. /\ rec'.phase # "none" /\ rec'.regs => at' = "restart"
        /\ rec'.phase = "none" \/ ~rec'.regs => at' = "restore"
        /\ at' \in {"restart", "restore"}
    BY <1>3, <2>1, <2>2, OnwardIs DEF Becomes
  <2>4. task.image # 2
    BY <1>0, <1>3 DEF LoanInv, Living
  <2>5. Living'
    BY <1>0, <1>3, <2>1, <2>2, <2>3, <2>4 DEF Becomes, TaskBut, RecBut, LoanInv, Living
  <2> QED BY <1>0, <2>2, <2>3, <2>5, LoanKept DEF Places
<1> QED BY <1>1, <1>2, <1>3 DEF DrainWait

-----------------------------------------------------------------------------
(* The context goes back, and the thread.                                  *)

LEMMA UndoneIs ==
    ASSUME LoanInv
    PROVE  /\ OnlyTask(Undone(rec), task, {"code", "regs", "mask"})
           /\ Undone(rec).code = IF rec.words THEN "own" ELSE task.code
           /\ Undone(rec).regs = IF rec.regs THEN "own" ELSE task.regs
           /\ Undone(rec).mask = IF rec.mask THEN "own" ELSE task.mask
<1>1. PICK code \in {"own", "patched"} : code = IF rec.words THEN "own" ELSE task.code
  BY LoanTypes DEF Task
<1>2. PICK regs \in {"own", "lent", "part", "entry", "edited"} :
        regs = IF rec.regs THEN "own" ELSE task.regs
  BY LoanTypes DEF Task
<1>3. PICK mask \in {"own", "held"} : mask = IF rec.mask THEN "own" ELSE task.mask
  BY LoanTypes DEF Task
<1>4. Undone(rec) = [task EXCEPT !.code = code, !.regs = regs, !.mask = mask]
  BY <1>1, <1>2, <1>3 DEF Undone
<1>5. task \in Task
  BY LoanTypes
<1>6. /\ OnlyTask(Undone(rec), task, {"code", "regs", "mask"})
      /\ Undone(rec).code = code /\ Undone(rec).regs = regs /\ Undone(rec).mask = mask
  BY ZenonT(40), <1>4, <1>5 DEF Task, OnlyTask
<1> QED BY <1>1, <1>2, <1>3, <1>6

LEMMA RestoreKeeps == ASSUME LoanInv, Restore PROVE LoanInv'
<1>0. at = "restore" /\ ask' = ask /\ may' \in [LoanEvents -> Nat]
  BY MayStays DEF Restore, LoanEvents
<1>1. CASE Keeps(rec) /\ UNCHANGED task
  <2>1. Becomes({}, {}) /\ at' = "kept"
    BY <1>1, KeepsIs, TaskStays, Becoming
  <2>2. ASSUME task'.live PROVE Living'
    BY <1>0, <2>1, <2>2 DEF Becomes, TaskBut, RecBut, LoanInv, Living
  <2> QED BY <1>0, <2>1, <2>2, LoanKept DEF Places
<1>2. CASE /\ Stopped /\ task' = Undone(rec)
           /\ rec' = [rec EXCEPT !.restored = TRUE] /\ at' = "detach"
  <2>1. OnlyRec(rec', rec, {"restored"})
    BY <1>2, LoanTypes DEF Recovery, OnlyRec
  <2>2. /\ Becomes({"code", "regs", "mask"}, {"restored"})
        /\ task'.code = IF rec.words THEN "own" ELSE task.code
        /\ task'.regs = IF rec.regs THEN "own" ELSE task.regs
        /\ task'.mask = IF rec.mask THEN "own" ELSE task.mask
    BY <1>2, <2>1, UndoneIs, Becoming
  <2>3. task \in Task
    BY LoanTypes
  <2>4. Untouched(task')
    BY <1>0, <1>2, <2>2, <2>3 DEF Becomes, TaskBut, RecBut, LoanInv, Living, Task
  <2>5. Living'
    BY <1>0, <1>2, <2>2, <2>4 DEF Becomes, TaskBut, RecBut, LoanInv, Living
  <2> QED BY <1>0, <1>2, <2>2, <2>5, LoanKept DEF Places
<1>3. CASE Stopped /\ Keeps(rec) /\ task' = [Undone(rec) EXCEPT !.regs = task.regs]
  <2> DEFINE u == Undone(rec)
  <2>1. /\ OnlyTask(u, task, {"code", "regs", "mask"})
        /\ u.code = IF rec.words THEN "own" ELSE task.code
        /\ u.mask = IF rec.mask THEN "own" ELSE task.mask
    BY UndoneIs
  <2>2. task' = [u EXCEPT !.regs = task.regs] /\ task.regs \in
          {"own", "lent", "part", "entry", "edited"}
    BY <1>3, LoanTypes DEF Task
  <2> HIDE DEF u
  <2>3. OnlyTask(task', u, {"regs"}) /\ task'.regs = task.regs
    BY <2>1, <2>2 DEF OnlyTask, Task
  <2>4. OnlyTask(task', task, {"code", "mask"})
    BY <2>1, <2>3 DEF OnlyTask
  <2>5. Becomes({"code", "mask"}, {}) /\ at' = "kept"
    BY <1>3, <2>4, KeepsIs, Becoming
  <2>6. /\ task'.code = IF rec.words THEN "own" ELSE task.code
        /\ task'.mask = IF rec.mask THEN "own" ELSE task.mask
    BY <2>1, <2>3 DEF OnlyTask
  <2>7. Living'
    BY <1>0, <1>3, <2>5, <2>6 DEF Becomes, TaskBut, RecBut, LoanInv, Living
  <2> QED BY <1>0, <2>5, <2>7, LoanKept DEF Places
<1> QED BY <1>1, <1>2, <1>3 DEF Restore

LEMMA GivenBackIs ==
    ASSUME LoanInv
    PROVE  /\ OnlyTask(GivenBack, task, {"hold", "why", "int", "sig"})
           /\ GivenBack.hold = "free" /\ GivenBack.why = "none" /\ ~GivenBack.int
           /\ GivenBack.sig = IF rec.sig \/ task.sig = "queued" THEN "delivered"
                             ELSE task.sig
<1>1. PICK sig \in {"none", "queued", "held", "delivered"} :
        sig = IF rec.sig \/ task.sig = "queued" THEN "delivered" ELSE task.sig
  BY LoanTypes DEF Task
<1>2. GivenBack = [task EXCEPT !.hold = "free", !.why = "none", !.int = FALSE, !.sig = sig]
  BY <1>1 DEF GivenBack
<1>3. task \in Task
  BY LoanTypes
<1>4. GivenBack \in Task
  <2> DEFINE v == [task EXCEPT !.hold = "free", !.why = "none", !.int = FALSE]
  <2>1. v \in Task
    BY <1>3 DEF Task, Stops
  <2>2. GivenBack = [v EXCEPT !.sig = sig]
    BY <1>2, <1>3 DEF Task
  <2> HIDE DEF v
  <2> QED BY <2>1, <2>2 DEF Task
<1>5. /\ GivenBack.hold = "free" /\ GivenBack.why = "none" /\ ~GivenBack.int
      /\ GivenBack.sig = sig
  BY <1>2, <1>3 DEF Task
<1>6. OnlyTask(GivenBack, task, {"hold", "why", "int", "sig"})
  BY <1>2, <1>3, <1>4 DEF Task, OnlyTask
<1> QED BY <1>1, <1>5, <1>6

LEMMA DetachKeeps == ASSUME LoanInv, DetachStop PROVE LoanInv'
<1> DEFINE r == [rec EXCEPT !.tried = TRUE]
<1>0. at = "detach" /\ ask' = ask /\ may' \in [LoanEvents -> Nat]
  BY MayStays DEF DetachStop, LoanEvents
<1>r. OnlyRec(r, rec, {"tried"})
  BY LoanTypes DEF Recovery, OnlyRec
<1>s. \/ ~Detaches /\ Ends(rec) /\ UNCHANGED task
      \/ Stopped /\ task' = GivenBack /\ (Ends(r) \/ Keeps(r))
      \/ Keeps(r) /\ UNCHANGED task
  BY DEF DetachStop
<1> HIDE DEF r
<1>1. CASE ~Detaches /\ Ends(rec) /\ UNCHANGED task
  <2>1. Becomes({}, {"done"}) /\ at' = "end"
    BY <1>1, EndsIs, TaskStays, Becoming
  <2>2. ASSUME task'.live PROVE Living'
    BY <1>0, <2>1, <2>2 DEF Becomes, TaskBut, RecBut, LoanInv, Living
  <2> QED BY <1>0, <2>1, <2>2, LoanKept DEF Places
<1>2. CASE Stopped /\ task' = GivenBack /\ (Ends(r) \/ Keeps(r))
  <2>1. OnlyRec(rec', r, {"done"}) /\ at' \in {"end", "kept"}
    BY ZenonT(40), <1>2, <1>r DEF Ends, Keeps, Recovery, OnlyRec
  <2>2. OnlyRec(rec', rec, {"done", "tried"})
    BY <1>r, <2>1 DEF OnlyRec
  <2>3. /\ Becomes({"hold", "why", "int", "sig"}, {"done", "tried"})
        /\ task'.hold = "free" /\ task'.why = "none" /\ ~task'.int
        /\ task'.sig = IF rec.sig \/ task.sig = "queued" THEN "delivered" ELSE task.sig
    BY <1>2, <2>2, GivenBackIs, Becoming
  <2>4. Living'
    BY <1>0, <1>2, <2>1, <2>3 DEF Becomes, TaskBut, RecBut, LoanInv, Living
  <2> QED BY <1>0, <2>1, <2>3, <2>4, LoanKept DEF Places
<1>3. CASE Keeps(r) /\ UNCHANGED task
  <2>1. Becomes({}, {"tried"}) /\ at' = "kept"
    BY <1>3, <1>r, TaskStays, KeepsOnly, Becoming
  <2>2. ASSUME task'.live PROVE Living'
    BY <1>0, <2>1, <2>2 DEF Becomes, TaskBut, RecBut, LoanInv, Living
  <2> QED BY <1>0, <2>1, <2>2, LoanKept DEF Places
<1> QED BY <1>s, <1>1, <1>2, <1>3

LEMMA TryAgainKeeps == ASSUME LoanInv, TryAgain PROVE LoanInv'
<1>1. /\ at = "kept" /\ at' = "retry" /\ ask' = ask /\ may' \in [LoanEvents -> Nat]
      /\ Becomes({}, {})
  BY MayStays, TaskStays, RecStays, Becoming DEF TryAgain
<1>2. ASSUME task'.live PROVE Living'
  BY <1>1, <1>2 DEF Becomes, TaskBut, RecBut, LoanInv, Living
<1> QED BY <1>1, <1>2, LoanKept DEF Places

LEMMA CallerKeeps == ASSUME LoanInv, CallerDetaches PROVE LoanInv'
<1>1. /\ at = "end" /\ at' = "end" /\ ask' = ask /\ may' \in [LoanEvents -> Nat]
      /\ Stopped /\ ~Detaches /\ Becomes({"hold", "why", "int", "sig"}, {})
      /\ task'.hold = "free" /\ task'.why = "none" /\ ~task'.int
      /\ task'.sig = IF rec.sig \/ task.sig = "queued" THEN "delivered" ELSE task.sig
  BY MayStays, GivenBackIs, RecStays, Becoming DEF CallerDetaches
<1>2. Living'
  BY <1>1 DEF Becomes, TaskBut, RecBut, LoanInv, Living
<1> QED BY <1>1, <1>2, LoanKept DEF Places

-----------------------------------------------------------------------------
(* The phases of the restart.                                              *)

LEMMA PhaseIs ==
    ASSUME LoanInv, NEW p \in Phases
    PROVE  OnlyRec(Phase(p), rec, {"phase"}) /\ Phase(p).phase = p
BY LoanTypes DEF Phase, Recovery, OnlyRec

LEMMA RunsOf ==
    ASSUME NEW t \in Task
    PROVE  /\ Running(t).hold = "run" /\ Running(t).why = "none" /\ ~Running(t).told
           /\ OnlyTask(Running(t), t, {"hold", "why", "told"})
BY ZenonT(40) DEF Running, Task, OnlyTask, Stops

LEMMA NoStopKeeps == ASSUME LoanInv, NoStop PROVE LoanInv'
<1>1. /\ Becomes({}, {}) /\ at = "restart" /\ at' = "kept" /\ ~Stopped
      /\ ask' = ask /\ may' \in [LoanEvents -> Nat]
  BY KeepsIs, TaskStays, MayStays, Becoming DEF NoStop
<1>2. ASSUME task'.live PROVE Living'
  BY <1>1, <1>2 DEF Becomes, TaskBut, RecBut, LoanInv, Living
<1> QED BY <1>1, <1>2, LoanKept DEF Places

LEMMA BeginKeeps == ASSUME LoanInv, RestartBegin PROVE LoanInv'
<1>0. /\ at = "restart" /\ rec.phase = "begin" /\ Stopped /\ task' = task
      /\ ask' = ask /\ may' \in [LoanEvents -> Nat]
  BY MayStays DEF RestartBegin, InPhase
<1>1. CASE task.abi = "own" /\ rec' = Phase("none") /\ at' = "restore"
  <2>1. Becomes({}, {"phase"}) /\ rec'.phase = "none"
    BY <1>0, <1>1, TaskStays, PhaseIs, Becoming DEF Phases
  <2>2. Living'
    BY <1>0, <1>1, <2>1 DEF Becomes, TaskBut, RecBut, LoanInv, Living
  <2> QED BY <1>0, <1>1, <2>1, <2>2, LoanKept DEF Places
<1>2. CASE rec' = [Phase("masking") EXCEPT !.seen = "none"] /\ at' = at
  <2>1. OnlyRec(rec', rec, {"phase", "seen"}) /\ rec'.phase = "masking" /\ rec'.seen = "none"
    BY <1>2, LoanTypes DEF Phase, Phases, Stops, Recovery, OnlyRec
  <2>2. Becomes({}, {"phase", "seen"})
    BY <1>0, <2>1, TaskStays, Becoming
  <2>3. Living'
    BY <1>0, <1>2, <2>1, <2>2 DEF Becomes, TaskBut, RecBut, LoanInv, Living
  <2> QED BY <1>0, <1>2, <2>2, <2>3, LoanKept DEF Places
<1> QED BY <1>1, <1>2 DEF RestartBegin, x86SyscallInfo

LEMMA MaskKeeps == ASSUME LoanInv, RestartMask PROVE LoanInv'
<1> DEFINE masked == [task EXCEPT !.mask = "held"]
<1>0. /\ at = "restart" /\ rec.phase = "masking" /\ Stopped
      /\ ask' = ask /\ may' \in [LoanEvents -> Nat]
  BY MayStays DEF RestartMask, InPhase, PhaseRefused, LoanEvents
<1>1. OnlyTask(masked, task, {"mask"}) /\ masked.mask = "held"
  BY LoanTypes DEF Task, OnlyTask
<1>2. \/ task' = masked /\ rec' = [Phase("ready") EXCEPT !.mask = TRUE] /\ at' = at
      \/ task' \in {task, masked} /\ Keeps([rec EXCEPT !.mask = TRUE])
  BY DEF RestartMask, PhaseRefused
<1> HIDE DEF masked
<1>3. CASE task' = masked /\ rec' = [Phase("ready") EXCEPT !.mask = TRUE] /\ at' = at
  <2>1. OnlyRec(rec', rec, {"phase", "mask"}) /\ rec'.phase = "ready" /\ rec'.mask
    BY <1>3, LoanTypes DEF Phase, Phases, Recovery, OnlyRec
  <2>2. Becomes({"mask"}, {"phase", "mask"}) /\ task'.mask = "held"
    BY <1>1, <1>3, <2>1, Becoming
  <2>3. Living'
    BY <1>0, <1>3, <2>1, <2>2 DEF Becomes, TaskBut, RecBut, LoanInv, Living
  <2> QED BY <1>0, <1>3, <2>2, <2>3, LoanKept DEF Places
<1>4. CASE task' \in {task, masked} /\ Keeps([rec EXCEPT !.mask = TRUE])
  <2>1. OnlyRec(rec', rec, {"mask"}) /\ rec'.mask /\ at' = "kept"
    BY <1>4, LoanTypes DEF Keeps, Recovery, OnlyRec
  <2>2. OnlyTask(task', task, {"mask"})
    BY <1>1, <1>4, LoanTypes DEF OnlyTask
  <2>3. Becomes({"mask"}, {"mask"})
    BY <2>1, <2>2, Becoming
  <2>4. Living'
    BY <1>0, <2>1, <2>3 DEF Becomes, TaskBut, RecBut, LoanInv, Living
  <2> QED BY <1>0, <2>1, <2>3, <2>4, LoanKept DEF Places
<1> QED BY <1>2, <1>3, <1>4

LEMMA EnterKeeps == ASSUME LoanInv, RestartEnter PROVE LoanInv'
<1> DEFINE entry == [task EXCEPT !.regs = "entry"]
           again == [Phase("entering") EXCEPT !.again = TRUE]
<1>0. /\ at = "restart" /\ rec.phase = "ready" /\ Stopped
      /\ ask' = ask /\ may' \in [LoanEvents -> Nat]
  BY MayStays DEF RestartEnter, InPhase, LoanEvents
<1>1. OnlyTask(entry, task, {"regs"}) /\ entry.regs = "entry"
  BY LoanTypes DEF Task, OnlyTask
<1>2. \/ task' = Running(entry) /\ rec' = Phase("entering") /\ at' = at
      \/ task' = entry /\ Keeps(rec)
      \/ task' \in {entry, Running(entry)} /\ Keeps(again)
  BY DEF RestartEnter
<1>3. OnlyRec(again, rec, {"phase", "again"}) /\ again.phase = "entering"
  BY LoanTypes DEF Phase, Phases, Recovery, OnlyRec
<1> HIDE DEF entry, again
<1>4. /\ OnlyTask(Running(entry), task, {"hold", "why", "told", "regs"})
      /\ Running(entry).hold = "run" /\ Running(entry).why = "none"
      /\ ~Running(entry).told /\ Running(entry).regs = "entry"
  <2>1. entry \in Task
    BY <1>1, ButTask
  <2>2. /\ Running(entry).hold = "run" /\ Running(entry).why = "none"
        /\ ~Running(entry).told
        /\ OnlyTask(Running(entry), entry, {"hold", "why", "told"})
    BY <2>1, RunsOf
  <2> QED BY <1>1, <2>2 DEF OnlyTask
<1>i. task.image = 1
  BY <1>0, LoanTypes DEF Task, LoanInv, Living
<1>5. CASE task' = Running(entry) /\ rec' = Phase("entering") /\ at' = at
  <2>1. /\ Becomes({"hold", "why", "told", "regs"}, {"phase"}) /\ rec'.phase = "entering"
        /\ task'.hold = "run" /\ task'.why = "none" /\ ~task'.told /\ task'.regs = "entry"
    BY <1>4, <1>5, PhaseIs, Becoming DEF Phases
  <2>2. Living'
    BY <1>0, <1>5, <1>i, <2>1 DEF Becomes, TaskBut, RecBut, LoanInv, Living
  <2> QED BY <1>0, <1>5, <2>1, <2>2, LoanKept DEF Places
<1>6. CASE task' = entry /\ Keeps(rec)
  <2>1. Becomes({"regs"}, {}) /\ task'.regs = "entry" /\ at' = "kept"
    BY <1>1, <1>6, KeepsIs, Becoming
  <2>2. Living'
    BY <1>0, <1>i, <2>1 DEF Becomes, TaskBut, RecBut, LoanInv, Living
  <2> QED BY <1>0, <2>1, <2>2, LoanKept DEF Places
<1>7. CASE task' = entry /\ Keeps(again)
  <2>1. /\ Becomes({"regs"}, {"phase", "again"}) /\ task'.regs = "entry"
        /\ at' = "kept" /\ rec'.phase = "entering"
    BY <1>1, <1>3, <1>7, KeepsOnly, Becoming
  <2>2. Living'
    BY <1>0, <1>i, <2>1 DEF Becomes, TaskBut, RecBut, LoanInv, Living
  <2> QED BY <1>0, <2>1, <2>2, LoanKept DEF Places
<1>8. CASE task' = Running(entry) /\ Keeps(again)
  <2>1. /\ Becomes({"hold", "why", "told", "regs"}, {"phase", "again"})
        /\ task'.hold = "run" /\ task'.why = "none" /\ ~task'.told /\ task'.regs = "entry"
        /\ at' = "kept" /\ rec'.phase = "entering"
    BY <1>3, <1>4, <1>8, KeepsOnly, Becoming
  <2>2. Living'
    BY <1>0, <1>i, <2>1 DEF Becomes, TaskBut, RecBut, LoanInv, Living
  <2> QED BY <1>0, <2>1, <2>2, LoanKept DEF Places
<1> QED BY <1>2, <1>5, <1>6, <1>7, <1>8

LEMMA PhaseWaitKeeps == ASSUME LoanInv, PhaseWait PROVE LoanInv'
<1>0. /\ at = "restart" /\ ask' = ask /\ rec.seen = "none"
      /\ rec.phase \in {"entering", "waiting", "stopWait", "listening"}
      /\ ~(Stopped /\ task.told)
  BY DEF PhaseWait, Awaiting
<1>1. CASE ~task.live /\ retireDeadTask(rec)
  BY <1>0, <1>1, RetireKeeps
<1>2. CASE task.live /\ task.hold # "stop" /\ Keeps(rec) /\ UNCHANGED <<task, may>>
  <2>1. Becomes({}, {}) /\ at' = "kept" /\ may' \in [LoanEvents -> Nat]
    BY <1>2, KeepsIs, TaskStays, MayStays, Becoming
  <2>2. Living'
    BY <1>0, <1>2, <2>1 DEF Becomes, TaskBut, RecBut, LoanInv, Living
  <2> QED BY <1>0, <2>1, <2>2, LoanKept DEF Places
<1>3. CASE /\ Stopped /\ Told /\ rec' = [rec EXCEPT !.seen = task.why, !.stopped = TRUE]
           /\ UNCHANGED <<at, may>>
  <2>0. task \in Task /\ rec \in Recovery
    BY LoanTypes
  <2>1. OnlyRec(rec', rec, {"seen", "stopped"}) /\ rec'.seen = task.why /\ rec'.stopped
    BY <1>3, <2>0 DEF Recovery, Task, OnlyRec
  <2>2. /\ Becomes({"told"}, {"seen", "stopped"}) /\ task'.told
        /\ may' \in [LoanEvents -> Nat]
    BY <1>3, <2>1, ToldIs, MayStays, Becoming
  <2>3. Living'
    BY <1>0, <1>3, <2>1, <2>2 DEF Becomes, TaskBut, RecBut, LoanInv, Living
  <2> QED BY <1>0, <1>3, <2>2, <2>3, LoanKept, LoanTypes DEF Places
<1> QED BY <1>1, <1>2, <1>3 DEF PhaseWait

(* A stop that was not the one waited for: the exec of another program, or *)
(* a SIGSTOP.                                                              *)
LEMMA UnexpectedKeeps ==
    ASSUME LoanInv, at = "restart", rec.phase \in {"listening"} \cup Waits,
           rec.seen # "none", UNCHANGED <<ask, task, may>>,
           \/ rec.seen = "exec" /\ Keeps([rec EXCEPT !.retired = TRUE])
           \/ rec.seen # "exec" /\ Keeps(Phase("stopRestore"))
    PROVE  LoanInv'
<1>0. may' \in [LoanEvents -> Nat]
  BY MayStays
<1>1. CASE rec.seen = "exec" /\ Keeps([rec EXCEPT !.retired = TRUE])
  <2>1. OnlyRec(rec', rec, {"retired"}) /\ rec'.retired /\ at' = "kept"
    BY <1>1, LoanTypes DEF Keeps, Recovery, OnlyRec
  <2>2. Becomes({}, {"retired"})
    BY <2>1, TaskStays, Becoming
  <2>3. ASSUME task'.live PROVE Living'
    BY <1>1, <2>1, <2>2, <2>3 DEF Becomes, TaskBut, RecBut, LoanInv, Living
  <2> QED BY <1>0, <2>1, <2>2, <2>3, LoanKept DEF Places
<1>2. CASE rec.seen # "exec" /\ Keeps(Phase("stopRestore"))
  <2>1. Becomes({}, {"phase"}) /\ rec'.phase = "stopRestore" /\ at' = "kept"
    BY <1>2, PhaseIs, KeepsOnly, TaskStays, Becoming DEF Phases
  <2>2. ASSUME task'.live PROVE Living'
    BY <1>2, <2>1, <2>2 DEF Becomes, TaskBut, RecBut, LoanInv, Living
  <2> QED BY <1>0, <2>1, <2>2, LoanKept DEF Places
<1> QED BY <1>1, <1>2

LEMMA EnteringKeeps == ASSUME LoanInv, RestartEntering PROVE LoanInv'
<1>0. /\ at = "restart" /\ rec.phase = "entering" /\ ask' = ask
      /\ may' \in [LoanEvents -> Nat]
  BY MayStays DEF RestartEntering, InPhase, PhaseRefused, LoanEvents
<1>1. CASE /\ rec.seen = "none" /\ Stopped /\ task.told /\ task' = Running(task)
           /\ rec' = [rec EXCEPT !.again = FALSE] /\ at' = at
  <2>1. OnlyRec(rec', rec, {"again"})
    BY <1>1, LoanTypes DEF Recovery, OnlyRec
  <2>2. /\ Becomes({"hold", "why", "told"}, {"again"})
        /\ task'.hold = "run" /\ task'.why = "none" /\ ~task'.told
    BY <1>1, <2>1, RunningIs, Becoming
  <2>i. task.image = 1
    BY <1>0, <1>1, LoanTypes DEF Task, LoanInv, Living
  <2>3. Living'
    BY <1>0, <1>1, <2>2, <2>i DEF Becomes, TaskBut, RecBut, LoanInv, Living
  <2> QED BY <1>0, <1>1, <2>2, <2>3, LoanKept DEF Places
<1>2. CASE task' = task /\ Keeps(rec)
  <2>1. Becomes({}, {}) /\ at' = "kept"
    BY <1>2, KeepsIs, TaskStays, Becoming
  <2>2. ASSUME task'.live PROVE Living'
    BY <1>0, <2>1, <2>2 DEF Becomes, TaskBut, RecBut, LoanInv, Living
  <2> QED BY <1>0, <2>1, <2>2, LoanKept DEF Places
<1>3. CASE rec.seen = "none" /\ Stopped /\ task.told /\ task' = Running(task) /\ Keeps(rec)
  <2>1. /\ Becomes({"hold", "why", "told"}, {}) /\ at' = "kept"
        /\ task'.hold = "run" /\ task'.why = "none" /\ ~task'.told
    BY <1>3, KeepsIs, RunningIs, Becoming
  <2>i. task.image = 1
    BY <1>0, <1>3, LoanTypes DEF Task, LoanInv, Living
  <2>2. Living'
    BY <1>0, <1>3, <2>1, <2>i DEF Becomes, TaskBut, RecBut, LoanInv, Living
  <2> QED BY <1>0, <2>1, <2>2, LoanKept DEF Places
<1>4. CASE rec.seen = "entry" /\ rec' = Phase("entered") /\ at' = "restart" /\ task' = task
  <2>1. Becomes({}, {"phase"}) /\ rec'.phase = "entered"
    BY <1>4, PhaseIs, TaskStays, Becoming DEF Phases
  <2>2. ASSUME task'.live PROVE Living'
    BY <1>0, <1>4, <2>1, <2>2 DEF Becomes, TaskBut, RecBut, LoanInv, Living
  <2> QED BY <1>0, <1>4, <2>1, <2>2, LoanKept DEF Places
<1>5. CASE /\ rec.seen # "none" /\ UNCHANGED <<task, may>>
           /\ \/ rec.seen = "exec" /\ Keeps([rec EXCEPT !.retired = TRUE])
              \/ rec.seen # "exec" /\ Keeps(Phase("stopRestore"))
  BY <1>0, <1>5, UnexpectedKeeps
<1> QED BY <1>1, <1>2, <1>3, <1>4, <1>5 DEF RestartEntering, PhaseRefused, Expect

LEMMA EnteredKeeps == ASSUME LoanInv, RestartEntered PROVE LoanInv'
<1> DEFINE own == [task EXCEPT !.regs = "own"]
<1>0. /\ at = "restart" /\ rec.phase = "entered" /\ Stopped /\ ask' = ask
      /\ may' \in [LoanEvents -> Nat]
  BY MayStays DEF RestartEntered, InPhase, PhaseRefused, LoanEvents
<1>1. OnlyTask(own, task, {"regs"}) /\ own.regs = "own"
  BY LoanTypes DEF Task, OnlyTask
<1>2. \/ task' = own /\ rec' = Phase("interrupt") /\ at' = at
      \/ task' \in {task, own} /\ Keeps(rec)
  BY DEF RestartEntered, PhaseRefused
<1> HIDE DEF own
<1>3. CASE task' = own /\ rec' = Phase("interrupt") /\ at' = at
  <2>1. Becomes({"regs"}, {"phase"}) /\ task'.regs = "own" /\ rec'.phase = "interrupt"
    BY <1>1, <1>3, PhaseIs, Becoming DEF Phases
  <2>2. task.trap = FALSE
    BY <1>0, LoanTypes DEF Task, LoanInv, Living
  <2>3. Living'
    BY <1>0, <1>3, <2>1, <2>2 DEF Becomes, TaskBut, RecBut, LoanInv, Living
  <2> QED BY <1>0, <1>3, <2>1, <2>3, LoanKept DEF Places
<1>4. CASE task' = own /\ Keeps(rec)
  <2>1. Becomes({"regs"}, {}) /\ task'.regs = "own" /\ at' = "kept"
    BY <1>1, <1>4, KeepsIs, Becoming
  <2>3. Living'
    BY <1>0, <2>1 DEF Becomes, TaskBut, RecBut, LoanInv, Living
  <2> QED BY <1>0, <2>1, <2>3, LoanKept DEF Places
<1>5. CASE task' = task /\ Keeps(rec)
  <2>1. Becomes({}, {}) /\ at' = "kept"
    BY <1>5, KeepsIs, TaskStays, Becoming
  <2>2. Living'
    BY <1>0, <2>1 DEF Becomes, TaskBut, RecBut, LoanInv, Living
  <2> QED BY <1>0, <2>1, <2>2, LoanKept DEF Places
<1> QED BY <1>2, <1>3, <1>4, <1>5

LEMMA GuardKeeps == ASSUME LoanInv, RestartInterrupt PROVE LoanInv'
<1> DEFINE asked == [task EXCEPT !.int = TRUE]
           next == IF rec.phase = "interrupt" THEN "resume" ELSE "stopResume"
           r == [Phase(next) EXCEPT !.seen = "none"]
<1>0. /\ at = "restart" /\ rec.phase \in {"interrupt", "stopInterrupt"} /\ Stopped
      /\ ask' = ask /\ may' \in [LoanEvents -> Nat]
  BY MayStays DEF RestartInterrupt, PhaseRefused, LoanEvents
<1>1. OnlyTask(asked, task, {"int"}) /\ asked.int
  BY LoanTypes DEF Task, OnlyTask
<1>2. \/ task' = asked /\ rec' = r /\ at' = at
      \/ task' \in {task, asked} /\ Keeps(rec)
  BY DEF RestartInterrupt, PhaseRefused
<1>n. next \in Phases /\ (rec.phase = "interrupt" => next = "resume")
      /\ (rec.phase = "stopInterrupt" => next = "stopResume")
  BY DEF Phases
<1> HIDE DEF asked, next
<1>r. OnlyRec(r, rec, {"phase", "seen"}) /\ r.phase = next /\ r.seen = "none"
  BY <1>n, LoanTypes DEF Phase, Stops, Recovery, OnlyRec
<1> HIDE DEF r
<1>3. CASE task' = asked /\ rec' = r /\ at' = at
  <2>1. /\ Becomes({"int"}, {"phase", "seen"}) /\ task'.int
        /\ rec'.phase = next /\ rec'.seen = "none"
    BY <1>1, <1>3, <1>r, Becoming
  <2>2. Living'
    BY <1>0, <1>3, <1>n, <2>1 DEF Becomes, TaskBut, RecBut, LoanInv, Living
  <2> QED BY <1>0, <1>3, <2>1, <2>2, LoanKept DEF Places
<1>4. CASE task' \in {task, asked} /\ Keeps(rec)
  <2>1. OnlyTask(task', task, {"int"})
    BY <1>1, <1>4, LoanTypes DEF OnlyTask
  <2>2. Becomes({"int"}, {}) /\ at' = "kept"
    BY <1>4, <2>1, KeepsIs, Becoming
  <2>3. Living'
    BY <1>0, <2>2 DEF Becomes, TaskBut, RecBut, LoanInv, Living
  <2> QED BY <1>0, <2>2, <2>3, LoanKept DEF Places
<1> QED BY <1>2, <1>3, <1>4

LEMMA ResumeKeeps == ASSUME LoanInv, RestartResume PROVE LoanInv'
<1> DEFINE next == IF rec.phase \in {"resume", "waiting"} THEN "waiting" ELSE "stopWait"
           r == Phase(next)
<1>0. /\ at = "restart" /\ Stopped /\ ask' = ask /\ may' \in [LoanEvents -> Nat]
      /\ \/ rec.phase \in {"resume", "stopResume"}
         \/ rec.phase \in {"waiting", "stopWait"} /\ rec.seen = "none" /\ task.told
  BY MayStays DEF RestartResume, PhaseRefused, LoanEvents
<1>1. \/ task' = Running(task) /\ rec' = r /\ at' = at
      \/ task' = task /\ Keeps(r)
      \/ task' = Running(task) /\ Keeps(r)
  BY DEF RestartResume, PhaseRefused
<1>n. /\ next \in Phases
      /\ rec.phase \in {"resume", "waiting"} => next = "waiting"
      /\ rec.phase \in {"stopResume", "stopWait"} => next = "stopWait"
  BY DEF Phases
<1> HIDE DEF next
<1>r. OnlyRec(r, rec, {"phase"}) /\ r.phase = next
  BY <1>n, PhaseIs
<1> HIDE DEF r
<1>i. task.image = 1
  BY <1>0, LoanTypes DEF Task, LoanInv, Living
<1>2. CASE task' = Running(task) /\ ((rec' = r /\ at' = at) \/ Keeps(r))
  <2>1. /\ Becomes({"hold", "why", "told"}, {"phase"}) /\ at' \in {"restart", "kept"}
        /\ task'.hold = "run" /\ task'.why = "none" /\ ~task'.told /\ rec'.phase = next
    BY <1>0, <1>2, <1>r, RunningIs, KeepsOnly, Becoming
  <2>2. Living'
    BY <1>0, <1>i, <1>n, <2>1 DEF Becomes, TaskBut, RecBut, LoanInv, Living
  <2> QED BY <1>0, <2>1, <2>2, LoanKept DEF Places
<1>3. CASE task' = task /\ Keeps(r)
  <2>1. Becomes({}, {"phase"}) /\ at' = "kept" /\ rec'.phase = next
    BY <1>3, <1>r, TaskStays, KeepsOnly, Becoming
  <2>2. Living'
    BY <1>0, <1>i, <1>n, <2>1 DEF Becomes, TaskBut, RecBut, LoanInv, Living
  <2> QED BY <1>0, <2>1, <2>2, LoanKept DEF Places
<1> QED BY <1>1, <1>2, <1>3

LEMMA WaitingKeeps == ASSUME LoanInv, RestartWaiting PROVE LoanInv'
<1>0. /\ at = "restart" /\ rec.phase = "waiting" /\ rec.seen # "none"
      /\ UNCHANGED <<ask, task, may>> /\ may' \in [LoanEvents -> Nat]
  BY MayStays DEF RestartWaiting, InPhase
<1>1. CASE rec.seen = "interrupt" /\ rec' = Phase("none") /\ at' = "restore"
  <2>1. Becomes({}, {"phase"}) /\ rec'.phase = "none"
    BY <1>0, <1>1, PhaseIs, TaskStays, Becoming DEF Phases
  <2>i. task.image \in {1, 2}
    BY LoanTypes DEF Task
  <2>2. ASSUME task'.live PROVE Living'
    BY <1>0, <1>1, <2>1, <2>2, <2>i DEF Becomes, TaskBut, RecBut, LoanInv, Living
  <2> QED BY <1>0, <1>1, <2>1, <2>2, LoanKept DEF Places
<1>2. CASE \/ rec.seen = "exec" /\ Keeps([rec EXCEPT !.retired = TRUE])
           \/ rec.seen # "exec" /\ Keeps(Phase("stopRestore"))
  BY <1>0, <1>2, UnexpectedKeeps
<1> QED BY <1>1, <1>2 DEF RestartWaiting, Expect

LEMMA StoppedKeeps == ASSUME LoanInv, RestartStopped PROVE LoanInv'
<1> DEFINE own == [task EXCEPT !.regs = "own"]
<1>0. /\ at = "restart" /\ rec.phase = "stopRestore" /\ Stopped /\ ask' = ask
      /\ may' \in [LoanEvents -> Nat]
  BY MayStays DEF RestartStopped, InPhase, PhaseRefused, LoanEvents
<1>1. OnlyTask(own, task, {"regs"}) /\ own.regs = "own"
  BY LoanTypes DEF Task, OnlyTask
<1>2. \/ task' = Undone(rec) /\ rec' = Phase("stopInterrupt") /\ at' = at
      \/ task' \in {task, own} /\ Keeps(rec)
  BY DEF RestartStopped, PhaseRefused
<1> HIDE DEF own
<1>t. task.trap = FALSE /\ rec.regs = TRUE
  BY <1>0, LoanTypes DEF Task, Recovery, LoanInv, Living
<1>3. CASE task' = Undone(rec) /\ rec' = Phase("stopInterrupt") /\ at' = at
  <2>1. /\ Becomes({"code", "regs", "mask"}, {"phase"}) /\ rec'.phase = "stopInterrupt"
        /\ task'.regs = "own"
    BY <1>3, <1>t, UndoneIs, PhaseIs, Becoming DEF Phases
  <2>u. task'.code = "own" /\ task'.mask = "own"
    <3>1. /\ task'.code = IF rec.words THEN "own" ELSE task.code
          /\ task'.mask = IF rec.mask THEN "own" ELSE task.mask
      BY <1>3, UndoneIs
    <3>2. (~rec.words => task.code = "own") /\ (~rec.mask => task.mask = "own")
      BY <1>0, LoanTypes DEF Task, LoanInv, Living
    <3> QED BY <3>1, <3>2
  <2>2. Living'
    BY <1>0, <1>3, <1>t, <2>1, <2>u DEF Becomes, TaskBut, RecBut, LoanInv, Living
  <2> QED BY <1>0, <1>3, <2>1, <2>2, LoanKept DEF Places
<1>4. CASE task' = own /\ Keeps(rec)
  <2>1. Becomes({"regs"}, {}) /\ task'.regs = "own" /\ at' = "kept"
    BY <1>1, <1>4, KeepsIs, Becoming
  <2>2. Living'
    BY <1>0, <1>t, <2>1 DEF Becomes, TaskBut, RecBut, LoanInv, Living
  <2> QED BY <1>0, <2>1, <2>2, LoanKept DEF Places
<1>5. CASE task' = task /\ Keeps(rec)
  <2>1. Becomes({}, {}) /\ at' = "kept"
    BY <1>5, KeepsIs, TaskStays, Becoming
  <2>2. Living'
    BY <1>0, <2>1 DEF Becomes, TaskBut, RecBut, LoanInv, Living
  <2> QED BY <1>0, <2>1, <2>2, LoanKept DEF Places
<1> QED BY <1>2, <1>3, <1>4, <1>5

(* Back to the beginning of the phases, from a stop that was asked for.    *)
LEMMA BeginsAgain ==
    ASSUME LoanInv, at = "restart", rec.phase \in {"stopWait", "listening"},
           rec.seen = "interrupt", rec' = Phase("begin"), at' = "restart",
           UNCHANGED <<ask, task, may>>
    PROVE  LoanInv'
<1>0. may' \in [LoanEvents -> Nat]
  BY MayStays
<1>1. Becomes({}, {"phase"}) /\ rec'.phase = "begin"
  BY PhaseIs, TaskStays, Becoming DEF Phases
<1>2. ASSUME task'.live PROVE Living'
  BY <1>1, <1>2 DEF Becomes, TaskBut, RecBut, LoanInv, Living
<1> QED BY <1>0, <1>1, <1>2, LoanKept DEF Places

LEMMA StopWaitKeeps == ASSUME LoanInv, RestartStopWait PROVE LoanInv'
<1>0. /\ at = "restart" /\ rec.phase = "stopWait" /\ rec.seen # "none"
      /\ UNCHANGED <<ask, task, may>> /\ may' \in [LoanEvents -> Nat]
  BY MayStays DEF RestartStopWait, InPhase
<1>1. CASE rec.seen = "group" /\ rec' = Phase("groupStop") /\ at' = at
  <2>1. Becomes({}, {"phase"}) /\ rec'.phase = "groupStop"
    BY <1>0, <1>1, PhaseIs, TaskStays, Becoming DEF Phases
  <2>2. ASSUME task'.live PROVE Living'
    BY <1>0, <1>1, <2>1, <2>2 DEF Becomes, TaskBut, RecBut, LoanInv, Living
  <2> QED BY <1>0, <1>1, <2>1, <2>2, LoanKept DEF Places
<1>2. CASE rec.seen = "interrupt" /\ rec' = Phase("begin") /\ at' = "restart"
  BY <1>0, <1>2, BeginsAgain
<1>3. CASE \/ rec.seen = "exec" /\ Keeps([rec EXCEPT !.retired = TRUE])
           \/ rec.seen # "exec" /\ Keeps(Phase("stopRestore"))
  BY <1>0, <1>3, UnexpectedKeeps DEF Waits
<1> QED BY <1>1, <1>2, <1>3 DEF RestartStopWait, Expect

LEMMA ListeningKeeps == ASSUME LoanInv, RestartListening PROVE LoanInv'
<1>0. /\ at = "restart" /\ rec.phase = "listening" /\ rec.seen # "none"
      /\ UNCHANGED <<ask, task, may>>
  BY DEF RestartListening, InPhase
<1>1. CASE rec.seen = "interrupt" /\ rec' = Phase("begin") /\ at' = "restart"
  BY <1>0, <1>1, BeginsAgain
<1>2. CASE \/ rec.seen = "exec" /\ Keeps([rec EXCEPT !.retired = TRUE])
           \/ rec.seen # "exec" /\ Keeps(Phase("stopRestore"))
  BY <1>0, <1>2, UnexpectedKeeps
<1> QED BY <1>1, <1>2 DEF RestartListening, Expect

LEMMA ListenKeeps == ASSUME LoanInv, RestartListen PROVE LoanInv'
<1> DEFINE r == [Phase("listening") EXCEPT !.seen = "none", !.stopped = FALSE]
           heard == [task EXCEPT !.hold = "listen"]
           asked == StopWith(task, "interrupt")
<1>0. /\ at = "restart" /\ Stopped /\ ask' = ask /\ may' \in [LoanEvents -> Nat]
      /\ \/ rec.phase = "groupStop"
         \/ rec.phase = "listening" /\ rec.seen = "none" /\ task.told
  BY MayStays DEF RestartListen, InPhase, PhaseRefused, LoanEvents
<1>1. /\ task' \in {task, heard, asked}
      /\ (rec' = r /\ at' = at) \/ Keeps(r)
  BY DEF RestartListen, PhaseRefused
<1>r. /\ OnlyRec(r, rec, {"phase", "seen", "stopped"}) /\ r.phase = "listening"
      /\ r.seen = "none"
  BY LoanTypes DEF Phase, Phases, Stops, Recovery, OnlyRec
<1>h. OnlyTask(heard, task, {"hold"}) /\ heard.hold = "listen"
  BY LoanTypes DEF Task, OnlyTask
<1>a. /\ OnlyTask(asked, task, {"hold", "why", "told"}) /\ asked.hold = "stop"
      /\ asked.why = "interrupt" /\ ~asked.told
  BY ZenonT(40), LoanTypes DEF StopWith, Stops, Task, OnlyTask
<1> HIDE DEF r, heard, asked
<1>k. OnlyRec(rec', rec, {"phase", "seen", "stopped"}) /\ rec'.phase = "listening"
      /\ rec'.seen = "none" /\ at' \in {"restart", "kept"}
  BY <1>0, <1>1, <1>r, KeepsOnly
<1>i. task.image = 1 /\ rec.prepared /\ ~rec.retired
  BY <1>0, LoanTypes DEF Task, LoanInv, Living
<1>2. CASE task' = task
  <2>1. Becomes({}, {"phase", "seen", "stopped"})
    BY <1>2, <1>k, TaskStays, Becoming
  <2>2. Living'
    BY <1>0, <1>i, <1>k, <2>1 DEF Becomes, TaskBut, RecBut, LoanInv, Living
  <2> QED BY <1>0, <1>k, <2>1, <2>2, LoanKept DEF Places
<1>3. CASE task' = heard
  <2>1. Becomes({"hold"}, {"phase", "seen", "stopped"}) /\ task'.hold = "listen"
    BY <1>3, <1>h, <1>k, Becoming
  <2>2. Living'
    BY <1>0, <1>i, <1>k, <2>1 DEF Becomes, TaskBut, RecBut, LoanInv, Living
  <2> QED BY <1>0, <1>k, <2>1, <2>2, LoanKept DEF Places
<1>4. CASE task' = asked
  <2>1. /\ Becomes({"hold", "why", "told"}, {"phase", "seen", "stopped"})
        /\ task'.hold = "stop" /\ task'.why = "interrupt" /\ ~task'.told
    BY <1>4, <1>a, <1>k, Becoming
  <2>2. Living'
    BY <1>0, <1>i, <1>k, <2>1 DEF Becomes, TaskBut, RecBut, LoanInv, Living
  <2> QED BY <1>0, <1>k, <2>1, <2>2, LoanKept DEF Places
<1> QED BY <1>1, <1>2, <1>3, <1>4

-----------------------------------------------------------------------------
LEMMA InitLoan == ASSUME LoanInit PROVE LoanInv
<1>1. PICK l \in Loans : ask = l.ask /\ may = l.may
  BY DEF LoanInit
<1>2. AskOK /\ may \in [LoanEvents -> Nat]
  BY <1>1, LoansAssumption DEF AskOK
<1>3. rec = NoRecovery /\ rec \in Recovery /\ at = "start"
  BY DEF LoanInit, NoRecovery, Recovery, Phases, Stops
<1>4. FreeTask \in Task /\ Untouched(FreeTask) /\ Whole(FreeTask)
  BY DEF FreeTask, Task, Stops, Pages, Untouched, Whole
<1>5. CASE Detaches
  <2>1. task = FreeTask
    BY <1>5 DEF LoanInit
  <2>2. Living
    BY <1>3, <1>4, <1>5, <2>1 DEF NoRecovery, FreeTask, Living, Stopped
  <2> QED BY <1>2, <1>3, <1>4, <2>1, <2>2 DEF LoanInv, LoanTypeOK, Places
<1>6. CASE ~Detaches
  <2>1. task = [FreeTask EXCEPT !.hold = "stop", !.why = "interrupt", !.told = TRUE]
    BY <1>6 DEF LoanInit
  <2>2. task \in Task
    BY <2>1 DEF FreeTask, Task, Stops, Pages
  <2>3. Living
    BY <1>3, <1>6, <2>1 DEF NoRecovery, FreeTask, Living, Stopped
  <2> QED BY <1>2, <1>3, <2>2, <2>3 DEF LoanInv, LoanTypeOK, Places
<1> QED BY <1>5, <1>6

LEMMA RestartKeeps == ASSUME LoanInv, RestartNext PROVE LoanInv'
BY NoStopKeeps, BeginKeeps, MaskKeeps, EnterKeeps, PhaseWaitKeeps, EnteringKeeps,
   EnteredKeeps, GuardKeeps, ResumeKeeps, WaitingKeeps, StoppedKeeps,
   StopWaitKeeps, ListenKeeps, ListeningKeeps DEF RestartNext

LEMMA LenderKeeps == ASSUME LoanInv, LenderNext PROVE LoanInv'
BY StartKeeps, SeizeKeeps, InterruptKeeps, AwaitStopKeeps, CheckKeeps, InspectKeeps,
   ProveKeeps, CompareKeeps, CleanupKeeps, PlanKeeps, PatchKeeps, SetRegistersKeeps,
   StepKeeps, CollectKeeps, RetryKeeps, PollKeeps, LetGoKeeps, ReleaseKeeps,
   ReleaseWaitKeeps, DrainKeeps, DrainWaitKeeps, RestartKeeps, RestoreKeeps,
   DetachKeeps, TryAgainKeeps, CallerKeeps DEF LenderNext

LEMMA KernelKeeps == ASSUME LoanInv, KernelNext PROVE LoanInv'
BY SignalStopsKeeps, JobStopsKeeps, InterruptStopsKeeps, InjectedKeeps,
   TrapStopsKeeps, EntryStopsKeeps DEF KernelNext

LEMMA EventsKeep == ASSUME LoanInv, EventNext PROVE LoanInv'
BY KilledKeeps, SignalSentKeeps, StopSentKeeps, ContSentKeeps, ExecsKeeps DEF EventNext

LEMMA IdleKeeps == ASSUME LoanInv, UNCHANGED loan PROVE LoanInv'
<1>1. /\ task' = task /\ rec' = rec /\ at' = at /\ ask' = ask /\ may' = may
  BY DEF loan
<1>2. Becomes({}, {}) /\ at' \in Places /\ may' \in [LoanEvents -> Nat]
  BY <1>1, TaskStays, RecStays, MayStays, LoanTypes, Becoming
<1>3. ASSUME task'.live PROVE Living'
  BY <1>1, <1>2, <1>3 DEF Becomes, TaskBut, RecBut, LoanInv, Living
<1> QED BY <1>1, <1>2, <1>3, LoanKept

LEMMA InvImpliesSound == ASSUME LoanInv PROVE LoanSound
<1>1. LoanTypeOK
  BY DEF LoanInv
<1>2. ContextKept
  BY LoanTypes DEF LoanInv, Living, ContextKept, Task
<1>3. ValueReported
  BY DEF LoanInv, Living, ValueReported
<1> QED BY <1>1, <1>2, <1>3 DEF LoanSound

(* A thread of the target that was borrowed to make a system call is given *)
(* back whole (target_syscall.cpp, execute and TargetSyscallRecovery):     *)
(* whichever ptrace requests are refused, however often, and whenever the  *)
(* thread is signalled, stopped, continued, denied the call, replaced by an*)
(* exec or killed in between, a thread that is let go has its own          *)
(* registers, code, signal mask and kernel entry, no trap, page or signal  *)
(* of the loan is left, the instruction it returns to was not unmapped, a  *)
(* replacing program is given nothing of the old one's, and a call that was*)
(* made is reported as made.                                               *)
THEOREM LoanIsSound == LoanSpec => []LoanSound
<1>1. LoanInit => LoanInv
  BY InitLoan
<1>2. LoanInv /\ [LoanNext]_loan => LoanInv'
  BY LenderKeeps, KernelKeeps, EventsKeep, IdleKeeps DEF LoanNext
<1>3. LoanInv => LoanSound
  BY InvImpliesSound
<1> QED BY <1>1, <1>2, <1>3, PTL DEF LoanSpec
=============================================================================
