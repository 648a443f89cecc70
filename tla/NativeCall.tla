------------------------------ MODULE NativeCall ------------------------------
(***************************************************************************)
(* The native call owner (platform/linux/call_service.cpp) and the service *)
(* thread it runs on (platform/linux/syscall_service.cpp).                 *)
(*                                                                         *)
(* One owner thread performs every front end's job.  A call borrows a      *)
(* running thread of the target, maps a private frame with a system call   *)
(* injected into it, runs the function there and gives everything back.    *)
(* Whatever cannot be given back at once (a refused register write, a      *)
(* function that has not returned, no thread to borrow) stays in a record  *)
(* that later jobs and a periodic sweep try to finish.                     *)
(*                                                                         *)
(* An action is what the owner does between two moments at which the       *)
(* target can change under it; own.pc names the place in the code.         *)
(***************************************************************************)
EXTENDS CallTarget, Sequences

VARIABLES
    call,    \* the record of each call: in the map of calls, a lease, or none
    sys,     \* the record of a memory operation that could not be restored
    own,     \* the owner thread: where it is, which record, on whose behalf
    jobs,    \* what front ends have submitted
    client,  \* what each call's front end knows and holds
    given    \* mappings returned to front ends, with the image they are in

vars == <<thr, proc, left, call, sys, own, jobs, client, given>>

NoCall == [at |-> "none", kind |-> "plain", tid |-> None, seized |-> FALSE,
           stopped |-> FALSE, frame |-> 0, image |-> 0, rec |-> "none",
           completed |-> FALSE, ok |-> FALSE, abandoned |-> FALSE,
           outputRead |-> FALSE, orphanDetached |-> FALSE, retired |-> FALSE,
           affinityPending |-> FALSE, workerStarted |-> FALSE,
           workerOwned |-> FALSE, exited |-> FALSE]

(* functionRecovery and orphanRecovery say what kind of recovery is kept;  *)
(* a recovery whose thread died is spent: retrying it does nothing.        *)
Recoveries == {"none", "memory", "function", "orphan", "spent"}

CallRecord == [at : {"none", "calls", "lease"}, kind : Kinds,
               tid : Threads \cup {None}, seized : BOOLEAN,
               stopped : BOOLEAN, frame : Frames \cup {0}, image : 0..2,
               rec : Recoveries, completed : BOOLEAN, ok : BOOLEAN,
               abandoned : BOOLEAN, outputRead : BOOLEAN,
               orphanDetached : BOOLEAN, retired : BOOLEAN,
               affinityPending : BOOLEAN, workerStarted : BOOLEAN,
               workerOwned : BOOLEAN, exited : BOOLEAN]

NoRecord == [on |-> FALSE, rec |-> "none", tid |-> None, alloc |-> 0,
             image |-> 0]

Pending == [on : BOOLEAN, rec : {"none", "memory", "spent"},
            tid : Threads \cup {None}, alloc : Frames \cup {0}, image : 0..2]

NoJob == [op |-> "none", k |-> 0]

Job == [op : {"none", "invoke", "resume", "map", "free"}, k : Calls \cup {0}]

Idle == [pc |-> "idle", k |-> 0, by |-> "sweep", ret |-> "none",
         fin |-> "ok", tried |-> {}, todo |-> {}, job |-> NoJob,
         stop |-> FALSE]

(* Places of the code that work on one record.                             *)
Working == {"finish", "image", "worker", "reclaim", "prepare", "stop",
            "eligible", "bind", "map", "stage", "call", "await", "output",
            "start", "orphan", "unmap", "detach"}

Owner == [pc : Working \cup {"idle", "next", "record", "execute", "again",
                             "resume", "exited"},
          k : Calls \cup {0}, by : {"sweep", "recover", "run", "cleanup"},
          ret : Working \cup {"none", "main"},
          fin : {"ok", "canceled", "retired", "refused"}, tried : SUBSET Threads,
          todo : SUBSET Calls, job : Job, stop : BOOLEAN]

Init ==
    /\ TargetInit
    /\ call = [k \in Calls |-> NoCall]
    /\ sys = NoRecord
    /\ own = Idle
    /\ jobs = <<>>
    /\ client = [k \in Calls |-> "idle"]
    /\ given = {}

c == call[own.k]

(* The thread a record believes it holds.                                  *)
Held(x) == thr[x.tid]

Dead(t) == thr[t].life \in {"zombie", "gone"}

Present == {k \in Calls : call[k].at # "none"}

\* Mutant of ImageOf: any running program is taken for the record's own.
ImageOf_AnyProgram(x) ==
    IF \A t \in Threads : Dead(t) THEN "gone"
    ELSE IF x.retired THEN "canceled" ELSE "ok"

(* image(): the record still belongs to the program that is running.       *)
ImageOf(x) ==
    IF \A t \in Threads : Dead(t) THEN "gone"
    ELSE IF x.retired \/ x.image \notin {0, proc.image} THEN "canceled"
    ELSE "ok"

\* Mutant of OwnsCleanup: the borrowed thread is forgotten.
OwnsCleanup_FrameOnly(x) == x.frame # 0 \/ x.affinityPending

OwnsCleanup(x) ==
    x.seized \/ x.rec # "none" \/ x.frame # 0 \/ x.affinityPending

OwnsStop(x) == x.seized \/ x.rec # "none"

Place(x) == call' = [call EXCEPT ![own.k] = x]

Goto(pc) == own' = [own EXCEPT !.pc = pc]

(* The job is over: its caller is answered and the owner sweeps.           *)
Swept == [own EXCEPT !.pc = "next", !.by = "sweep", !.todo = Present,
                     !.job = NoJob, !.k = 0, !.ret = "none", !.fin = "ok",
                     !.tried = {}]

\* Mutant of Answer: the error path never fulfils the caller's future.
Answer_SuccessOnly(k, how) ==
    client' = IF own.job.op = "invoke" /\ how # "error"
              THEN [client EXCEPT ![k] = how] ELSE client

Answer(k, how) ==
    client' = IF own.job.op = "invoke" THEN [client EXCEPT ![k] = how]
              ELSE client

\* Mutant of Settled: a started worker whose call then failed is forgotten.
Settled_Dropped(x, done) == IF ~done THEN x ELSE NoCall

(* A finished record is dropped, unless its worker still needs the frame.  *)
Settled(x, done) ==
    IF ~done THEN x
    ELSE IF x.at = "calls" /\ x.workerStarted /\ x.frame # 0
         THEN [x EXCEPT !.at = "lease", !.workerOwned = TRUE]
    ELSE NoCall

\* Mutant of Delivered: a created thread's handle is not leased.
Delivered_Unleased(x) ==
    LET leased == x.kind = "worker" /\ x.completed /\ x.ok /\ x.outputRead
    IN  /\ Place(IF leased THEN [x EXCEPT !.at = "lease", !.workerOwned = TRUE]
                 ELSE NoCall)
        /\ Answer(own.k, IF leased THEN "held" ELSE "done")
        /\ own' = [Swept EXCEPT !.todo = Present]

(* A call that worked is returned; the handle of a created thread, and a   *)
(* worker, stay in a lease.                                                *)
Delivered(x) ==
    LET leased == x.kind # "plain" /\ x.completed /\ x.ok /\ x.outputRead
    IN  /\ Place(IF leased
                 THEN [x EXCEPT !.at = "lease",
                                !.workerOwned = (x.kind = "worker")]
                 ELSE NoCall)
        /\ Answer(own.k, IF leased THEN "held" ELSE "done")
        /\ own' = [Swept EXCEPT !.todo = Present]

(* Where finish(), or run(), of the current record returns to.             *)
Leave(x, err, done) ==
    CASE own.by = "run" /\ err = "ok" -> Delivered(x)
      [] own.by = "run" /\ err # "ok" /\ x.rec \in {"none", "memory"} ->
           /\ Place([x EXCEPT !.abandoned = TRUE])
           /\ own' = [own EXCEPT !.by = "cleanup", !.pc = "finish"]
           /\ UNCHANGED client
      [] own.by = "run" /\ err # "ok" /\ x.rec \notin {"none", "memory"} ->
           /\ Place([x EXCEPT !.abandoned = TRUE])
           /\ Answer(own.k, "error")
           /\ own' = Swept
      [] own.by = "cleanup" ->
           /\ Place(Settled(x, done \/ err = "gone"))
           /\ Answer(own.k, "error")
           /\ own' = Swept
      [] own.by = "recover" /\ err # "ok" /\ (x.workerOwned => OwnsStop(x)) ->
           /\ Place(Settled(x, done))
           /\ Answer(own.job.k, "error")
           /\ own' = Swept
      [] OTHER ->
           LET y == Settled(x, done)
           IN  /\ Place(y)
               /\ own' = [own EXCEPT !.pc = "next", !.k = 0, !.fin = "ok",
                            !.todo = IF c.at = "calls" /\ y.at = "lease"
                                     THEN @ ELSE @ \ {own.k}]
               /\ UNCHANGED client

-----------------------------------------------------------------------------
(* Front ends.                                                             *)

Submit(k, kind) ==
    /\ client[k] = "idle" /\ ~own.stop
    /\ \A j \in Calls : j < k => client[j] # "idle"
    /\ Spend("call")
    /\ jobs' = Append(jobs, [op |-> "invoke", k |-> k])
    /\ client' = [client EXCEPT ![k] = kind]
    /\ UNCHANGED <<thr, proc, call, sys, own, given>>

(* resumeCall, allocation and freeing memory a worker was started in.      *)
SubmitOther(op, k) ==
    /\ ~own.stop /\ Len(jobs) < 2
    /\ op = "free" => client[k] # "idle"
    /\ Spend(op)
    /\ jobs' = Append(jobs, [op |-> op, k |-> k])
    /\ UNCHANGED <<thr, proc, call, sys, own, client, given>>

(* The front end joined or detached the thread it had created; the flag it *)
(* sets outlives its lease.                                                *)
Release(k) ==
    /\ client[k] \in {"held", "expired"} /\ call[k].kind = "thread"
    /\ proc.handle[k] = "live"
    /\ client' = [client EXCEPT ![k] = "released"]
    /\ proc' = [proc EXCEPT !.handle[k] = "done"]
    /\ UNCHANGED <<thr, left, call, sys, own, jobs, given>>

(* The front end went away without releasing its lease.                    *)
Expire(k) ==
    /\ client[k] = "held"
    /\ client' = [client EXCEPT ![k] = "expired"]
    /\ UNCHANGED <<thr, proc, left, call, sys, own, jobs, given>>

Shutdown ==
    /\ ~own.stop
    /\ Spend("stop")
    /\ own' = [own EXCEPT !.stop = TRUE]
    /\ UNCHANGED <<thr, proc, call, sys, jobs, client, given>>

-----------------------------------------------------------------------------
(* The service loop: jobs in order, then every record is retried.          *)

TakeJob ==
    /\ own.pc = "idle" /\ jobs # <<>>
    /\ LET job == Head(jobs)
       IN  own' = [own EXCEPT !.job = job, !.by = "recover", !.todo = Present,
                              !.pc = CASE job.op = "invoke" -> "record"
                                       [] job.op = "resume" -> "resume"
                                       [] OTHER -> "next"]
    /\ jobs' = Tail(jobs)
    /\ UNCHANGED <<thr, proc, left, call, sys, client, given>>

(* The periodic retry when there is nothing to do but records to finish.   *)
Sweep ==
    /\ own.pc = "idle" /\ jobs = <<>>
    /\ Present # {} \/ sys.on
    /\ own' = Swept
    /\ UNCHANGED <<thr, proc, left, call, sys, jobs, client, given>>

Exit ==
    /\ own.pc = "idle" /\ own.stop /\ jobs = <<>>
    /\ Present = {} /\ ~sys.on
    /\ Goto("exited")
    /\ UNCHANGED <<thr, proc, left, call, sys, jobs, client, given>>

(* recover() and recoverAll(): the call first, then the leases in order.   *)
Visiting ==
    LET started == {k \in own.todo : call[k].at = "calls"}
    IN  IF started # {} THEN Min(started) ELSE Min(own.todo)

(* maintainLease, and the dispatch of finish() to maintainWorker.          *)
Visit ==
    /\ own.pc = "next" /\ own.todo # {}
    /\ LET k == Visiting
           x == call[k]
           at(pc) == [own EXCEPT !.pc = pc, !.k = k]
           skip == [own EXCEPT !.todo = @ \ {k}]
       IN  CASE x.at = "none" -> own' = skip /\ UNCHANGED call
             [] x.at = "calls" -> own' = at("finish") /\ UNCHANGED call
             [] x.at = "lease" /\ x.workerOwned ->
                  own' = at("worker") /\ UNCHANGED call
             [] x.at = "lease" /\ ~x.workerOwned /\ client[k] = "released"
                  /\ ~OwnsCleanup(x) ->
                  /\ call' = [call EXCEPT ![k] = NoCall]
                  /\ IF x.retired /\ own.by = "recover"
                     THEN own' = Swept ELSE own' = skip
             [] x.at = "lease" /\ ~x.workerOwned /\ client[k] = "released"
                  /\ OwnsCleanup(x) ->
                  /\ call' = [call EXCEPT ![k].orphanDetached = TRUE,
                                          ![k].abandoned = TRUE]
                  /\ own' = at("finish")
             [] x.at = "lease" /\ ~x.workerOwned /\ client[k] = "held"
                  /\ ~x.abandoned -> own' = skip /\ UNCHANGED call
             [] OTHER ->
                  /\ call' = [call EXCEPT ![k].abandoned = TRUE]
                  /\ own' = at("finish")
    /\ client' = IF own'.job = own.job THEN client
                 ELSE IF own.job.op = "invoke"
                      THEN [client EXCEPT ![own.job.k] = "error"] ELSE client
    /\ UNCHANGED <<thr, proc, left, sys, jobs, given>>

(* busy(): a record pins the memory its worker was started in.             *)
Busy(k) ==
    /\ call[k].at # "none" /\ call[k].kind = "worker"
    /\ ~call[k].exited \/ OwnsStop(call[k])

(* releaseDetachedWorkersAtProcessExit.                                    *)
LeftAtExit ==
    [k \in Calls |-> IF own.stop /\ call[k].at = "lease"
                          /\ call[k].workerOwned /\ ~OwnsStop(call[k])
                     THEN NoCall ELSE call[k]]

(* Every record was visited.                                               *)
Visited ==
    /\ own.pc = "next" /\ own.todo = {}
    /\ CASE own.by = "sweep" -> Goto("record") /\ UNCHANGED <<call, client>>
         [] own.by # "sweep" /\ own.job.op = "invoke" ->
              IF \E k \in Calls : call[k].at = "calls"
              THEN /\ own' = Swept
                   /\ Answer(own.job.k, "error")
                   /\ UNCHANGED call
              ELSE /\ call' = [call EXCEPT ![own.job.k] =
                        [NoCall EXCEPT !.at = "calls",
                                       !.kind = client[own.job.k]]]
                   /\ own' = [own EXCEPT !.pc = "prepare", !.k = own.job.k,
                                         !.by = "run", !.ret = "map",
                                         !.tried = {}]
                   /\ UNCHANGED client
         [] own.by # "sweep" /\ own.job.op = "resume" ->
              own' = Swept /\ UNCHANGED <<call, client>>
         [] OTHER ->
              /\ own' = IF own.job.op = "free" /\ Busy(own.job.k)
                        THEN Swept ELSE [own EXCEPT !.pc = "record"]
              /\ UNCHANGED <<call, client>>
    /\ UNCHANGED <<thr, proc, left, sys, jobs, given>>

-----------------------------------------------------------------------------
(* TargetSyscallService's own record: a memory operation whose thread has  *)
(* not been given back, and a mapping no caller has received.              *)

(* Where the service goes when its record needs nothing more.              *)
RecordDone ==
    CASE own.by = "sweep" ->
           /\ own' = [own EXCEPT !.pc = "idle"]
           /\ call' = LeftAtExit
           /\ given' = given \cup {<<call[k].image, call[k].frame>> :
                                     k \in {j \in Calls : LeftAtExit[j] # call[j]}}
           /\ UNCHANGED client
      [] own.by # "sweep" /\ own.job.op = "invoke" ->
           Goto("next") /\ UNCHANGED <<call, given, client>>
      [] OTHER -> Goto("execute") /\ UNCHANGED <<call, given, client>>

(* Its retry failed for now: a job is refused, the sweep goes on.          *)
RecordKept ==
    IF own.by = "sweep" THEN RecordDone
    ELSE /\ own' = Swept
         /\ Answer(own.job.k, "error")
         /\ UNCHANGED <<call, given>>

(* The process or the image is gone: execute() drops the record and fails, *)
(* invoke() fails without dropping it.                                     *)
RecordGone ==
    /\ sys' = IF own.job.op = "invoke" THEN [sys EXCEPT !.rec = "spent"]
              ELSE NoRecord
    /\ RecordKept

NothingRecorded ==
    /\ own.pc = "record" /\ ~sys.on
    /\ RecordDone
    /\ UNCHANGED <<thr, proc, left, sys, jobs>>

(* retry(): restore the thread, or find that it or its image is gone.      *)
RetryContext ==
    /\ own.pc = "record" /\ sys.on /\ sys.rec # "none"
    /\ LET t == sys.tid
           live == ImageOf([NoCall EXCEPT !.image = sys.image]) = "ok"
       IN  \/ /\ sys.rec = "spent"
              /\ sys' = [sys EXCEPT !.rec = "none"]
              /\ UNCHANGED <<thr, left, own, call, given, client>>
           \/ /\ sys.rec = "memory" /\ Dead(t)
              /\ thr' = Waited(t)
              /\ IF sys.alloc # 0 /\ live
                 THEN /\ sys' = [sys EXCEPT !.rec = "none"]
                      /\ UNCHANGED <<own, call, given, client>>
                 ELSE RecordGone
              /\ UNCHANGED left
           \/ /\ sys.rec = "memory" /\ ~Dead(t) /\ ~live
              /\ RecordGone
              /\ UNCHANGED <<thr, left>>
           \/ /\ sys.rec = "memory" /\ ~Dead(t) /\ live
              /\ thr' = [thr EXCEPT ![t].hold = "free", ![t].regs = "own"]
              /\ sys' = [sys EXCEPT !.rec = "none"]
              /\ UNCHANGED <<left, own, call, given, client>>
           \/ /\ sys.rec = "memory" /\ ~Dead(t) /\ live
              /\ Spend("fault")
              /\ RecordKept
              /\ UNCHANGED <<thr, sys>>
    /\ UNCHANGED <<proc, jobs>>

(* processMemoryTask: the leader, or a member that outlived it.            *)
MemoryTask ==
    IF ~Dead(Leader) THEN Leader
    ELSE CHOOSE t \in Threads : ~Dead(t) \/ \A u \in Threads : Dead(u)

(* The thread's own registers are exchanged for the injected call's.       *)
Lent(t) == [thr EXCEPT ![t].hold = "stopped", ![t].regs = "lent"]

Unmapped(f) == [proc EXCEPT !.mapped = @ \ {f}, !.theirs = @ \ {f}]

(* retry(), second half: unmap what no caller received.                    *)
RetryAllocation ==
    /\ own.pc = "record" /\ sys.on /\ sys.rec = "none"
    /\ \/ /\ sys.alloc = 0
          /\ sys' = NoRecord
          /\ RecordDone
          /\ UNCHANGED <<thr, proc, left>>
       \/ /\ sys.alloc # 0
          /\ ImageOf([NoCall EXCEPT !.image = sys.image]) # "ok"
          /\ RecordGone
          /\ UNCHANGED <<thr, proc, left>>
       \/ /\ sys.alloc # 0 /\ proc.execing = None
          /\ ImageOf([NoCall EXCEPT !.image = sys.image]) = "ok"
          /\ thr[MemoryTask].hold = "free"
          /\ \/ /\ proc' = Unmapped(sys.alloc)
                /\ sys' = NoRecord
                /\ RecordDone
                /\ UNCHANGED <<thr, left>>
             \/ /\ Spend("fault")
                /\ \/ UNCHANGED <<thr, proc, sys>>
                   \/ /\ thr' = Lent(MemoryTask)
                      /\ \/ /\ proc' = Unmapped(sys.alloc)
                            /\ sys' = [sys EXCEPT !.alloc = 0, !.rec = "memory",
                                                  !.tid = MemoryTask]
                         \/ /\ sys' = [sys EXCEPT !.rec = "memory",
                                                  !.tid = MemoryTask]
                            /\ UNCHANGED proc
                /\ RecordKept
       \/ (* the member is traced already, or does not stop *)
          /\ sys.alloc # 0
          /\ ImageOf([NoCall EXCEPT !.image = sys.image]) = "ok"
          /\ thr[MemoryTask].hold # "free" \/ proc.execing # None
          /\ RecordKept
          /\ UNCHANGED <<thr, proc, left, sys>>
    /\ UNCHANGED jobs

FreeFrame == Frames \ (proc.mapped \cup proc.theirs)

(* execute(): one system call on a member of the process.  Its record is   *)
(* reserved first; a mapping is owned before anything can go wrong.        *)
Execute ==
    /\ own.pc = "execute"
    /\ LET t == MemoryTask
           map == own.job.op = "map"
           f == IF FreeFrame = {} THEN 0 ELSE Min(FreeFrame)
           done == IF map THEN [proc EXCEPT !.mapped = @ \cup {f}]
                   ELSE [proc EXCEPT !.code[own.job.k] = FALSE]
           kept == [on |-> TRUE, rec |-> "memory", tid |-> t, alloc |-> 0,
                    image |-> proc.image]
           can == /\ ~Dead(t) /\ thr[t].hold = "free" /\ proc.execing = None
                  /\ map => f # 0
       IN  \/ /\ ~can
              /\ own' = Swept
              /\ UNCHANGED <<thr, proc, left, sys, given>>
           \/ /\ can
              /\ proc' = done
              /\ given' = IF map THEN given \cup {<<proc.image, f>>} ELSE given
              /\ own' = Swept
              /\ UNCHANGED <<thr, left, sys>>
           \/ /\ can /\ Spend("fault")
              /\ \/ own' = Swept /\ UNCHANGED <<thr, proc, sys>>
                 \/ /\ thr' = Lent(t)
                    /\ sys' = kept
                    /\ own' = Swept
                    /\ UNCHANGED proc
                 \/ /\ thr' = Lent(t)
                    /\ proc' = done
                    /\ sys' = [kept EXCEPT !.alloc = IF map THEN f ELSE 0]
                    /\ Goto("again")
              /\ UNCHANGED given
    /\ UNCHANGED <<call, jobs, client>>

(* The completed operation is restored once more before it is reported:    *)
(* only then does the caller receive the mapping.                          *)
ExecuteAgain ==
    /\ own.pc = "again"
    /\ LET t == sys.tid
           live == ImageOf([NoCall EXCEPT !.image = sys.image]) = "ok"
       IN  \/ /\ ~Dead(t) /\ live
              /\ thr' = [thr EXCEPT ![t].hold = "free", ![t].regs = "own"]
              /\ given' = IF sys.alloc = 0 THEN given
                          ELSE given \cup {<<sys.image, sys.alloc>>}
              /\ sys' = NoRecord
              /\ UNCHANGED left
           \/ /\ ~Dead(t) /\ live /\ Spend("fault")
              /\ UNCHANGED <<thr, sys, given>>
           \/ /\ Dead(t)
              /\ thr' = Waited(t)
              /\ sys' = IF sys.alloc = 0 THEN NoRecord
                        ELSE [sys EXCEPT !.rec = "spent"]
              /\ UNCHANGED <<left, given>>
           \/ /\ ~Dead(t) /\ ~live
              /\ sys' = NoRecord
              /\ UNCHANGED <<thr, left, given>>
    /\ own' = Swept
    /\ UNCHANGED <<proc, call, jobs, client>>

-----------------------------------------------------------------------------
(* recovered(): the kept recovery of a call is tried again.                *)

(* Where finish() and maintainWorker() go on when nothing is to recover.   *)
AfterRecovery(x) == IF x.workerOwned THEN "reclaim" ELSE "image"

(* The replacement program stands in the exec stop of a borrowed thread,   *)
(* and no record has adopted that stop yet.                                *)
ExecStop ==
    /\ thr[Leader].regs = "exec"
    /\ \A k \in Present : ~(call[k].retired /\ call[k].tid = Leader)

(* pollFunction: any exec of the group ends a function call, whose record  *)
(* takes the replacement's stop over.                                      *)
Adopts(x) == ExecStop /\ (x.rec \in {"function", "orphan"} \/ x.tid = Leader)

(* recovered() was called by finish(), which takes a vanished thread for    *)
(* released.                                                               *)
InFinish(x) == ~x.workerOwned /\ (own.pc = "finish" \/ own.ret = "image")

(* retire(): the image is gone with everything in it; only the stop, which *)
(* may now be the replacement program's, is still to be released.          *)
Retire(x) ==
    /\ Place([x EXCEPT !.retired = TRUE, !.frame = 0, !.rec = "none",
                       !.affinityPending = FALSE, !.exited = TRUE,
                       !.tid = IF Adopts(x) THEN Leader ELSE @,
                       !.stopped = @ \/ Adopts(x)])
    /\ own' = [own EXCEPT !.pc = "detach",
                          !.fin = IF InFinish(x) THEN "retired" ELSE "canceled"]
    /\ UNCHANGED client

NothingToRecover ==
    /\ own.pc = "finish" /\ c.rec = "none"
    /\ own' = [own EXCEPT !.ret = AfterRecovery(c),
                          !.pc = IF c.affinityPending /\ c.seized /\ c.stopped
                                 THEN "bind" ELSE AfterRecovery(c)]
    /\ UNCHANGED <<thr, proc, left, call, sys, jobs, client, given>>

(* What a returned function tells its record.                              *)
Returned(x, th) ==
    CASE x.rec = "orphan" -> [x EXCEPT !.orphanDetached = TRUE]
      [] x.rec = "function" -> [x EXCEPT !.completed = TRUE,
                                         !.ok = (th.val = "ok")]
      [] OTHER -> x

\* Mutant of Restored: the call's registers stay in the thread.
Restored_StopOnly(th) == [th EXCEPT !.hold = "stopped"]

Restored(th) == [FreshThread EXCEPT !.life = th.life, !.hold = "stopped"]

(* The thread's registers are put back; it stays stopped for the owner.    *)
Recover ==
    /\ own.pc = "finish" /\ c.rec \in {"memory", "function", "orphan"}
    /\ ~Dead(c.tid) /\ Held(c).regs \in {"lent", "trap"}
    /\ \/ /\ thr' = [thr EXCEPT ![c.tid] = Restored(@)]
          /\ Place([Returned(c, Held(c)) EXCEPT !.rec = "none",
                                                !.stopped = TRUE])
          /\ own' = [own EXCEPT !.ret = AfterRecovery(c),
                                !.pc = IF c.affinityPending THEN "bind"
                                       ELSE AfterRecovery(c)]
          /\ UNCHANGED <<left, client>>
       \/ /\ Spend("fault")
          /\ Leave(c, "other", FALSE)
          /\ UNCHANGED thr
    /\ UNCHANGED <<proc, sys, jobs, given>>

(* The function has not returned, waits for a decision on a signal, or its *)
(* thread is no longer a child to wait for; a request that forwards signals*)
(* lets it go on at once.                                                  *)
RecoverRunning ==
    /\ own.pc = "finish" /\ c.rec \in {"function", "orphan"}
    /\ ~Dead(c.tid)
    /\ Held(c).regs \in {"call", "sig"} \/ Held(c).hold = "free"
    /\ thr' = IF Held(c).regs = "sig" /\ c.kind # "plain"
              THEN [thr EXCEPT ![c.tid].hold = "seized", ![c.tid].regs = "call"]
              ELSE thr
    /\ Leave(c, "other", FALSE)
    /\ UNCHANGED <<proc, left, sys, jobs, given>>

\* Mutant of RecoverDead: the dead thread's context is waited for.
RecoverDead_Kept ==
    /\ own.pc = "finish" /\ c.rec \in {"memory", "function", "orphan"}
    /\ Dead(c.tid) /\ ~Adopts(c)
    /\ thr' = Waited(c.tid)
    /\ Leave(c, "other", FALSE)
    /\ UNCHANGED <<proc, left, sys, jobs, given>>

(* The thread died.  finish() gives up its context and goes on with another*)
(* thread; maintainWorker() returns and finds the recovery spent later.    *)
RecoverDead ==
    /\ own.pc = "finish" /\ c.rec \in {"memory", "function", "orphan"}
    /\ Dead(c.tid) /\ ~Adopts(c)
    /\ thr' = Waited(c.tid)
    /\ IF c.workerOwned THEN Leave([c EXCEPT !.rec = "spent"], "gone", FALSE)
       ELSE /\ Place([c EXCEPT !.rec = "none", !.seized = FALSE,
                               !.stopped = FALSE])
            /\ Goto("image")
            /\ UNCHANGED client
    /\ UNCHANGED <<proc, left, sys, jobs, given>>

RecoverSpent ==
    /\ own.pc = "finish" /\ c.rec = "spent"
    /\ Place([c EXCEPT !.rec = "none", !.stopped = TRUE])
    /\ own' = [own EXCEPT !.ret = "reclaim",
                          !.pc = IF c.affinityPending THEN "bind" ELSE "reclaim"]
    /\ UNCHANGED <<thr, proc, left, sys, jobs, client, given>>

(* Another program was executed: by the function itself, whose exec stop   *)
(* is adopted, or by a sibling that took the borrowed leader's place.      *)
RecoverExec ==
    /\ own.pc = "finish" /\ c.rec \in {"memory", "function", "orphan"}
    /\ \/ Adopts(c)
       \/ c.rec = "memory" /\ ~Dead(c.tid) /\ Held(c).regs = "own"
    /\ Retire(c)
    /\ UNCHANGED <<thr, proc, left, sys, jobs, given>>

-----------------------------------------------------------------------------
(* finish(): is the image still there, is the thread still ours.           *)
FinishImage ==
    /\ own.pc = "image"
    /\ CASE ImageOf(c) = "gone" -> Leave([c EXCEPT !.exited = TRUE], "gone", TRUE)
         [] ImageOf(c) = "canceled" ->
              /\ Place([c EXCEPT !.frame = 0, !.exited = TRUE])
              /\ own' = [own EXCEPT !.pc = "detach", !.fin = "canceled"]
              /\ UNCHANGED client
         [] ImageOf(c) = "ok" /\ c.seized /\ Held(c).life = "zombie" ->
              Leave(c, "other", FALSE)
         [] OTHER ->
              LET x == IF c.seized /\ Held(c).life = "gone"
                       THEN [c EXCEPT !.seized = FALSE, !.stopped = FALSE]
                       ELSE c
              IN  /\ Place(x)
                  /\ own' = [own EXCEPT
                        !.pc = IF ~x.seized /\ x.frame # 0 THEN "prepare"
                               ELSE "output",
                        !.ret = "output", !.tried = {}]
                  /\ UNCHANGED client
    /\ UNCHANGED <<thr, proc, left, sys, jobs, given>>

\* Mutant of MaintainWorker: the worker's exit is not waited for.
MaintainWorker_Eager ==
    /\ own.pc = "worker"
    /\ Place([c EXCEPT !.exited = TRUE])
    /\ Goto("finish")
    /\ UNCHANGED <<thr, proc, left, sys, jobs, client, given>>

(* maintainWorker(): nothing is reclaimed before the worker's kernel exit. *)
MaintainWorker ==
    /\ own.pc = "worker"
    /\ CASE ImageOf(c) # "ok" ->
              /\ Place([c EXCEPT !.frame = 0, !.exited = TRUE])
              /\ own' = [own EXCEPT !.pc = "detach", !.fin = "ok"]
              /\ UNCHANGED client
         [] ImageOf(c) = "ok" /\ proc.worker[own.k] # "exit" ->
              Leave(c, "ok", FALSE)
         [] OTHER ->
              /\ Place([c EXCEPT !.exited = TRUE])
              /\ Goto("finish")
              /\ UNCHANGED client
    /\ UNCHANGED <<thr, proc, left, sys, jobs, given>>

Reclaim ==
    /\ own.pc = "reclaim"
    /\ own' = [own EXCEPT !.pc = IF c.frame # 0 /\ ~c.seized THEN "prepare"
                                 ELSE "unmap",
                          !.ret = "unmap", !.tried = {}]
    /\ UNCHANGED <<thr, proc, left, call, sys, jobs, client, given>>

-----------------------------------------------------------------------------
(* prepare(): borrow a thread that is running user code.                   *)
taskSchedulerState(t) == IF thr[t].life = "run" THEN "R" ELSE "S"

Borrowable == {t \in Threads \ own.tried :
                 taskSchedulerState(t) = "R" /\ thr[t].hold = "free"}

PrepareSeize(t) ==
    /\ own.pc = "prepare" /\ ImageOf(c) = "ok" /\ t \in Borrowable
    /\ thr' = [thr EXCEPT ![t].hold = "seized"]
    /\ Place([c EXCEPT !.tid = t, !.seized = TRUE, !.stopped = FALSE])
    /\ Goto("stop")
    /\ UNCHANGED <<proc, left, sys, jobs, client, given>>

PrepareFails ==
    /\ own.pc = "prepare"
    /\ ImageOf(c) # "ok" \/ Borrowable = {}
    /\ Leave(c, IF ImageOf(c) = "ok" THEN "other" ELSE ImageOf(c), FALSE)
    /\ UNCHANGED <<thr, proc, left, sys, jobs, given>>

(* The wait for a thread times out, as it does for one that is in exec.    *)
Late(t) == IF proc.execing = t THEN UNCHANGED left ELSE Spend("slow")

TryNext(t) == [own EXCEPT !.pc = "prepare", !.tried = @ \cup {t}]

(* stop(): the thread stops, has exited, is stopped by a signal first and  *)
(* handed back, or does not stop in time and stays owned.                  *)
PrepareStop ==
    /\ own.pc = "stop"
    /\ LET t == c.tid IN
       \/ /\ Reapable(t)
          /\ thr' = Waited(t)
          /\ Place([c EXCEPT !.seized = FALSE])
          /\ own' = TryNext(t)
          /\ UNCHANGED <<left, client>>
       \/ /\ Dead(t)
          /\ Leave(c, IF thr[t].life = "gone" THEN "gone" ELSE "other", FALSE)
          /\ UNCHANGED <<thr, left>>
       \/ /\ thr[t].life = "run" /\ thr[t].regs = "own"
          /\ thr' = [thr EXCEPT ![t].hold = "stopped"]
          /\ Place([c EXCEPT !.stopped = TRUE])
          /\ Goto("eligible")
          /\ UNCHANGED <<left, client>>
       \/ /\ thr[t].life = "run" /\ thr[t].regs = "own"
          /\ Spend("busy")
          /\ thr' = [thr EXCEPT ![t].hold = "free"]
          /\ Place([c EXCEPT !.seized = FALSE])
          /\ own' = TryNext(t)
          /\ UNCHANGED client
       \/ /\ ~Dead(t) /\ thr[t].hold = "seized"
          /\ Late(t)
          /\ Leave(c, "other", FALSE)
          /\ UNCHANGED thr
       \/ /\ ~Dead(t) /\ thr[t].regs = "exec"
          /\ thr' = [thr EXCEPT ![t] = FreshThread]
          /\ Place([c EXCEPT !.seized = FALSE])
          /\ own' = TryNext(t)
          /\ UNCHANGED <<left, client>>
    /\ UNCHANGED <<proc, sys, jobs, given>>

(* checkStoppedFunctionAbi and checkStoppedCallSite find the stopped thread*)
(* in a system call, in an rseq section or in the runtime that owns locks. *)
Ineligible == Spend("busy")

(* The stopped thread is checked; an ineligible one is released at once.   *)
PrepareCheck ==
    /\ own.pc = "eligible"
    /\ LET t == c.tid IN
       \/ /\ ImageOf(c) # "ok"
          /\ Leave(c, ImageOf(c), FALSE)
          /\ UNCHANGED <<thr, left>>
       \/ /\ ImageOf(c) = "ok" /\ Dead(t)
          /\ Leave(c, "other", FALSE)
          /\ UNCHANGED <<thr, left>>
       \/ /\ ImageOf(c) = "ok" /\ ~Dead(t)
          /\ Place([c EXCEPT !.affinityPending = TRUE])
          /\ Goto("bind")
          /\ UNCHANGED <<thr, left, client>>
       \/ /\ ImageOf(c) = "ok" /\ ~Dead(t) /\ Ineligible
          /\ thr' = [thr EXCEPT ![t].hold = "free"]
          /\ Place([c EXCEPT !.seized = FALSE, !.stopped = FALSE])
          /\ own' = TryNext(t)
          /\ UNCHANGED client
    /\ UNCHANGED <<proc, sys, jobs, given>>

(* A thread that did not stop in time stops later.                         *)
StopsLate(t) ==
    /\ thr[t].life = "run" /\ thr[t].hold = "seized" /\ thr[t].regs = "own"
    /\ own.pc # "stop" /\ \E k \in Present : call[k].seized /\ call[k].tid = t
    /\ thr' = [thr EXCEPT ![t].hold = "stopped"]
    /\ UNCHANGED <<proc, left, call, sys, own, jobs, client, given>>

(* bindMemory(): the thread is proved to run in the record's image before  *)
(* anything of the record is touched through it.                           *)
BindMemory ==
    /\ own.pc = "bind"
    /\ LET t == c.tid IN
       \/ /\ Dead(t)
          /\ IF c.workerOwned \/ own.ret # "image"
             THEN Leave(c, "gone", FALSE)
             ELSE /\ Place([c EXCEPT !.seized = FALSE, !.stopped = FALSE])
                  /\ Goto("image")
                  /\ UNCHANGED client
          /\ UNCHANGED <<thr, left>>
       \/ /\ ~Dead(t) /\ c.image \notin {0, proc.image}
          /\ Retire(c)
          /\ UNCHANGED <<thr, left>>
       \/ /\ ~Dead(t) /\ c.image \in {0, proc.image}
          /\ Place([c EXCEPT !.image = proc.image, !.affinityPending = FALSE])
          /\ Goto(own.ret)
          /\ UNCHANGED <<thr, left, client>>
       \/ /\ ~Dead(t) /\ c.image = proc.image
          /\ Spend("fault")
          /\ \/ /\ thr' = Lent(t)
                /\ Leave([c EXCEPT !.rec = "memory"], "other", FALSE)
             \/ /\ own' = [own EXCEPT !.pc = "detach", !.fin = "refused"]
                /\ UNCHANGED <<thr, call, client>>
       \/ /\ ~Dead(t) /\ c.image = 0
          /\ Spend("fault")
          /\ Leave(c, "other", FALSE)
          /\ UNCHANGED thr
    /\ UNCHANGED <<proc, sys, jobs, given>>

-----------------------------------------------------------------------------
(* Another thread's program took the place of a thread the record believes *)
(* stopped: ptrace refuses it, traced or not, until its exec is waited for.*)
Foreign(x) ==
    /\ ~Dead(x.tid)
    /\ \/ Held(x).hold = "free"
       \/ Held(x).regs = "exec" /\ x.stopped /\ ~x.retired

(* memory(): one system call on the stopped thread, or why there is none.  *)
Unusable == ImageOf(c) # "ok" \/ Dead(c.tid) \/ Held(c).hold # "stopped"

WhyNot == IF ImageOf(c) # "ok" THEN ImageOf(c) ELSE "other"

(* run(): map the private frame.                                           *)
MapFrame ==
    /\ own.pc \in {"map", "orphan"} /\ c.frame = 0 /\ c.seized
    /\ \/ /\ Unusable \/ FreeFrame = {}
          /\ Leave(c, WhyNot, FALSE)
          /\ UNCHANGED <<thr, proc, left>>
       \/ /\ ~Unusable /\ FreeFrame # {}
          /\ proc' = [proc EXCEPT !.mapped = @ \cup {Min(FreeFrame)}]
          /\ Place([c EXCEPT !.frame = Min(FreeFrame)])
          /\ Goto(IF own.pc = "map" THEN "stage" ELSE "orphan")
          /\ UNCHANGED <<thr, left, client>>
       \/ /\ ~Unusable /\ FreeFrame # {}
          /\ Spend("fault")
          /\ \/ Leave(c, "other", FALSE) /\ UNCHANGED <<thr, proc>>
             \/ /\ thr' = Lent(c.tid)
                /\ \/ /\ proc' = [proc EXCEPT !.mapped = @ \cup {Min(FreeFrame)}]
                      /\ Leave([c EXCEPT !.frame = Min(FreeFrame),
                                         !.rec = "memory"], "other", FALSE)
                   \/ /\ Leave([c EXCEPT !.rec = "memory"], "other", FALSE)
                      /\ UNCHANGED proc
    /\ UNCHANGED <<sys, jobs, given>>

(* readBytes and writeBytes break off.                                     *)
TransferFails == Spend("fault") /\ Leave(c, "other", FALSE)

(* The pages are protected, the wrapper and the payload written.           *)
Stage ==
    /\ own.pc = "stage"
    /\ \/ /\ Unusable
          /\ Leave(c, WhyNot, FALSE)
          /\ UNCHANGED <<thr, left>>
       \/ /\ ~Unusable
          /\ own' = [own EXCEPT !.pc = "call", !.ret = "main"]
          /\ UNCHANGED <<thr, left, call, client>>
       \/ ~Unusable /\ TransferFails /\ UNCHANGED thr
       \/ /\ ~Unusable /\ Spend("fault")
          /\ thr' = Lent(c.tid)
          /\ Leave([c EXCEPT !.rec = "memory"], "other", FALSE)
    /\ UNCHANGED <<proc, sys, jobs, given>>

(* The code and the arguments are in the frame, the registers the call's.  *)
Injected(th) ==
    [th EXCEPT !.hold = "seized", !.regs = "call",
               !.fn = IF own.ret = "main" THEN c.kind ELSE "orphan",
               !.k = own.k, !.frame = c.frame]

(* executeStoppedFunction: registers for the call, and off it goes.        *)
StartFunction ==
    /\ own.pc = "call"
    /\ \/ /\ Dead(c.tid) \/ Foreign(c) \/ Held(c).hold # "stopped"
          /\ Leave(c, "other", FALSE)
          /\ UNCHANGED <<thr, left>>
       \/ /\ ~Dead(c.tid) /\ ~Foreign(c) /\ Held(c).hold = "stopped"
          /\ thr' = [thr EXCEPT ![c.tid] = Injected(@)]
          /\ Goto("await")
          /\ UNCHANGED <<left, call, client>>
       \/ /\ ~Dead(c.tid) /\ Spend("fault")
          /\ Leave(c, "other", FALSE)
          /\ UNCHANGED thr
    /\ UNCHANGED <<proc, sys, jobs, given>>

FunctionKept == IF own.ret = "main" THEN "function" ELSE "orphan"

(* A failure that leaves the call in the thread carries its recovery.      *)
Kept == [c EXCEPT !.rec = FunctionKept]

(* It returns and the registers are put back, or the record keeps a        *)
(* recovery: of a call that returned, that goes on, or that was stopped.   *)
AwaitFunction ==
    /\ own.pc = "await"
    /\ LET t == c.tid IN
       \/ /\ ~Dead(t) /\ thr[t].regs = "trap"
          /\ \/ /\ thr' = [thr EXCEPT ![t] = Restored(@)]
                /\ Place([Returned(Kept, thr[t]) EXCEPT !.rec = "none"])
                /\ Goto(IF own.ret = "main" THEN "finish" ELSE own.ret)
                /\ UNCHANGED <<left, client>>
             \/ /\ Spend("fault")
                /\ Leave(IF own.ret = "main" THEN Returned(Kept, thr[t])
                         ELSE Kept, "other", FALSE)
                /\ UNCHANGED thr
       \/ /\ ~Dead(t) /\ thr[t].regs = "call"
          /\ Late(t)
          /\ Leave(Kept, "other", FALSE)
          /\ UNCHANGED thr
       \/ /\ ~Dead(t) /\ thr[t].hold = "free"
          /\ Leave(Kept, "other", FALSE)
          /\ UNCHANGED <<thr, left>>
       \/ /\ ~Dead(t) /\ thr[t].regs = "sig"
          /\ IF c.kind = "plain"
             THEN Leave(Kept, "interrupted", FALSE) /\ UNCHANGED thr
             ELSE /\ thr' = [thr EXCEPT ![t].hold = "seized",
                                        ![t].regs = "call"]
                  /\ UNCHANGED <<call, own, client>>
          /\ UNCHANGED left
       \/ /\ Adopts(Kept)
          /\ Retire(Kept)
          /\ UNCHANGED <<thr, left>>
       \/ /\ Dead(t) /\ ~Adopts(Kept)
          /\ thr' = Waited(t)
          /\ Leave(c, "gone", FALSE)
          /\ UNCHANGED left
    /\ UNCHANGED <<proc, sys, jobs, given>>

(* finish(): the result is read before its frame goes.                     *)
ReadOutput ==
    /\ own.pc = "output"
    /\ \/ c.completed /\ ~c.outputRead /\ TransferFails
       \/ /\ Place(IF c.completed THEN [c EXCEPT !.outputRead = TRUE] ELSE c)
          /\ own' = [own EXCEPT !.tried = {}, !.pc =
               IF c.kind = "worker" /\ c.completed /\ c.ok THEN "start"
               ELSE IF c.completed /\ c.abandoned /\ c.kind # "plain"
                       /\ ~c.orphanDetached /\ c.ok THEN "orphan"
               ELSE "unmap"]
          /\ UNCHANGED <<left, client>>
    /\ UNCHANGED <<thr, proc, sys, jobs, given>>

(* startWorker(): its handle is detached, then the wrapper is told to run  *)
(* the entry, or, when nobody waits for it any more, to return.            *)
StartWorker ==
    /\ own.pc = "start"
    /\ \/ /\ ~c.orphanDetached
          /\ own' = [own EXCEPT !.pc = "call", !.ret = "start"]
          /\ UNCHANGED <<proc, left, call, client>>
       \/ /\ c.orphanDetached
          /\ proc' = IF proc.worker[own.k] # "ready" THEN proc
                     ELSE [proc EXCEPT !.worker[own.k] =
                             IF c.abandoned THEN "cancel" ELSE "run"]
          /\ Place([c EXCEPT !.workerStarted = TRUE])
          /\ own' = [own EXCEPT !.pc = "detach", !.fin = "ok"]
          /\ UNCHANGED <<left, client>>
       \/ TransferFails /\ UNCHANGED proc
    /\ UNCHANGED <<thr, sys, jobs, given>>

(* A created thread nobody received is detached by another call, in a new  *)
(* frame if the first one is gone already, once its pages are guarded.     *)
DetachOrphan ==
    /\ own.pc = "orphan"
    /\ \/ /\ ~c.seized
          /\ own' = [own EXCEPT !.pc = "prepare", !.ret = "orphan",
                                !.tried = {}]
          /\ UNCHANGED <<thr, left, call, client>>
       \/ /\ c.seized /\ c.frame # 0
          /\ IF Unusable THEN Leave(c, WhyNot, FALSE)
             ELSE /\ own' = [own EXCEPT !.pc = "call", !.ret = "unmap"]
                  /\ UNCHANGED <<call, client>>
          /\ UNCHANGED <<thr, left>>
       \/ /\ c.seized /\ c.frame # 0 /\ ~Unusable /\ Spend("fault")
          /\ \/ Leave(c, "other", FALSE) /\ UNCHANGED thr
             \/ /\ thr' = Lent(c.tid)
                /\ Leave([c EXCEPT !.rec = "memory"], "other", FALSE)
    /\ UNCHANGED <<proc, sys, jobs, given>>

(* finish() and maintainWorker(): the frame is unmapped ...                *)
UnmapFrame ==
    /\ own.pc = "unmap"
    /\ \/ /\ c.frame = 0
          /\ own' = [own EXCEPT !.pc = "detach", !.fin = "ok"]
          /\ UNCHANGED <<thr, proc, left, call, client>>
       \/ /\ c.frame # 0 /\ Unusable
          /\ IF c.workerOwned
             THEN /\ own' = [own EXCEPT !.pc = "detach", !.fin = "refused"]
                  /\ UNCHANGED <<call, client>>
             ELSE Leave(c, WhyNot, FALSE)
          /\ UNCHANGED <<thr, proc, left>>
       \/ /\ c.frame # 0 /\ ~Unusable
          /\ proc' = Unmapped(c.frame)
          /\ Place([c EXCEPT !.frame = 0])
          /\ own' = [own EXCEPT !.pc = "detach", !.fin = "ok"]
          /\ UNCHANGED <<thr, left, client>>
       \/ /\ c.frame # 0 /\ ~Unusable /\ Spend("fault")
          /\ \/ /\ thr' = Lent(c.tid)
                /\ \/ /\ proc' = Unmapped(c.frame)
                      /\ Leave([c EXCEPT !.frame = 0, !.rec = "memory"],
                               "other", FALSE)
                   \/ /\ Leave([c EXCEPT !.rec = "memory"], "other", FALSE)
                      /\ UNCHANGED proc
             \/ /\ IF c.workerOwned
                   THEN /\ own' = [own EXCEPT !.pc = "detach",
                                              !.fin = "refused"]
                        /\ UNCHANGED <<call, client>>
                   ELSE Leave(c, "other", FALSE)
                /\ UNCHANGED <<thr, proc>>
    /\ UNCHANGED <<sys, jobs, given>>

(* What detach() returns to: the record is finished unless it was refused. *)
Detached(x) ==
    Leave(x, CASE own.fin = "refused" -> "other"
               [] own.fin = "retired" -> "canceled"
               [] OTHER -> own.fin,
          own.fin # "refused")

Freed(x) == [x EXCEPT !.seized = FALSE, !.stopped = FALSE]

(* A thread after PTRACE_DETACH: an exec stop it had is over with it.       *)
Untraced(th) == [th EXCEPT !.hold = "free", !.regs = IF @ = "exec" THEN "own" ELSE @]

(* ... and the thread released: it may be gone, dead and not reaped, a     *)
(* program executed by a sibling in its place, or still running.           *)
Detach ==
    /\ own.pc = "detach"
    /\ \/ /\ ~c.seized
          /\ Detached(c)
          /\ UNCHANGED <<thr, left>>
       \/ /\ c.seized /\ Held(c).life = "gone"
          /\ Detached(Freed(c))
          /\ UNCHANGED <<thr, left>>
       \/ /\ c.seized /\ Held(c).life = "zombie"
          /\ Leave(c, "other", FALSE)
          /\ UNCHANGED <<thr, left>>
       \/ /\ c.seized /\ Foreign(c)
          /\ IF own.fin = "retired" THEN Detached(Freed(c))
             ELSE Leave(c, "gone", FALSE)
          /\ UNCHANGED <<thr, left>>
       \/ /\ c.seized /\ Held(c).life = "run" /\ ~Foreign(c)
          /\ thr' = [thr EXCEPT ![c.tid] = Untraced(@)]
          /\ Detached(Freed(c))
          /\ UNCHANGED left
       \/ /\ c.seized /\ ~Dead(c.tid) /\ ~Foreign(c)
          /\ \/ Spend("fault")
             \/ Held(c).hold = "seized" /\ Late(c.tid)
          /\ Leave(c, "other", FALSE)
          /\ UNCHANGED thr
    /\ UNCHANGED <<proc, sys, jobs, given>>

-----------------------------------------------------------------------------
(* resume(): the caller decides that a signalled function goes on.         *)
Resumable ==
    LET started == {k \in Calls : call[k].at = "calls"}
        leased == {k \in Calls : call[k].at = "lease"
                                  /\ call[k].rec \in {"function", "orphan"}}
    IN  IF started # {} THEN started ELSE leased

(* resumeFunction(): only a function that waits for the decision.          *)
AwaitsSignal(x) ==
    /\ x.rec \in {"function", "orphan"}
    /\ Held(x).regs = "sig" /\ ~Dead(x.tid)

Resume ==
    /\ own.pc = "resume"
    /\ IF \E k \in Resumable : k = Min(Resumable) /\ AwaitsSignal(call[k])
       THEN /\ LET t == call[Min(Resumable)].tid
               IN  thr' = [thr EXCEPT ![t].hold = "seized", ![t].regs = "call"]
            /\ own' = [own EXCEPT !.pc = "next", !.todo = Present]
       ELSE own' = Swept /\ UNCHANGED thr
    /\ UNCHANGED <<proc, left, call, sys, jobs, client, given>>

-----------------------------------------------------------------------------
OwnerNext ==
    \/ TakeJob \/ Sweep \/ Exit \/ Visit \/ Visited
    \/ NothingRecorded \/ RetryContext \/ RetryAllocation
    \/ Execute \/ ExecuteAgain
    \/ NothingToRecover \/ Recover \/ RecoverRunning \/ RecoverDead
    \/ RecoverSpent \/ RecoverExec
    \/ FinishImage \/ MaintainWorker \/ Reclaim
    \/ \E t \in Threads : PrepareSeize(t)
    \/ PrepareFails \/ PrepareStop \/ PrepareCheck \/ BindMemory
    \/ MapFrame \/ Stage \/ StartFunction \/ AwaitFunction
    \/ ReadOutput \/ StartWorker \/ DetachOrphan \/ UnmapFrame \/ Detach
    \/ Resume

ClientNext ==
    \/ \E k \in Calls : \/ \E kind \in Kinds : Submit(k, kind)
                          \/ Release(k)
                          \/ Expire(k)
                          \/ SubmitOther("free", k)
    \/ SubmitOther("resume", 0)
    \/ SubmitOther("map", 0)
    \/ Shutdown

EnvironmentNext ==
    \/ TargetNext /\ UNCHANGED <<call, sys, own, jobs, client, given>>
    \/ \E t \in Threads : StopsLate(t)

Next == OwnerNext \/ ClientNext \/ EnvironmentNext

Spec == Init /\ [][Next]_vars

(* The owner thread runs, a function returns, a wait and a worker end, an  *)
(* exec that can go on does, and front ends go away at shutdown.           *)
CallFairness ==
    /\ WF_vars(OwnerNext)
    /\ \A t \in Threads :
         /\ WF_vars(StopsLate(t))
         /\ WF_vars(FunctionReturns(t) /\ UNCHANGED <<call, sys, own, jobs, client, given>>)
         /\ WF_vars(Unpark(t) /\ UNCHANGED <<call, sys, own, jobs, client, given>>)
    /\ \A k \in Calls :
         /\ WF_vars(WorkerExit(k) /\ UNCHANGED <<call, sys, own, jobs, client, given>>)
         /\ WF_vars(own.stop /\ Expire(k))
    /\ WF_vars(ExecDone /\ UNCHANGED <<call, sys, own, jobs, client, given>>)

-----------------------------------------------------------------------------
(* Every variable holds a value of its kind, and the owner is at a place   *)
(* of the code for which it has a record.                                  *)
TypeOK ==
    /\ TargetTypeOK
    /\ call \in [Calls -> CallRecord]
    /\ sys \in Pending
    /\ own \in Owner
    /\ jobs \in Seq(Job)
    /\ client \in [Calls -> Kinds \cup {"idle", "held", "done", "error",
                                       "released", "expired"}]
    /\ given \subseteq (0..2) \X (Frames \cup {0})
    /\ own.pc \in Working => own.k \in Present

(* Who would unmap a private frame of the running program: a call's record,*)
(* the service's record, or whoever was given it.                          *)
Owners(f) ==
    {<<"call", k>> : k \in {j \in Present : /\ call[j].frame = f
                                           /\ call[j].image = proc.image}}
      \cup {<<"sys", 0>> : r \in {r \in {sys} : /\ r.on /\ r.alloc = f
                                               /\ r.image = proc.image}}
      \cup {<<"given", 0>> : g \in given \cap {<<proc.image, f>>}}

(* A mapping made in the target is never forgotten and never has two       *)
(* owners that would both unmap it, whatever was refused, exited or        *)
(* interrupted on the way; an exec that has begun takes all of them along. *)
FramesOwned ==
    proc.execing = None => \A f \in proc.mapped : Cardinality(Owners(f)) = 1

(* "Never unmap a stale frame from an exec-replaced address space": a      *)
(* record made in one program never unmaps what the next program put at    *)
(* the same address.                                                       *)
ProgramKept == [][proc'.image = proc.image => proc.theirs \subseteq proc'.theirs]_vars

(* No thread executes unmapped code: neither the borrowed thread in its    *)
(* frame, nor a worker in the wrapper, nor a worker in the memory its      *)
(* entry is in, which a front end may ask to have unmapped (at shutdown    *)
(* workers are left to themselves, and what they run in is not pinned).    *)
CodeNeverUnmapped ==
    proc.live /\ proc.execing = None =>
      /\ \A t \in Threads : Alive(t) /\ thr[t].regs = "call"
                               => thr[t].frame \in proc.mapped
      /\ \A k \in Calls :
           /\ proc.worker[k] \in {"ready", "run", "cancel"}
                => proc.wframe[k] \in proc.mapped
           /\ proc.worker[k] \in {"ready", "run"} /\ ~own.stop => proc.code[k]

(* A thread the owner has attached to is remembered until it is released:  *)
(* no thread is left stopped, or traced, by nobody.                        *)
AttachmentsOwned ==
    \A t \in Threads :
      Alive(t) /\ thr[t].hold # "free" /\ thr[t].regs # "exec" =>
      \/ \E k \in Present : call[k].tid = t /\ OwnsStop(call[k])
      \/ sys.on /\ sys.rec = "memory" /\ sys.tid = t

(* A thread the program has back runs with its own registers.              *)
ContextReturned ==
    \A t \in Threads : Alive(t) /\ thr[t].hold = "free" => thr[t].regs = "own"

(* Every call is answered: by its result, or by an error while its record  *)
(* is kept.                                                                *)
CallsAnswered == \A k \in Calls : client[k] \in Kinds ~> client[k] \notin Kinds

(* A function stopped by a signal waits until somebody resumes the call.   *)
Undecided == \E t \in Threads : Alive(t) /\ thr[t].regs = "sig"

(* What the owner never recovers from by itself: a thread it attached to   *)
(* died, or a sibling's program took its place, while the record had       *)
(* nothing of it to restore; or a dead one that no record waits for.       *)
Stranded ==
    /\ own.pc = "idle"
    /\ \/ \E k \in Present :
            /\ call[k].seized
            /\ \/ /\ call[k].rec = "none"
                  /\ Held(call[k]).life = "zombie" \/ Foreign(call[k])
               \/ ~Dead(call[k].tid) /\ Held(call[k]).hold = "free"
       \/ \E t \in Threads :
            /\ thr[t].life = "zombie"
            /\ ~(sys.on /\ sys.tid = t)
            /\ \A k \in Present : call[k].tid = t => ~call[k].seized

(* Shutdown ends: every record is finished, so every frame is unmapped and *)
(* every thread given back, before the owner thread returns.               *)
Drains ==
    [](own.stop /\ []~(Undecided \/ Stranded) => <>(own.pc = "exited"))

(* What was begun ends.                                                    *)
CallsEnd == CallsAnswered /\ Drains

(* A pthread handle somebody must join or detach has a record that will.   *)
HandlesSettled ==
    proc.execing = None =>
      \A k \in Calls : proc.handle[k] = "live" => call[k].at # "none"

(* Whatever was taken from the target is known to somebody who will give   *)
(* it back: mappings, attachments and thread handles.                      *)
NothingForgotten == TypeOK /\ FramesOwned /\ AttachmentsOwned /\ HandlesSettled

(* No thread runs unmapped code, and none is given back with the call's    *)
(* registers.                                                              *)
ThreadsKept == CodeNeverUnmapped /\ ContextReturned

(* Whatever a call leaves unfinished is owned by somebody, and no thread   *)
(* pays for it.                                                            *)
CallsSound == NothingForgotten /\ ThreadsKept
=============================================================================
