-------------------------- MODULE NativeCallProofs --------------------------
(***************************************************************************)
(* TypeOK and ProgramKept of NativeCall for any number of threads, calls   *)
(* and frames, and any number of failures, exits and execs.                *)
(*                                                                         *)
(* ProgramKept says that no step unmaps what the program that is running   *)
(* put into memory itself.  What a step unmaps is the frame of a record, or*)
(* the service's own mapping, and the code compares only the image the     *)
(* record was made in: so it must be known that a record with something to *)
(* unmap has an image (Bound), which in turn depends on where in the code  *)
(* the owner is (Placed), and that a new program makes every earlier       *)
(* record's image a past one.                                              *)
(***************************************************************************)
EXTENDS NativeCall, SequenceTheorems, WellFoundedInduction, TLAPS

States == Kinds \cup {"idle", "held", "done", "error", "released", "expired"}

(* An invoke job's caller waits with the kind of its call.                 *)
Waits(j) == j.op = "invoke" => j.k \in Calls /\ client[j.k] \in Kinds

(* Every call has at most one job.                                         *)
JobsOK ==
    /\ \A i \in DOMAIN jobs : Waits(jobs[i])
    /\ Waits(own.job)
    /\ \A i \in DOMAIN jobs : \A j \in DOMAIN jobs :
         i # j /\ jobs[i].op = "invoke" /\ jobs[j].op = "invoke"
           => jobs[i].k # jobs[j].k
    /\ \A i \in DOMAIN jobs :
         jobs[i].op = "invoke" /\ own.job.op = "invoke" => jobs[i].k # own.job.k

(* Places of the code at which a record is known to have an image.         *)
InImage == {"map", "stage", "call", "await", "orphan", "start"}

(* Where prepare() and bindMemory(), and a function call, go back to.       *)
Returns == {"map", "output", "unmap", "orphan", "image", "reclaim"}
CallReturns == {"main", "start", "unmap"}

(* Where the owner is, and where it goes back to.                          *)
Placed ==
    /\ own.by \in {"run", "cleanup"} =>
         /\ own.pc \in Working
         /\ own.job.op = "invoke" /\ own.k = own.job.k
    /\ own.pc \in {"prepare", "stop", "eligible", "bind"} => own.ret \in Returns
    /\ own.pc \in {"call", "await"} => own.ret \in CallReturns
    /\ own.pc \in InImage => call[own.k].image # 0
    /\ own.pc \in {"stop", "eligible"} => call[own.k].tid \in Threads

(* What a record would unmap is not the running program's.                 *)
Fits(x, p) ==
    /\ x.image <= p.image
    /\ x.frame # 0 \/ x.completed \/ x.rec \in {"function", "orphan"}
         => x.image # 0
    /\ x.frame # 0 /\ x.image = p.image => x.frame \notin p.theirs

SysFits(r, p) ==
    /\ r.image <= p.image
    /\ r.alloc # 0 => r.image # 0
    /\ r.alloc # 0 /\ r.image = p.image => r.alloc \notin p.theirs

Bound ==
    /\ proc.execing # None => proc.image = 1
    /\ \A k \in Calls : Fits(call[k], proc)
    /\ SysFits(sys, proc)

IInv == TypeOK /\ JobsOK /\ Placed /\ Bound

-----------------------------------------------------------------------------
(* The least element of a nonempty set of numbers is in it.                *)
LEMMA LeastIsIn ==
    ASSUME NEW S, S \subseteq Nat, S # {}
    PROVE  Min(S) \in S
<1> DEFINE less == OpToRel(<, Nat)
<1>1. PICK r \in S : \A q \in S : ~ (<<q, r>> \in less)
  <2>1. IsWellFoundedOn(less, Nat)
    BY NatLessThanWellFounded DEF less
  <2> HIDE DEF less
  <2> QED BY <2>1, WFMin
<1>2. \A q \in S : r <= q
  <2> SUFFICES ASSUME NEW q \in S PROVE r <= q
    OBVIOUS
  <2>1. q \in Nat /\ r \in Nat
    OBVIOUS
  <2>2. ~ (q < r)
    BY <1>1, <2>1 DEF OpToRel
  <2> HIDE DEF less
  <2> QED BY <2>1, <2>2
<1> QED BY <1>2, Zenon DEF Min

(* A member of the process can always be named.                            *)
LEMMA MemoryTaskIsThread == MemoryTask \in Threads
<1>1. CASE \E t \in Threads : ~Dead(t)
  BY <1>1, TargetConstants, Zenon DEF MemoryTask
<1>2. CASE \A t \in Threads : Dead(t)
  BY <1>2, TargetConstants, Zenon DEF MemoryTask
<1> QED BY <1>1, <1>2

-----------------------------------------------------------------------------
(* The target.                                                             *)

LEMMA SpendTypes ==
    ASSUME left \in [Events -> Nat], NEW e \in Events, Spend(e)
    PROVE  left' \in [Events -> Nat]
BY DEF Spend

LEMMA DiedTypes ==
    ASSUME NEW th \in Thread
    PROVE  Died(th) \in Thread
BY DEF Died, Thread

LEMMA FreshTypes == FreshThread \in Thread /\ Reaped \in Thread
BY DEF FreshThread, Reaped, Thread

LEMMA WaitedTypes ==
    ASSUME thr \in [Threads -> Thread], NEW t
    PROVE  Waited(t) \in [Threads -> Thread]
BY FreshTypes DEF Waited

(* What a step of the target leaves of its types, image and mappings.      *)
TargetKeeps ==
    /\ TargetTypeOK'
    /\ proc'.execing # None => proc'.image = 1
    /\ \/ proc'.image = proc.image /\ proc'.theirs = proc.theirs
       \/ proc.image = 1 /\ proc'.image = 2

LEMMA ThreadStep ==
    ASSUME TargetTypeOK, NEW t \in Threads, NEW th \in Thread,
           thr' = [thr EXCEPT ![t] = th], UNCHANGED proc,
           left' \in [Events -> Nat], proc.execing # None => proc.image = 1
    PROVE  TargetKeeps
BY DEF TargetKeeps, TargetTypeOK, Process

LEMMA TargetStep ==
    ASSUME TargetTypeOK, TargetNext, proc.execing # None => proc.image = 1
    PROVE  TargetKeeps
<1> USE DEF TargetTypeOK
<1>1. ASSUME NEW t \in Threads, Park(t) PROVE TargetKeeps
  <2>1. left' \in [Events -> Nat]
    BY <1>1, SpendTypes DEF Park, Events
  <2>2. [thr[t] EXCEPT !.life = "park"] \in Thread
    BY DEF Thread
  <2>3. thr' = [thr EXCEPT ![t] = [thr[t] EXCEPT !.life = "park"]]
    BY <1>1 DEF Park
  <2> QED BY <1>1, <2>1, <2>2, <2>3, ThreadStep DEF Park
<1>2. ASSUME NEW t \in Threads, Unpark(t) PROVE TargetKeeps
  <2>2. [thr[t] EXCEPT !.life = "run"] \in Thread
    BY DEF Thread
  <2>3. thr' = [thr EXCEPT ![t] = [thr[t] EXCEPT !.life = "run"]]
    BY <1>2 DEF Unpark
  <2> QED BY <1>2, <2>2, <2>3, ThreadStep DEF Unpark
<1>3. ASSUME NEW t \in Threads, ThreadExit(t) PROVE TargetKeeps
  <2>1. left' \in [Events -> Nat]
    BY <1>3, SpendTypes DEF ThreadExit, Events
  <2>2. Died(thr[t]) \in Thread
    BY DiedTypes
  <2>3. thr' = [thr EXCEPT ![t] = Died(thr[t])]
    BY <1>3 DEF ThreadExit
  <2> QED BY <1>3, <2>1, <2>2, <2>3, ThreadStep DEF ThreadExit
<1>4. ASSUME NEW t \in Threads, ExecStart(t) PROVE TargetKeeps
  <2>1. left' \in [Events -> Nat]
    BY <1>4, SpendTypes DEF ExecStart, Events
  <2>2. [thr[t] EXCEPT !.life = "park"] \in Thread
    BY DEF Thread
  <2>3. thr' \in [Threads -> Thread]
    BY <1>4, <2>2, DiedTypes DEF ExecStart
  <2>4. /\ proc' \in Process /\ proc'.image = proc.image
        /\ proc'.theirs = proc.theirs /\ proc.image = 1
    BY <1>4 DEF ExecStart, Process
  <2> QED BY <2>1, <2>3, <2>4 DEF TargetKeeps
<1>5. ASSUME NEW t \in Threads, FunctionReturns(t) PROVE TargetKeeps
  <2>1. PICK v \in {"ok", "bad"} :
          thr' = [thr EXCEPT ![t].hold = "stopped", ![t].regs = "trap",
                             ![t].val = v]
    BY <1>5 DEF FunctionReturns
  <2>2. [thr[t] EXCEPT !.hold = "stopped", !.regs = "trap", !.val = v] \in Thread
    BY ZenonT(60) DEF Thread
  <2>3. thr' \in [Threads -> Thread]
    BY <2>1, <2>2
  <2>4. /\ proc' \in Process /\ proc'.image = proc.image
        /\ proc'.theirs = proc.theirs /\ proc'.execing = proc.execing
    <3> DEFINE k == thr[t].k
    <3>1. thr[t].frame \in Frames \cup {0}
      BY DEF Thread
    <3>2. [proc EXCEPT !.handle[k] = "live"] \in Process
      BY DEF Process
    <3>3. [proc EXCEPT !.handle[k] = "live", !.worker[k] = "ready",
                       !.wframe[k] = thr[t].frame] \in Process
      BY <3>1 DEF Process
    <3>4. [proc EXCEPT !.handle[k] = "done"] \in Process
      BY DEF Process
    <3>5. \/ proc' = proc
          \/ proc' = [proc EXCEPT !.handle[k] = "live"]
          \/ proc' = [proc EXCEPT !.handle[k] = "live", !.worker[k] = "ready",
                                  !.wframe[k] = thr[t].frame]
          \/ proc' = [proc EXCEPT !.handle[k] = "done"]
      BY <1>5 DEF FunctionReturns
    <3>6. CASE proc' = proc
      BY <3>6
    <3>7. CASE proc' = [proc EXCEPT !.handle[k] = "live"]
      BY <3>7, <3>2 DEF Process
    <3>8. CASE proc' = [proc EXCEPT !.handle[k] = "live", !.worker[k] = "ready",
                                    !.wframe[k] = thr[t].frame]
      BY <3>8, <3>3 DEF Process
    <3>9. CASE proc' = [proc EXCEPT !.handle[k] = "done"]
      BY <3>9, <3>4 DEF Process
    <3> QED BY <3>5, <3>6, <3>7, <3>8, <3>9
  <2>5. left' = left
    BY <1>5 DEF FunctionReturns
  <2> QED BY <2>3, <2>4, <2>5 DEF TargetKeeps
<1>6. ASSUME NEW t \in Threads, FunctionSignal(t) PROVE TargetKeeps
  <2>1. left' \in [Events -> Nat]
    BY <1>6, SpendTypes DEF FunctionSignal, Events
  <2>2. [thr[t] EXCEPT !.hold = "stopped", !.regs = "sig"] \in Thread
    BY ZenonT(60) DEF Thread
  <2>3. thr' = [thr EXCEPT ![t] = [thr[t] EXCEPT !.hold = "stopped",
                                                 !.regs = "sig"]]
    BY <1>6 DEF FunctionSignal
  <2> QED BY <1>6, <2>1, <2>2, <2>3, ThreadStep DEF FunctionSignal
<1>7. ASSUME NEW k \in Calls, WorkerExit(k) PROVE TargetKeeps
  BY <1>7 DEF WorkerExit, TargetKeeps, Process
<1>8. CASE Kill
  <2>1. left' \in [Events -> Nat]
    BY <1>8, SpendTypes DEF Kill, Events
  <2>2. thr' \in [Threads -> Thread]
    BY <1>8, DiedTypes DEF Kill
  <2>3. /\ proc' \in Process /\ proc'.image = proc.image
        /\ proc'.theirs = proc.theirs /\ proc'.execing = None
    BY <1>8 DEF Kill, Process, NoHandles
  <2> QED BY <2>1, <2>2, <2>3 DEF TargetKeeps
<1>9. CASE ExecDone
  <2>1. [FreshThread EXCEPT !.hold = "stopped", !.regs = "exec"] \in Thread
    BY DEF FreshThread, Thread
  <2>2. thr' \in [Threads -> Thread]
    BY <1>9, <2>1, FreshTypes DEF ExecDone
  <2>3. Min(Frames) \in Frames
    BY LeastIsIn, TargetConstants
  <2>4. /\ proc' \in Process /\ proc.image = 1 /\ proc'.image = 2
        /\ proc'.execing = None
    BY <1>9, <2>3 DEF ExecDone, Process, NoHandles
  <2> QED BY <1>9, <2>2, <2>4 DEF TargetKeeps, ExecDone
<1> QED BY <1>1, <1>2, <1>3, <1>4, <1>5, <1>6, <1>7, <1>8, <1>9 DEF TargetNext

-----------------------------------------------------------------------------
(* The owner's record, its place and its jobs.                             *)

(* What a step of the owner keeps, for the process p it leaves behind.     *)
OwnerKeeps(p) ==
    /\ call' \in [Calls -> CallRecord]
    /\ own' \in Owner
    /\ client' \in [Calls -> States]
    /\ own'.pc \in Working => own'.k \in Present'
    /\ JobsOK' /\ Placed'
    /\ \A k \in Calls : Fits(call'[k], p)

LEMMA NoCallTypes ==
    /\ NoCall \in CallRecord /\ NoCall.at = "none" /\ NoCall.image = 0
    /\ \A p : p.image \in {1, 2} => Fits(NoCall, p)
BY DEF NoCall, CallRecord, Fits, Kinds, Recoveries

LEMMA SweptTypes ==
    ASSUME own \in Owner
    PROVE  /\ Swept \in Owner
           /\ Swept.pc = "next" /\ Swept.by = "sweep"
           /\ Swept.job = NoJob /\ NoJob.op = "none"
<1>1. Present \subseteq Calls
  BY DEF Present
<1>2. NoJob \in Job /\ NoJob.op = "none"
  BY DEF NoJob, Job
<1> QED BY <1>1, <1>2 DEF Swept, Owner

(* The jobs and what their callers know are left alone.                    *)
LEMMA JobsStay ==
    ASSUME JobsOK, jobs' = jobs, client' = client,
           own'.job = own.job \/ own'.job.op # "invoke"
    PROVE  JobsOK'
BY DEF JobsOK, Waits

(* The current job's caller is answered, and the job is over.              *)
LEMMA AnswerKeeps ==
    ASSUME TypeOK, JobsOK, jobs' = jobs, own'.job.op # "invoke",
           NEW how \in {"held", "done", "error"},
           Answer(own.job.k, how)
    PROVE  JobsOK' /\ client' \in [Calls -> States]
<1>0. client \in [Calls -> States] /\ own \in Owner /\ jobs \in Seq(Job)
  BY DEF TypeOK, States
<1>1. CASE own.job.op # "invoke"
  <2>1. client' = client
    BY <1>1 DEF Answer
  <2> QED BY <2>1, <1>0, JobsStay
<1>2. CASE own.job.op = "invoke"
  <2>1. client' = [client EXCEPT ![own.job.k] = how] /\ own.job.k \in Calls
    BY <1>2 DEF Answer, JobsOK, Waits
  <2>2. client' \in [Calls -> States]
    BY <1>0, <2>1 DEF States
  <2>3. ASSUME NEW j, Waits(j), j.op = "invoke" => j.k # own.job.k
        PROVE  Waits(j)'
    BY <1>0, <2>1, <2>3 DEF Waits
  <2>4. \A i \in DOMAIN jobs : Waits(jobs[i])'
    BY <1>2, <2>3 DEF JobsOK
  <2> QED BY <2>2, <2>4 DEF JobsOK, Waits
<1> QED BY <1>1, <1>2

(* A record of the current call is put into its place.                     *)
LEMMA PlaceKeeps ==
    ASSUME call \in [Calls -> CallRecord], NEW p,
           \A k \in Calls : Fits(call[k], p),
           NEW x \in CallRecord, Fits(x, p), Place(x)
    PROVE  /\ call' \in [Calls -> CallRecord]
           /\ \A k \in Calls : Fits(call'[k], p)
           /\ own.k \in Calls => call'[own.k] = x
BY Zenon DEF Place

LEMMA CurrentCall ==
    ASSUME TypeOK, own.pc \in Working
    PROVE  own.k \in Calls /\ c \in CallRecord /\ c.at # "none"
BY DEF TypeOK, Present, c

LEMMA PlaceOfNone ==
    ASSUME TypeOK, call' = call
    PROVE  Place(c)
BY DEF TypeOK, Place, c

(* The owner goes on with the record it works on.                          *)
LEMMA MoveKeeps ==
    ASSUME TypeOK, JobsOK, Placed, own.pc \in Working, NEW p,
           \A k \in Calls : Fits(call[k], p),
           NEW x \in CallRecord, x.at # "none", Fits(x, p), Place(x),
           own' \in Owner, own'.pc \in Working,
           own'.k = own.k, own'.by = own.by \/ (own'.by = "cleanup" /\ own.by = "run"),
           own'.job = own.job,
           client' = client, jobs' = jobs,
           own'.pc \in {"prepare", "stop", "eligible", "bind"}
             => own'.ret \in Returns,
           own'.pc \in {"call", "await"} => own'.ret \in CallReturns,
           own'.pc \in InImage => x.image # 0,
           own'.pc \in {"stop", "eligible"} => x.tid \in Threads
    PROVE  OwnerKeeps(p)
<1>0. own.k \in Calls
  BY CurrentCall
<1>1. call \in [Calls -> CallRecord] /\ client' \in [Calls -> States]
  BY DEF TypeOK, States
<1>2. /\ call' \in [Calls -> CallRecord]
      /\ \A k \in Calls : Fits(call'[k], p)
      /\ call'[own'.k] = x
  BY <1>0, <1>1, PlaceKeeps
<1>3. own'.k \in Present'
  BY <1>0, <1>2 DEF Present
<1>4. JobsOK'
  BY JobsStay
<1>5. Placed'
  BY <1>2 DEF Placed
<1> QED BY <1>1, <1>2, <1>3, <1>4, <1>5 DEF OwnerKeeps

(* The job is over, and the record is placed or dropped.                   *)
LEMMA SweptKeeps ==
    ASSUME TypeOK, JobsOK, NEW p,
           \A k \in Calls : Fits(call[k], p),
           NEW x \in CallRecord, Fits(x, p), Place(x),
           own' = Swept, jobs' = jobs,
           NEW how \in {"held", "done", "error"}, Answer(own.job.k, how)
    PROVE  OwnerKeeps(p)
<1>1. call \in [Calls -> CallRecord] /\ own \in Owner
  BY DEF TypeOK
<1>2. /\ own' \in Owner /\ own'.pc = "next" /\ own'.by = "sweep"
      /\ own'.job.op = "none"
  BY <1>1, SweptTypes
<1>3. JobsOK' /\ client' \in [Calls -> States]
  BY <1>2, AnswerKeeps
<1>4. Placed' /\ own'.pc \notin Working
  BY <1>2 DEF Placed, Working, InImage
<1> QED BY <1>1, <1>2, <1>3, <1>4, PlaceKeeps DEF OwnerKeeps

LEMMA SettledTypes ==
    ASSUME NEW x \in CallRecord, NEW p, Fits(x, p), p.image \in {1, 2}, NEW done
    PROVE  Settled(x, done) \in CallRecord /\ Fits(Settled(x, done), p)
<1>1. [x EXCEPT !.at = "lease", !.workerOwned = TRUE] \in CallRecord
  BY DEF CallRecord
<1>2. Fits([x EXCEPT !.at = "lease", !.workerOwned = TRUE], p)
  BY DEF Fits, CallRecord
<1> QED BY <1>1, <1>2, NoCallTypes DEF Settled

(* finish() or run() is left: the record is placed as it stands, finished, *)
(* or leased, and the owner goes on with a job, a sweep or the clean-up.   *)
LEMMA LeaveKeeps ==
    ASSUME TypeOK, JobsOK, Placed, own.pc \in Working,
           NEW p, p.image \in {1, 2},
           \A k \in Calls : Fits(call[k], p),
           NEW x \in CallRecord, x.at # "none", Fits(x, p),
           NEW err, NEW done, Leave(x, err, done), jobs' = jobs
    PROVE  OwnerKeeps(p)
<1>0. /\ own.k \in Calls /\ call \in [Calls -> CallRecord] /\ own \in Owner
      /\ client \in [Calls -> States]
  BY CurrentCall DEF TypeOK, States
<1> DEFINE aband == [x EXCEPT !.abandoned = TRUE]
<1>a. aband \in CallRecord /\ aband.at # "none" /\ Fits(aband, p)
  BY DEF Fits, CallRecord
<1>b. ASSUME own.by \in {"run", "cleanup"} PROVE own.k = own.job.k
  BY <1>b DEF Placed
<1> HIDE DEF aband
<1>1. CASE own.by = "run" /\ err = "ok"
  <2> DEFINE leased == x.kind # "plain" /\ x.completed /\ x.ok /\ x.outputRead
             lease == [x EXCEPT !.at = "lease",
                                !.workerOwned = (x.kind = "worker")]
  <2>1. lease \in CallRecord /\ Fits(lease, p)
    BY DEF Fits, CallRecord
  <2>2. Delivered(x)
    BY <1>1 DEF Leave
  <2>3. /\ Place(IF leased THEN lease ELSE NoCall)
        /\ Answer(own.k, IF leased THEN "held" ELSE "done")
        /\ own' = [Swept EXCEPT !.todo = Present]
    BY <2>2 DEF Delivered
  <2>4. [Swept EXCEPT !.todo = Present] = Swept
    BY DEF Swept
  <2> HIDE DEF leased, lease
  <2>5. own' = Swept
    BY <2>3, <2>4
  <2>6. (IF leased THEN lease ELSE NoCall) \in CallRecord
        /\ Fits(IF leased THEN lease ELSE NoCall, p)
    BY <2>1, NoCallTypes
  <2>7. (IF leased THEN "held" ELSE "done") \in {"held", "done", "error"}
    OBVIOUS
  <2>8. Answer(own.job.k, IF leased THEN "held" ELSE "done")
    BY <1>1, <1>b, <2>3
  <2> QED BY <2>3, <2>5, <2>6, <2>7, <2>8, SweptKeeps
<1>2. CASE own.by = "run" /\ err # "ok" /\ x.rec \in {"none", "memory"}
  <2>1. /\ Place(aband) /\ client' = client
        /\ own' = [own EXCEPT !.by = "cleanup", !.pc = "finish"]
    BY <1>2 DEF Leave, aband
  <2>2. /\ own' \in Owner /\ own'.pc = "finish" /\ own'.k = own.k
        /\ own'.by = "cleanup" /\ own'.job = own.job
    BY <2>1, <1>0 DEF Owner, Working
  <2>3. own'.pc \in Working /\ own'.pc \notin InImage
    BY <2>2 DEF Working, InImage
  <2> QED BY <1>2, <1>a, <2>1, <2>2, <2>3, MoveKeeps
<1>3. CASE own.by = "run" /\ err # "ok" /\ x.rec \notin {"none", "memory"}
  <2>1. Place(aband) /\ Answer(own.k, "error") /\ own' = Swept
    BY <1>3 DEF Leave, aband
  <2>2. Answer(own.job.k, "error")
    BY <1>3, <1>b, <2>1
  <2> QED BY <1>a, <2>1, <2>2, SweptKeeps
<1>4. CASE own.by = "cleanup"
  <2> DEFINE y == Settled(x, done \/ err = "gone")
  <2>1. Place(y) /\ Answer(own.k, "error") /\ own' = Swept
    BY <1>4 DEF Leave
  <2>2. Answer(own.job.k, "error")
    BY <1>4, <1>b, <2>1
  <2>3. y \in CallRecord /\ Fits(y, p)
    BY SettledTypes
  <2> HIDE DEF y
  <2> QED BY <2>1, <2>2, <2>3, SweptKeeps
<1>5. CASE /\ own.by = "recover" /\ err # "ok"
           /\ x.workerOwned => OwnsStop(x)
  <2> DEFINE y == Settled(x, done)
  <2>1. Place(y) /\ Answer(own.job.k, "error") /\ own' = Swept
    BY <1>5 DEF Leave
  <2>3. y \in CallRecord /\ Fits(y, p)
    BY SettledTypes
  <2> HIDE DEF y
  <2> QED BY <2>1, <2>3, SweptKeeps
<1>6. CASE /\ own.by \notin {"run", "cleanup"}
           /\ ~(own.by = "recover" /\ err # "ok" /\ (x.workerOwned => OwnsStop(x)))
  <2> DEFINE y == Settled(x, done)
             rest == IF c.at = "calls" /\ y.at = "lease"
                     THEN own.todo ELSE own.todo \ {own.k}
  <2>1. /\ Place(y) /\ client' = client
        /\ own' = [own EXCEPT !.pc = "next", !.k = 0, !.fin = "ok",
                              !.todo = rest]
    BY <1>6 DEF Leave
  <2>2. rest \subseteq Calls
    BY <1>0 DEF Owner
  <2>3. y \in CallRecord /\ Fits(y, p)
    BY SettledTypes
  <2> HIDE DEF y, rest
  <2>4. /\ own' \in Owner /\ own'.pc = "next" /\ own'.by = own.by
        /\ own'.job = own.job
    BY <1>0, <2>1, <2>2 DEF Owner
  <2>5. Placed' /\ own'.pc \notin Working
    BY <1>6, <2>4 DEF Placed, Working, InImage
  <2>6. JobsOK'
    BY <2>1, <2>4, JobsStay
  <2> QED BY <1>0, <2>1, <2>3, <2>4, <2>5, <2>6, PlaceKeeps DEF OwnerKeeps
<1> QED BY <1>0, <1>1, <1>2, <1>3, <1>4, <1>5, <1>6 DEF Owner

(* Steps on a record that leave the process, the service's record, the     *)
(* jobs and what was given alone.                                          *)
LEMMA RecordStep ==
    ASSUME IInv, OwnerKeeps(proc), thr' \in [Threads -> Thread],
           left' \in [Events -> Nat], UNCHANGED <<proc, sys, jobs, given>>
    PROVE  IInv'
<1>1. TypeOK'
  BY DEF IInv, TypeOK, TargetTypeOK, OwnerKeeps, States
<1>2. Bound'
  BY DEF IInv, Bound, OwnerKeeps, Fits, SysFits
<1> QED BY <1>1, <1>2 DEF IInv, OwnerKeeps

LEMMA Current ==
    ASSUME IInv, own.pc \in Working
    PROVE  /\ own \in Owner /\ own.k \in Calls /\ c \in CallRecord
           /\ c.at # "none" /\ Fits(c, proc)
           /\ proc.image \in {1, 2} /\ proc \in Process
           /\ thr \in [Threads -> Thread] /\ left \in [Events -> Nat]
           /\ own.pc \in InImage => c.image # 0
           /\ own.pc \in {"stop", "eligible"} => c.tid \in Threads
BY CurrentCall DEF IInv, TypeOK, TargetTypeOK, Process, Bound, Placed, c

LEMMA LeaveStep ==
    ASSUME IInv, own.pc \in Working,
           NEW x \in CallRecord, x.at # "none", Fits(x, proc),
           NEW err, NEW done, Leave(x, err, done), jobs' = jobs
    PROVE  OwnerKeeps(proc)
BY Current, LeaveKeeps DEF IInv, Bound

LEMMA MoveStep ==
    ASSUME IInv, own.pc \in Working,
           NEW x \in CallRecord, x.at # "none", Fits(x, proc), Place(x),
           own' \in Owner, own'.pc \in Working, own'.k = own.k,
           own'.by = own.by, own'.job = own.job,
           client' = client, jobs' = jobs,
           own'.pc \in {"prepare", "stop", "eligible", "bind"}
             => own'.ret \in Returns,
           own'.pc \in {"call", "await"} => own'.ret \in CallReturns,
           own'.pc \in InImage => x.image # 0,
           own'.pc \in {"stop", "eligible"} => x.tid \in Threads
    PROVE  OwnerKeeps(proc)
<1>1. TypeOK /\ JobsOK /\ Placed /\ \A k \in Calls : Fits(call[k], proc)
  BY DEF IInv, Bound
<1>2. own'.by = own.by \/ (own'.by = "cleanup" /\ own.by = "run")
  OBVIOUS
<1> QED BY <1>1, <1>2, MoveKeeps, Zenon

LEMMA MoveOnly ==
    ASSUME IInv, own.pc \in Working, call' = call,
           own' \in Owner, own'.pc \in Working, own'.k = own.k,
           own'.by = own.by, own'.job = own.job,
           client' = client, jobs' = jobs,
           own'.pc \in {"prepare", "stop", "eligible", "bind"}
             => own'.ret \in Returns,
           own'.pc \in {"call", "await"} => own'.ret \in CallReturns,
           own'.pc \in InImage => c.image # 0,
           own'.pc \in {"stop", "eligible"} => c.tid \in Threads
    PROVE  OwnerKeeps(proc)
<1>1. Place(c)
  BY PlaceOfNone DEF IInv
<1> QED BY <1>1, Current, MoveStep

(* retire(): whatever the record had is the old program's.                 *)
LEMMA RetireStep ==
    ASSUME IInv, own.pc \in Working,
           NEW x \in CallRecord, x.at # "none", Fits(x, proc),
           Retire(x), jobs' = jobs
    PROVE  OwnerKeeps(proc)
<1> DEFINE tid == IF Adopts(x) THEN Leader ELSE x.tid
           stopped == x.stopped \/ Adopts(x)
           fin == IF InFinish(x) THEN "retired" ELSE "canceled"
           y == [x EXCEPT !.retired = TRUE, !.frame = 0, !.rec = "none",
                          !.affinityPending = FALSE, !.exited = TRUE,
                          !.tid = tid, !.stopped = stopped]
<1>1. /\ tid \in Threads \cup {None} /\ stopped \in BOOLEAN
      /\ fin \in {"retired", "canceled"}
  BY TargetConstants DEF CallRecord
<1>3. /\ Place(y) /\ client' = client
      /\ own' = [own EXCEPT !.pc = "detach", !.fin = fin]
  BY DEF Retire
<1> HIDE DEF tid, stopped, fin
<1>2. y \in CallRecord /\ y.at # "none" /\ Fits(y, proc)
  BY <1>1 DEF CallRecord, Fits, Recoveries
<1> HIDE DEF y
<1>4. /\ own' \in Owner /\ own'.pc = "detach" /\ own'.k = own.k
      /\ own'.by = own.by /\ own'.job = own.job
  <2>1. own \in Owner
    BY Current
  <2>2. "detach" \in Working
    BY DEF Working
  <2> QED BY <1>1, <1>3, <2>1, <2>2 DEF Owner
<1>5. own'.pc \in Working /\ own'.pc \notin InImage
  BY <1>4 DEF Working, InImage
<1> QED BY <1>2, <1>3, <1>4, <1>5, MoveStep

(* Threads whose registers or hold a step changes stay threads.            *)
LEMMA HoldTypes ==
    ASSUME thr \in [Threads -> Thread], NEW t,
           NEW h \in {"free", "seized", "stopped"}
    PROVE  [thr EXCEPT ![t].hold = h] \in [Threads -> Thread]
<1>1. ASSUME t \in Threads PROVE [thr[t] EXCEPT !.hold = h] \in Thread
  BY <1>1 DEF Thread
<1> QED BY <1>1

LEMMA ContextTypes ==
    ASSUME thr \in [Threads -> Thread], NEW t,
           NEW h \in {"free", "seized", "stopped"},
           NEW r \in {"own", "lent", "call", "trap", "sig", "exec"}
    PROVE  [thr EXCEPT ![t].hold = h, ![t].regs = r] \in [Threads -> Thread]
<1>1. ASSUME NEW th \in Thread
      PROVE  [th EXCEPT !.hold = h, !.regs = r] \in Thread
  <2>1. [th EXCEPT !.hold = h] \in Thread
    BY DEF Thread
  <2>2. ASSUME NEW u \in Thread PROVE [u EXCEPT !.regs = r] \in Thread
    BY DEF Thread
  <2>3. [th EXCEPT !.hold = h, !.regs = r]
          = [[th EXCEPT !.hold = h] EXCEPT !.regs = r]
    BY DEF Thread
  <2> QED BY <2>1, <2>2, <2>3
<1> QED BY <1>1

LEMMA LentTypes ==
    ASSUME thr \in [Threads -> Thread], NEW t
    PROVE  Lent(t) \in [Threads -> Thread]
BY ContextTypes DEF Lent

LEMMA RestoredTypes ==
    ASSUME thr \in [Threads -> Thread], NEW t
    PROVE  [thr EXCEPT ![t] = Restored(@)] \in [Threads -> Thread]
<1>1. ASSUME t \in Threads PROVE Restored(thr[t]) \in Thread
  BY <1>1 DEF Thread, Restored, FreshThread
<1> QED BY <1>1

(* What a returned function tells its record does not move it.             *)
LEMMA ReturnedTypes ==
    ASSUME NEW x \in CallRecord, x.at # "none", Fits(x, proc), NEW th
    PROVE  /\ Returned(x, th) \in CallRecord /\ Returned(x, th).at # "none"
           /\ Fits(Returned(x, th), proc)
           /\ Returned(x, th).image = x.image
<1> DEFINE y == [x EXCEPT !.completed = TRUE, !.ok = (th.val = "ok")]
<1>1. CASE x.rec = "orphan"
  BY <1>1 DEF Returned, CallRecord, Fits
<1>2. CASE x.rec = "function"
  <2>1. Returned(x, th) = y
    BY <1>2 DEF Returned
  <2>2. y \in CallRecord /\ y.at # "none" /\ Fits(y, proc) /\ y.image = x.image
    BY <1>2 DEF CallRecord, Fits
  <2> QED BY <2>1, <2>2
<1>3. CASE x.rec \notin {"orphan", "function"}
  BY <1>3 DEF Returned
<1> QED BY <1>1, <1>2, <1>3

(* The owner goes to another place of the code for the same record.        *)
Goes(pc, ret) ==
    /\ own' \in Owner /\ own'.pc = pc /\ own'.ret = ret /\ own'.k = own.k
    /\ own'.by = own.by /\ own'.job = own.job

LEMMA GoesTo ==
    ASSUME own \in Owner, NEW pc \in Working
    PROVE  /\ own' = [own EXCEPT !.pc = pc] => Goes(pc, own.ret)
           /\ \A fin \in {"ok", "canceled", "retired", "refused"} :
                own' = [own EXCEPT !.pc = pc, !.fin = fin] => Goes(pc, own.ret)
           /\ \A tried \in SUBSET Threads :
                own' = [own EXCEPT !.pc = pc, !.tried = tried]
                  => Goes(pc, own.ret)
           /\ \A ret \in Working \cup {"none", "main"} :
                own' = [own EXCEPT !.pc = pc, !.ret = ret] => Goes(pc, ret)
           /\ \A ret \in Working \cup {"none", "main"} : \A tried \in SUBSET Threads :
                own' = [own EXCEPT !.pc = pc, !.ret = ret, !.tried = tried]
                  => Goes(pc, ret)
<1>1. own' = [own EXCEPT !.pc = pc] => Goes(pc, own.ret)
  BY DEF Owner, Goes
<1>2. ASSUME NEW fin \in {"ok", "canceled", "retired", "refused"},
             own' = [own EXCEPT !.pc = pc, !.fin = fin]
      PROVE  Goes(pc, own.ret)
  BY <1>2 DEF Owner, Goes
<1>3. ASSUME NEW tried \in SUBSET Threads,
             own' = [own EXCEPT !.pc = pc, !.tried = tried]
      PROVE  Goes(pc, own.ret)
  BY <1>3 DEF Owner, Goes
<1>4. ASSUME NEW ret \in Working \cup {"none", "main"},
             own' = [own EXCEPT !.pc = pc, !.ret = ret]
      PROVE  Goes(pc, ret)
  BY <1>4 DEF Owner, Goes
<1>5. ASSUME NEW ret \in Working \cup {"none", "main"},
             NEW tried \in SUBSET Threads,
             own' = [own EXCEPT !.pc = pc, !.ret = ret, !.tried = tried]
      PROVE  Goes(pc, ret)
  BY <1>5 DEF Owner, Goes
<1> QED BY <1>1, <1>2, <1>3, <1>4, <1>5

LEMMA GoesStep ==
    ASSUME IInv, own.pc \in Working,
           NEW x \in CallRecord, x.at # "none", Fits(x, proc), Place(x),
           NEW pc \in Working, NEW ret, Goes(pc, ret),
           pc \in {"prepare", "stop", "eligible", "bind"} => ret \in Returns,
           pc \in {"call", "await"} => ret \in CallReturns,
           pc \in InImage => x.image # 0,
           pc \in {"stop", "eligible"} => x.tid \in Threads,
           UNCHANGED <<proc, sys, jobs, client, given>>,
           thr' \in [Threads -> Thread], left' \in [Events -> Nat]
    PROVE  IInv'
<1>1. OwnerKeeps(proc)
  BY MoveStep DEF Goes
<1> QED BY <1>1, RecordStep

LEMMA GoesOnly ==
    ASSUME IInv, own.pc \in Working, call' = call,
           NEW pc \in Working, NEW ret, Goes(pc, ret),
           pc \in {"prepare", "stop", "eligible", "bind"} => ret \in Returns,
           pc \in {"call", "await"} => ret \in CallReturns,
           pc \in InImage => c.image # 0,
           pc \in {"stop", "eligible"} => c.tid \in Threads,
           UNCHANGED <<proc, sys, jobs, client, given>>,
           thr' \in [Threads -> Thread], left' \in [Events -> Nat]
    PROVE  IInv'
<1>1. OwnerKeeps(proc)
  BY MoveOnly DEF Goes
<1> QED BY <1>1, RecordStep

(* A step that leaves the record, with the threads it touched on the way.  *)
LEMMA LeavesStep ==
    ASSUME IInv, own.pc \in Working,
           NEW x \in CallRecord, x.at # "none", Fits(x, proc),
           NEW err, NEW done, Leave(x, err, done),
           UNCHANGED <<proc, sys, jobs, given>>,
           thr' \in [Threads -> Thread], left' \in [Events -> Nat]
    PROVE  IInv'
BY LeaveStep, RecordStep

(* ... because a transfer or a request was refused.                        *)
LEMMA FaultStep ==
    ASSUME IInv, own.pc \in Working, NEW e \in Events, Spend(e),
           NEW err, NEW done, Leave(c, err, done),
           UNCHANGED <<thr, proc, sys, jobs, given>>
    PROVE  IInv'
BY Current, SpendTypes, LeavesStep

-----------------------------------------------------------------------------
(* recovered(), finish() and maintainWorker().                             *)

LEMMA AfterTypes ==
    ASSUME NEW x
    PROVE  AfterRecovery(x) \in {"reclaim", "image"}
BY DEF AfterRecovery

LEMMA NothingToRecoverKeeps == IInv /\ NothingToRecover => IInv'
<1> SUFFICES ASSUME IInv, NothingToRecover PROVE IInv'
  OBVIOUS
<1>1. own.pc \in Working /\ {"bind", "reclaim", "image"} \subseteq Working
      /\ InImage \cap {"reclaim", "image", "bind"} = {}
  BY DEF NothingToRecover, Working, InImage
<1> DEFINE ret == AfterRecovery(c)
           pc == IF c.affinityPending /\ c.seized /\ c.stopped THEN "bind" ELSE ret
<1>2. ret \in {"reclaim", "image"} /\ pc \in {"bind", "reclaim", "image"}
  BY AfterTypes
<1>3. own' = [own EXCEPT !.ret = ret, !.pc = pc]
      /\ UNCHANGED <<thr, proc, left, call, sys, jobs, client, given>>
  BY DEF NothingToRecover
<1> HIDE DEF ret, pc
<1>4. own' = [own EXCEPT !.pc = pc, !.ret = ret]
  BY <1>3
<1>5. Goes(pc, ret)
  BY <1>1, <1>2, <1>4, Current, GoesTo
<1> QED BY <1>1, <1>2, <1>3, <1>5, Current, GoesOnly DEF Returns

LEMMA RecoverKeeps == IInv /\ Recover => IInv'
<1> SUFFICES ASSUME IInv, Recover PROVE IInv'
  OBVIOUS
<1>1. own.pc \in Working /\ {"bind", "reclaim", "image"} \subseteq Working
      /\ InImage \cap {"reclaim", "image", "bind"} = {}
  BY DEF Recover, Working, InImage
<1>2. UNCHANGED <<proc, sys, jobs, given>>
  BY DEF Recover
<1>3. ASSUME thr' = [thr EXCEPT ![c.tid] = Restored(@)],
             Place([Returned(c, Held(c)) EXCEPT !.rec = "none",
                                                !.stopped = TRUE]),
             own' = [own EXCEPT !.ret = AfterRecovery(c),
                       !.pc = IF c.affinityPending THEN "bind"
                              ELSE AfterRecovery(c)],
             UNCHANGED <<left, client>>
      PROVE  IInv'
  <2> DEFINE ret == AfterRecovery(c)
             pc == IF c.affinityPending THEN "bind" ELSE ret
             z == Returned(c, Held(c))
             y == [z EXCEPT !.rec = "none", !.stopped = TRUE]
  <2>1. ret \in {"reclaim", "image"} /\ pc \in {"bind", "reclaim", "image"}
    BY AfterTypes
  <2>2. z \in CallRecord /\ z.at # "none" /\ Fits(z, proc)
    BY <1>1, Current, ReturnedTypes
  <2>3. Place(y) /\ own' = [own EXCEPT !.ret = ret, !.pc = pc]
    BY <1>3
  <2> HIDE DEF ret, pc, z
  <2>4. y \in CallRecord /\ y.at # "none" /\ Fits(y, proc)
    BY <2>2 DEF CallRecord, Fits, Recoveries
  <2> HIDE DEF y
  <2>5. own' = [own EXCEPT !.pc = pc, !.ret = ret]
    BY <2>3
  <2>6. Goes(pc, ret)
    BY <1>1, <2>1, <2>5, Current, GoesTo
  <2>7. thr' \in [Threads -> Thread] /\ left' \in [Events -> Nat]
    BY <1>1, <1>3, Current, RestoredTypes
  <2> QED BY <1>1, <1>2, <1>3, <2>1, <2>3, <2>4, <2>6, <2>7, GoesStep DEF Returns
<1>4. ASSUME Spend("fault"), Leave(c, "other", FALSE), UNCHANGED thr
      PROVE  IInv'
  BY <1>1, <1>2, <1>4, FaultStep DEF Events
<1> QED BY <1>3, <1>4 DEF Recover

LEMMA RecoverRunningKeeps == IInv /\ RecoverRunning => IInv'
<1> SUFFICES ASSUME IInv, RecoverRunning PROVE IInv'
  OBVIOUS
<1>1. own.pc \in Working
  BY DEF RecoverRunning, Working
<1>2. thr' \in [Threads -> Thread] /\ left' \in [Events -> Nat]
  BY <1>1, Current, ContextTypes DEF RecoverRunning
<1> QED BY <1>1, <1>2, Current, LeavesStep DEF RecoverRunning

LEMMA RecoverDeadKeeps == IInv /\ RecoverDead => IInv'
<1> SUFFICES ASSUME IInv, RecoverDead PROVE IInv'
  OBVIOUS
<1>1. own.pc \in Working /\ "image" \in Working /\ "image" \notin InImage
  BY DEF RecoverDead, Working, InImage
<1>2. /\ thr' \in [Threads -> Thread] /\ left' \in [Events -> Nat]
      /\ UNCHANGED <<proc, sys, jobs, given>>
  BY <1>1, Current, WaitedTypes DEF RecoverDead
<1>3. CASE c.workerOwned
  <2> DEFINE y == [c EXCEPT !.rec = "spent"]
  <2>1. y \in CallRecord /\ y.at # "none" /\ Fits(y, proc)
    BY <1>1, Current DEF CallRecord, Fits, Recoveries
  <2>2. Leave(y, "gone", FALSE)
    BY <1>3 DEF RecoverDead
  <2> HIDE DEF y
  <2> QED BY <1>1, <1>2, <2>1, <2>2, LeavesStep
<1>4. CASE ~c.workerOwned
  <2> DEFINE y == [c EXCEPT !.rec = "none", !.seized = FALSE, !.stopped = FALSE]
  <2>1. y \in CallRecord /\ y.at # "none" /\ Fits(y, proc)
    BY <1>1, Current DEF CallRecord, Fits, Recoveries
  <2>2. Place(y) /\ own' = [own EXCEPT !.pc = "image"] /\ client' = client
    BY <1>4 DEF RecoverDead, Goto
  <2>3. Goes("image", own.ret)
    BY <1>1, <2>2, Current, GoesTo
  <2> HIDE DEF y
  <2> QED BY <1>1, <1>2, <2>1, <2>2, <2>3, GoesStep
<1> QED BY <1>3, <1>4

LEMMA RecoverSpentKeeps == IInv /\ RecoverSpent => IInv'
<1> SUFFICES ASSUME IInv, RecoverSpent PROVE IInv'
  OBVIOUS
<1>1. /\ own.pc \in Working /\ {"bind", "reclaim"} \subseteq Working
      /\ {"bind", "reclaim"} \cap InImage = {}
  BY DEF RecoverSpent, Working, InImage
<1> DEFINE y == [c EXCEPT !.rec = "none", !.stopped = TRUE]
           pc == IF c.affinityPending THEN "bind" ELSE "reclaim"
<1>2. y \in CallRecord /\ y.at # "none" /\ Fits(y, proc)
  BY <1>1, Current DEF CallRecord, Fits, Recoveries
<1>3. /\ Place(y) /\ own' = [own EXCEPT !.ret = "reclaim", !.pc = pc]
      /\ UNCHANGED <<thr, proc, left, sys, jobs, client, given>>
  BY DEF RecoverSpent
<1>4. pc \in {"bind", "reclaim"}
  OBVIOUS
<1> HIDE DEF y, pc
<1>5. own' = [own EXCEPT !.pc = pc, !.ret = "reclaim"]
  BY <1>3
<1>6. Goes(pc, "reclaim")
  BY <1>1, <1>4, <1>5, Current, GoesTo
<1> QED BY <1>1, <1>2, <1>3, <1>4, <1>6, Current, GoesStep DEF Returns

LEMMA RecoverExecKeeps == IInv /\ RecoverExec => IInv'
<1> SUFFICES ASSUME IInv, RecoverExec PROVE IInv'
  OBVIOUS
<1>1. own.pc \in Working
  BY DEF RecoverExec, Working
<1>2. OwnerKeeps(proc)
  BY <1>1, Current, RetireStep DEF RecoverExec
<1> QED BY <1>1, <1>2, Current, RecordStep DEF RecoverExec

LEMMA FinishImageKeeps == IInv /\ FinishImage => IInv'
<1> SUFFICES ASSUME IInv, FinishImage PROVE IInv'
  OBVIOUS
<1>1. /\ own.pc \in Working /\ {"detach", "prepare", "output"} \subseteq Working
      /\ {"detach", "prepare", "output"} \cap InImage = {}
  BY DEF FinishImage, Working, InImage
<1>2. /\ UNCHANGED <<thr, proc, left, sys, jobs, given>>
      /\ thr' \in [Threads -> Thread] /\ left' \in [Events -> Nat]
  BY <1>1, Current DEF FinishImage
<1>3. CASE ImageOf(c) = "gone"
  <2> DEFINE y == [c EXCEPT !.exited = TRUE]
  <2>1. y \in CallRecord /\ y.at # "none" /\ Fits(y, proc)
    BY <1>1, Current DEF CallRecord, Fits
  <2>2. Leave(y, "gone", TRUE)
    BY <1>3 DEF FinishImage
  <2> HIDE DEF y
  <2> QED BY <1>1, <1>2, <2>1, <2>2, LeavesStep
<1>4. CASE ImageOf(c) = "canceled"
  <2> DEFINE y == [c EXCEPT !.frame = 0, !.exited = TRUE]
  <2>1. y \in CallRecord /\ y.at # "none" /\ Fits(y, proc)
    BY <1>1, Current DEF CallRecord, Fits
  <2>2. /\ Place(y) /\ client' = client
        /\ own' = [own EXCEPT !.pc = "detach", !.fin = "canceled"]
    BY <1>4 DEF FinishImage
  <2>3. Goes("detach", own.ret)
    BY <1>1, <2>2, Current, GoesTo
  <2> HIDE DEF y
  <2> QED BY <1>1, <1>2, <2>1, <2>2, <2>3, GoesStep
<1>5. CASE ImageOf(c) = "ok" /\ c.seized /\ Held(c).life = "zombie"
  <2>1. Leave(c, "other", FALSE)
    BY <1>5 DEF FinishImage
  <2> QED BY <1>1, <1>2, <2>1, Current, LeavesStep
<1>6. CASE /\ ImageOf(c) \notin {"gone", "canceled"}
           /\ ~(ImageOf(c) = "ok" /\ c.seized /\ Held(c).life = "zombie")
  <2> DEFINE z == [c EXCEPT !.seized = FALSE, !.stopped = FALSE]
             y == IF c.seized /\ Held(c).life = "gone" THEN z ELSE c
             pc == IF ~y.seized /\ y.frame # 0 THEN "prepare" ELSE "output"
  <2>1. z \in CallRecord /\ z.at # "none" /\ Fits(z, proc)
    BY <1>1, Current DEF CallRecord, Fits
  <2>2. /\ Place(y) /\ client' = client
        /\ own' = [own EXCEPT !.pc = pc, !.ret = "output", !.tried = {}]
    BY <1>6 DEF FinishImage
  <2> HIDE DEF z
  <2>3. y \in CallRecord /\ y.at # "none" /\ Fits(y, proc)
    BY <1>1, <2>1, Current
  <2>4. pc \in {"prepare", "output"}
    OBVIOUS
  <2> HIDE DEF y, pc
  <2>5. Goes(pc, "output")
    BY <1>1, <2>2, <2>4, Current, GoesTo
  <2> QED BY <1>1, <1>2, <2>2, <2>3, <2>4, <2>5, GoesStep DEF Returns
<1> QED BY <1>3, <1>4, <1>5, <1>6

LEMMA MaintainWorkerKeeps == IInv /\ MaintainWorker => IInv'
<1> SUFFICES ASSUME IInv, MaintainWorker PROVE IInv'
  OBVIOUS
<1>1. /\ own.pc \in Working /\ {"detach", "finish"} \subseteq Working
      /\ {"detach", "finish"} \cap InImage = {}
  BY DEF MaintainWorker, Working, InImage
<1>2. /\ UNCHANGED <<thr, proc, left, sys, jobs, given>>
      /\ thr' \in [Threads -> Thread] /\ left' \in [Events -> Nat]
  BY <1>1, Current DEF MaintainWorker
<1>3. CASE ImageOf(c) # "ok"
  <2> DEFINE y == [c EXCEPT !.frame = 0, !.exited = TRUE]
  <2>1. y \in CallRecord /\ y.at # "none" /\ Fits(y, proc)
    BY <1>1, Current DEF CallRecord, Fits
  <2>2. /\ Place(y) /\ client' = client
        /\ own' = [own EXCEPT !.pc = "detach", !.fin = "ok"]
    BY <1>3 DEF MaintainWorker
  <2>3. Goes("detach", own.ret)
    BY <1>1, <2>2, Current, GoesTo
  <2> HIDE DEF y
  <2> QED BY <1>1, <1>2, <2>1, <2>2, <2>3, GoesStep
<1>4. CASE ImageOf(c) = "ok" /\ proc.worker[own.k] # "exit"
  <2>1. Leave(c, "ok", FALSE)
    BY <1>4 DEF MaintainWorker
  <2> QED BY <1>1, <1>2, <2>1, Current, LeavesStep
<1>5. CASE ImageOf(c) = "ok" /\ proc.worker[own.k] = "exit"
  <2> DEFINE y == [c EXCEPT !.exited = TRUE]
  <2>1. y \in CallRecord /\ y.at # "none" /\ Fits(y, proc)
    BY <1>1, Current DEF CallRecord, Fits
  <2>2. Place(y) /\ client' = client /\ own' = [own EXCEPT !.pc = "finish"]
    BY <1>5 DEF MaintainWorker, Goto
  <2>3. Goes("finish", own.ret)
    BY <1>1, <2>2, Current, GoesTo
  <2> HIDE DEF y
  <2> QED BY <1>1, <1>2, <2>1, <2>2, <2>3, GoesStep
<1> QED BY <1>3, <1>4, <1>5

LEMMA ReclaimKeeps == IInv /\ Reclaim => IInv'
<1> SUFFICES ASSUME IInv, Reclaim PROVE IInv'
  OBVIOUS
<1>1. /\ own.pc \in Working /\ {"prepare", "unmap"} \subseteq Working
      /\ {"prepare", "unmap"} \cap InImage = {}
  BY DEF Reclaim, Working, InImage
<1> DEFINE pc == IF c.frame # 0 /\ ~c.seized THEN "prepare" ELSE "unmap"
<1>2. /\ UNCHANGED <<thr, proc, left, call, sys, jobs, client, given>>
      /\ own' = [own EXCEPT !.pc = pc, !.ret = "unmap", !.tried = {}]
  BY DEF Reclaim
<1>3. pc \in {"prepare", "unmap"}
  OBVIOUS
<1> HIDE DEF pc
<1>4. Goes(pc, "unmap")
  BY <1>1, <1>2, <1>3, Current, GoesTo
<1> QED BY <1>1, <1>2, <1>3, <1>4, Current, GoesOnly DEF Returns

-----------------------------------------------------------------------------
(* prepare(), stop() and bindMemory().                                     *)

LEMMA PrepareSeizeKeeps ==
    ASSUME IInv, NEW t \in Threads, PrepareSeize(t)
    PROVE  IInv'
<1>1. own.pc \in Working /\ "stop" \in Working /\ "stop" \notin InImage
      /\ own.pc = "prepare"
  BY DEF PrepareSeize, Working, InImage
<1> DEFINE y == [c EXCEPT !.tid = t, !.seized = TRUE, !.stopped = FALSE]
<1>2. /\ y \in CallRecord /\ y.at # "none" /\ Fits(y, proc) /\ y.tid = t
  BY <1>1, Current DEF CallRecord, Fits
<1>3. /\ Place(y) /\ own' = [own EXCEPT !.pc = "stop"]
      /\ thr' = [thr EXCEPT ![t].hold = "seized"]
      /\ UNCHANGED <<proc, left, sys, jobs, client, given>>
  BY DEF PrepareSeize, Goto
<1> HIDE DEF y
<1>4. Goes("stop", own.ret) /\ own.ret \in Returns
  BY <1>1, <1>3, Current, GoesTo DEF IInv, Placed
<1>5. thr' \in [Threads -> Thread] /\ left' \in [Events -> Nat]
  BY <1>1, <1>3, Current, HoldTypes
<1> QED BY <1>1, <1>2, <1>3, <1>4, <1>5, GoesStep

LEMMA PrepareFailsKeeps == IInv /\ PrepareFails => IInv'
<1> SUFFICES ASSUME IInv, PrepareFails PROVE IInv'
  OBVIOUS
<1>1. own.pc \in Working
  BY DEF PrepareFails, Working
<1> QED BY <1>1, Current, LeavesStep DEF PrepareFails

(* The thread is given up for another one.                                 *)
LEMMA TriesNext ==
    ASSUME IInv, own.pc \in {"stop", "eligible"},
           NEW x \in CallRecord, x.at # "none", Fits(x, proc), Place(x),
           own' = TryNext(c.tid),
           UNCHANGED <<proc, sys, jobs, client, given>>,
           thr' \in [Threads -> Thread], left' \in [Events -> Nat]
    PROVE  IInv'
<1>1. /\ own.pc \in Working /\ "prepare" \in Working /\ "prepare" \notin InImage
      /\ own.ret \in Returns
  BY DEF Working, InImage, IInv, Placed
<1>2. own.tried \cup {c.tid} \in SUBSET Threads
  BY <1>1, Current DEF Owner
<1>3. own' = [own EXCEPT !.pc = "prepare", !.tried = own.tried \cup {c.tid}]
  BY DEF TryNext
<1>4. Goes("prepare", own.ret)
  BY <1>1, <1>2, <1>3, Current, GoesTo
<1> QED BY <1>1, <1>4, GoesStep

LEMMA LateTypes ==
    ASSUME left \in [Events -> Nat], NEW t, Late(t)
    PROVE  left' \in [Events -> Nat]
BY SpendTypes DEF Late, Events

LEMMA PrepareStopKeeps == IInv /\ PrepareStop => IInv'
<1> SUFFICES ASSUME IInv, PrepareStop PROVE IInv'
  OBVIOUS
<1>1. own.pc \in Working /\ own.pc = "stop" /\ "eligible" \in Working
      /\ "eligible" \notin InImage /\ own.ret \in Returns
  BY DEF PrepareStop, Working, InImage, IInv, Placed
<1>2. UNCHANGED <<proc, sys, jobs, given>>
  BY DEF PrepareStop
<1> DEFINE t == c.tid
           free == [c EXCEPT !.seized = FALSE]
<1>3. free \in CallRecord /\ free.at # "none" /\ Fits(free, proc)
  BY <1>1, Current DEF CallRecord, Fits
<1>4. ASSUME thr' = Waited(t), Place(free), own' = TryNext(t),
             UNCHANGED <<left, client>>
      PROVE  IInv'
  <2>1. thr' \in [Threads -> Thread] /\ left' \in [Events -> Nat]
    BY <1>1, <1>4, Current, WaitedTypes
  <2> HIDE DEF free
  <2> QED BY <1>1, <1>2, <1>3, <1>4, <2>1, TriesNext
<1>5. ASSUME Leave(c, IF thr[t].life = "gone" THEN "gone" ELSE "other", FALSE),
             UNCHANGED <<thr, left>>
      PROVE  IInv'
  BY <1>1, <1>2, <1>5, Current, LeavesStep
<1>6. ASSUME thr' = [thr EXCEPT ![t].hold = "stopped"],
             Place([c EXCEPT !.stopped = TRUE]), Goto("eligible"),
             UNCHANGED <<left, client>>
      PROVE  IInv'
  <2> DEFINE y == [c EXCEPT !.stopped = TRUE]
  <2>1. /\ y \in CallRecord /\ y.at # "none" /\ Fits(y, proc)
        /\ y.tid \in Threads
    BY <1>1, Current DEF CallRecord, Fits
  <2>2. thr' \in [Threads -> Thread] /\ left' \in [Events -> Nat]
    BY <1>1, <1>6, Current, HoldTypes
  <2>3. Goes("eligible", own.ret)
    BY <1>1, <1>6, Current, GoesTo DEF Goto
  <2>4. Place(y)
    BY <1>6
  <2> HIDE DEF y
  <2> QED BY <1>1, <1>2, <1>6, <2>1, <2>2, <2>3, <2>4, GoesStep
<1>7. ASSUME Spend("busy"), thr' = [thr EXCEPT ![t].hold = "free"],
             Place(free), own' = TryNext(t), UNCHANGED client
      PROVE  IInv'
  <2>1. thr' \in [Threads -> Thread] /\ left' \in [Events -> Nat]
    BY <1>1, <1>7, Current, HoldTypes, SpendTypes DEF Events
  <2> HIDE DEF free
  <2> QED BY <1>1, <1>2, <1>3, <1>7, <2>1, TriesNext
<1>8. ASSUME Late(t), Leave(c, "other", FALSE), UNCHANGED thr
      PROVE  IInv'
  <2>1. left' \in [Events -> Nat]
    BY <1>1, <1>8, Current, LateTypes
  <2> QED BY <1>1, <1>2, <1>8, <2>1, Current, LeavesStep
<1>9. ASSUME thr' = [thr EXCEPT ![t] = FreshThread], Place(free),
             own' = TryNext(t), UNCHANGED <<left, client>>
      PROVE  IInv'
  <2>1. thr' \in [Threads -> Thread] /\ left' \in [Events -> Nat]
    BY <1>1, <1>9, Current, FreshTypes
  <2> HIDE DEF free
  <2> QED BY <1>1, <1>2, <1>3, <1>9, <2>1, TriesNext
<1> QED BY <1>4, <1>5, <1>6, <1>7, <1>8, <1>9 DEF PrepareStop

LEMMA PrepareCheckKeeps == IInv /\ PrepareCheck => IInv'
<1> SUFFICES ASSUME IInv, PrepareCheck PROVE IInv'
  OBVIOUS
<1>1. own.pc \in Working /\ own.pc = "eligible" /\ "bind" \in Working
      /\ "bind" \notin InImage /\ own.ret \in Returns
  BY DEF PrepareCheck, Working, InImage, IInv, Placed
<1>2. UNCHANGED <<proc, sys, jobs, given>>
  BY DEF PrepareCheck
<1> DEFINE t == c.tid
           free == [c EXCEPT !.seized = FALSE, !.stopped = FALSE]
           bound == [c EXCEPT !.affinityPending = TRUE]
<1>3. free \in CallRecord /\ free.at # "none" /\ Fits(free, proc)
  BY <1>1, Current DEF CallRecord, Fits
<1>4. bound \in CallRecord /\ bound.at # "none" /\ Fits(bound, proc)
  BY <1>1, Current DEF CallRecord, Fits
<1>5. ASSUME NEW err, Leave(c, err, FALSE), UNCHANGED <<thr, left>>
      PROVE  IInv'
  BY <1>1, <1>2, <1>5, Current, LeavesStep
<1>6. ASSUME Place(bound), Goto("bind"), UNCHANGED <<thr, left, client>>
      PROVE  IInv'
  <2>1. Goes("bind", own.ret)
    BY <1>1, <1>6, Current, GoesTo DEF Goto
  <2> HIDE DEF bound
  <2> QED BY <1>1, <1>2, <1>4, <1>6, <2>1, Current, GoesStep
<1>7. ASSUME Spend("busy"), thr' = [thr EXCEPT ![t].hold = "free"],
             Place(free), own' = TryNext(t), UNCHANGED client
      PROVE  IInv'
  <2>1. thr' \in [Threads -> Thread] /\ left' \in [Events -> Nat]
    BY <1>1, <1>7, Current, HoldTypes, SpendTypes DEF Events
  <2> HIDE DEF free
  <2> QED BY <1>1, <1>2, <1>3, <1>7, <2>1, TriesNext
<1> QED BY <1>5, <1>6, <1>7 DEF PrepareCheck, Ineligible

LEMMA BindMemoryKeeps == IInv /\ BindMemory => IInv'
<1> SUFFICES ASSUME IInv, BindMemory PROVE IInv'
  OBVIOUS
<1>1. /\ own.pc \in Working /\ {"image", "detach"} \subseteq Working
      /\ {"image", "detach"} \cap InImage = {} /\ own.ret \in Returns
      /\ own.pc = "bind"
  BY DEF BindMemory, Working, InImage, IInv, Placed
<1>2. UNCHANGED <<proc, sys, jobs, given>>
  BY DEF BindMemory
<1> DEFINE t == c.tid
<1>3. ASSUME NEW err, Leave(c, err, FALSE), UNCHANGED <<thr, left>>
      PROVE  IInv'
  BY <1>1, <1>2, <1>3, Current, LeavesStep
<1>4. ASSUME Place([c EXCEPT !.seized = FALSE, !.stopped = FALSE]),
             Goto("image"), UNCHANGED <<thr, left, client>>
      PROVE  IInv'
  <2> DEFINE y == [c EXCEPT !.seized = FALSE, !.stopped = FALSE]
  <2>1. y \in CallRecord /\ y.at # "none" /\ Fits(y, proc)
    BY <1>1, Current DEF CallRecord, Fits
  <2>2. Goes("image", own.ret) /\ Place(y)
    BY <1>1, <1>4, Current, GoesTo DEF Goto
  <2> HIDE DEF y
  <2> QED BY <1>1, <1>2, <1>4, <2>1, <2>2, Current, GoesStep
<1>5. ASSUME Retire(c), UNCHANGED <<thr, left>>
      PROVE  IInv'
  BY <1>1, <1>2, <1>5, Current, RetireStep, RecordStep
<1>6. ASSUME c.image \in {0, proc.image},
             Place([c EXCEPT !.image = proc.image, !.affinityPending = FALSE]),
             Goto(own.ret), UNCHANGED <<thr, left, client>>
      PROVE  IInv'
  <2> DEFINE y == [c EXCEPT !.image = proc.image, !.affinityPending = FALSE]
  <2>1. /\ y \in CallRecord /\ y.at # "none" /\ y.image # 0 /\ y.tid = c.tid
    <3>1. c \in CallRecord /\ c.at # "none" /\ proc.image \in {1, 2}
      BY <1>1, Current
    <3>2. proc.image \in 0..2 /\ proc.image # 0
      BY <3>1
    <3> QED BY <3>1, <3>2 DEF CallRecord
  <2>2. Fits(y, proc)
    BY <1>1, <1>6, Current DEF CallRecord, Fits
  <2>4. /\ own.ret \in Working \ {"stop", "eligible", "prepare", "bind", "call"}
        /\ own.ret \in Working \ {"await"}
    BY <1>1 DEF Returns, Working
  <2>3. Goes(own.ret, own.ret) /\ Place(y)
    BY <1>1, <1>6, <2>4, Current, GoesTo DEF Goto
  <2> HIDE DEF y
  <2> QED BY <1>1, <1>2, <1>6, <2>1, <2>2, <2>3, <2>4, Current, GoesStep
<1>7. ASSUME Spend("fault"), thr' = Lent(t),
             Leave([c EXCEPT !.rec = "memory"], "other", FALSE)
      PROVE  IInv'
  <2> DEFINE y == [c EXCEPT !.rec = "memory"]
  <2>1. y \in CallRecord /\ y.at # "none" /\ Fits(y, proc)
    BY <1>1, Current DEF CallRecord, Fits, Recoveries
  <2>2. thr' \in [Threads -> Thread] /\ left' \in [Events -> Nat]
    BY <1>1, <1>7, Current, LentTypes, SpendTypes DEF Events
  <2> HIDE DEF y
  <2> QED BY <1>1, <1>2, <1>7, <2>1, <2>2, LeavesStep DEF y
<1>8. ASSUME Spend("fault"), UNCHANGED <<thr, call, client>>,
             own' = [own EXCEPT !.pc = "detach", !.fin = "refused"]
      PROVE  IInv'
  <2>1. left' \in [Events -> Nat]
    BY <1>1, <1>8, Current, SpendTypes DEF Events
  <2>2. Goes("detach", own.ret)
    BY <1>1, <1>8, Current, GoesTo
  <2> QED BY <1>1, <1>2, <1>8, <2>1, <2>2, Current, GoesOnly
<1>9. ASSUME Spend("fault"), Leave(c, "other", FALSE), UNCHANGED thr
      PROVE  IInv'
  BY <1>1, <1>2, <1>9, FaultStep DEF Events
<1> QED BY <1>3, <1>4, <1>5, <1>6, <1>7, <1>8, <1>9 DEF BindMemory

-----------------------------------------------------------------------------
(* run(): the frame, its content and the function.                         *)

(* The process as the program sees it is unchanged.                        *)
SameProgram ==
    /\ proc' \in Process /\ proc'.image = proc.image
    /\ proc'.theirs = proc.theirs /\ proc'.execing = proc.execing

LEMMA ProcStep ==
    ASSUME IInv, OwnerKeeps(proc), SameProgram,
           thr' \in [Threads -> Thread], left' \in [Events -> Nat],
           UNCHANGED <<sys, jobs, given>>
    PROVE  IInv'
<1>1. TypeOK'
  BY DEF IInv, TypeOK, TargetTypeOK, OwnerKeeps, States, SameProgram
<1>2. Bound'
  BY DEF IInv, Bound, OwnerKeeps, Fits, SysFits, SameProgram
<1> QED BY <1>1, <1>2 DEF IInv, OwnerKeeps

LEMMA MapFrameKeeps == IInv /\ MapFrame => IInv'
<1> SUFFICES ASSUME IInv, MapFrame PROVE IInv'
  OBVIOUS
<1>1. /\ own.pc \in Working /\ own.pc \in InImage
      /\ {"stage", "orphan"} \subseteq Working
  BY DEF MapFrame, Working, InImage
<1>2. UNCHANGED <<sys, jobs, given>> /\ c.frame = 0
  BY DEF MapFrame
<1> DEFINE f == Min(FreeFrame)
           y == [c EXCEPT !.frame = f]
           z == [c EXCEPT !.frame = f, !.rec = "memory"]
           w == [c EXCEPT !.rec = "memory"]
<1>3. ASSUME FreeFrame # {} PROVE f \in Frames /\ f \notin proc.theirs
  <2>1. FreeFrame \subseteq Nat /\ FreeFrame \subseteq Frames
    BY TargetConstants DEF FreeFrame
  <2>2. f \in FreeFrame
    BY <1>3, <2>1, LeastIsIn
  <2> QED BY <2>1, <2>2 DEF FreeFrame
<1>4. w \in CallRecord /\ w.at # "none" /\ Fits(w, proc)
  BY <1>1, Current DEF CallRecord, Fits, Recoveries
<1> HIDE DEF f
<1>5. ASSUME FreeFrame # {}
      PROVE  /\ y \in CallRecord /\ y.at # "none" /\ Fits(y, proc) /\ y.image # 0
             /\ z \in CallRecord /\ z.at # "none" /\ Fits(z, proc)
  <2>1. c \in CallRecord /\ c.at # "none" /\ Fits(c, proc) /\ c.image # 0
    BY <1>1, Current
  <2>2. y \in CallRecord /\ y.at # "none" /\ y.image # 0 /\ Fits(y, proc)
    BY <1>3, <1>5, <2>1 DEF CallRecord, Fits
  <2>3. z = [y EXCEPT !.rec = "memory"]
    BY <2>1 DEF CallRecord
  <2> HIDE DEF y, z
  <2>4. z \in CallRecord /\ z.at # "none" /\ Fits(z, proc)
    BY <2>2, <2>3 DEF CallRecord, Fits, Recoveries
  <2> QED BY <2>2, <2>4
<1>6. ASSUME FreeFrame # {}, proc' = [proc EXCEPT !.mapped = @ \cup {f}]
      PROVE  SameProgram
  <2>1. proc \in Process
    BY <1>1, Current
  <2> QED BY <1>3, <1>6, <2>1 DEF Process, SameProgram
<1> HIDE DEF y, z, w
<1>7. ASSUME Leave(c, WhyNot, FALSE), UNCHANGED <<thr, proc, left>>
      PROVE  IInv'
  BY <1>1, <1>2, <1>7, Current, LeavesStep
<1>8. ASSUME FreeFrame # {}, proc' = [proc EXCEPT !.mapped = @ \cup {f}],
             Place(y), Goto(IF own.pc = "map" THEN "stage" ELSE "orphan"),
             UNCHANGED <<thr, left, client>>
      PROVE  IInv'
  <2> DEFINE pc == IF own.pc = "map" THEN "stage" ELSE "orphan"
  <2>1. pc \in {"stage", "orphan"} /\ own' = [own EXCEPT !.pc = pc]
    BY <1>8 DEF Goto
  <2> HIDE DEF pc
  <2>2. Goes(pc, own.ret)
    BY <1>1, <2>1, Current, GoesTo
  <2>3. OwnerKeeps(proc)
    BY <1>1, <1>2, <1>5, <1>8, <2>1, <2>2, MoveStep DEF Goes
  <2> QED BY <1>1, <1>2, <1>6, <1>8, <2>3, Current, ProcStep
<1>9. ASSUME Spend("fault"), Leave(c, "other", FALSE), UNCHANGED <<thr, proc>>
      PROVE  IInv'
  BY <1>1, <1>2, <1>9, FaultStep DEF Events
<1>10. ASSUME FreeFrame # {}, Spend("fault"), thr' = Lent(c.tid),
              proc' = [proc EXCEPT !.mapped = @ \cup {f}],
              Leave(z, "other", FALSE)
       PROVE  IInv'
  <2>1. thr' \in [Threads -> Thread] /\ left' \in [Events -> Nat]
    BY <1>1, <1>10, Current, LentTypes, SpendTypes DEF Events
  <2>2. OwnerKeeps(proc)
    BY <1>1, <1>2, <1>5, <1>10, LeaveStep
  <2> QED BY <1>2, <1>6, <1>10, <2>1, <2>2, ProcStep
<1>11. ASSUME Spend("fault"), thr' = Lent(c.tid), UNCHANGED proc,
              Leave(w, "other", FALSE)
       PROVE  IInv'
  <2>1. thr' \in [Threads -> Thread] /\ left' \in [Events -> Nat]
    BY <1>1, <1>11, Current, LentTypes, SpendTypes DEF Events
  <2> QED BY <1>1, <1>2, <1>4, <1>11, <2>1, LeavesStep
<1> QED BY <1>7, <1>8, <1>9, <1>10, <1>11 DEF MapFrame, f, y, z, w

LEMMA StageKeeps == IInv /\ Stage => IInv'
<1> SUFFICES ASSUME IInv, Stage PROVE IInv'
  OBVIOUS
<1>1. own.pc \in Working /\ own.pc \in InImage /\ "call" \in Working
  BY DEF Stage, Working, InImage
<1>2. UNCHANGED <<proc, sys, jobs, given>>
  BY DEF Stage
<1> DEFINE w == [c EXCEPT !.rec = "memory"]
<1>3. w \in CallRecord /\ w.at # "none" /\ Fits(w, proc)
  BY <1>1, Current DEF CallRecord, Fits, Recoveries
<1> HIDE DEF w
<1>4. ASSUME Leave(c, WhyNot, FALSE), UNCHANGED <<thr, left>>
      PROVE  IInv'
  BY <1>1, <1>2, <1>4, Current, LeavesStep
<1>5. ASSUME own' = [own EXCEPT !.pc = "call", !.ret = "main"],
             UNCHANGED <<thr, left, call, client>>
      PROVE  IInv'
  <2>1. Goes("call", "main")
    BY <1>1, <1>5, Current, GoesTo
  <2> QED BY <1>1, <1>2, <1>5, <2>1, Current, GoesOnly DEF CallReturns
<1>6. ASSUME Spend("fault"), Leave(c, "other", FALSE), UNCHANGED thr
      PROVE  IInv'
  BY <1>1, <1>2, <1>6, FaultStep DEF Events
<1>7. ASSUME Spend("fault"), thr' = Lent(c.tid), Leave(w, "other", FALSE)
      PROVE  IInv'
  <2>1. thr' \in [Threads -> Thread] /\ left' \in [Events -> Nat]
    BY <1>1, <1>7, Current, LentTypes, SpendTypes DEF Events
  <2> QED BY <1>1, <1>2, <1>3, <1>7, <2>1, LeavesStep
<1> QED BY <1>4, <1>5, <1>6, <1>7 DEF Stage, TransferFails, w

(* A thread sent into a function is still a thread. *)
LEMMA InjectedTypes ==
  ASSUME NEW th \in Thread, NEW fn \in Kinds \cup {"none", "orphan"},
         NEW k \in Calls \cup {0}, NEW f \in Frames \cup {0}
  PROVE  [th EXCEPT !.hold = "seized", !.regs = "call", !.fn = fn, !.k = k, !.frame = f] \in Thread
<1>1. [th EXCEPT !.hold = "seized", !.regs = "call"] \in Thread
  BY DEF Thread
<1>2. ASSUME NEW t \in Thread PROVE [t EXCEPT !.fn = fn, !.k = k] \in Thread
  BY DEF Thread
<1>3. ASSUME NEW t \in Thread PROVE [t EXCEPT !.frame = f] \in Thread
  BY DEF Thread
<1> QED BY <1>1, <1>2, <1>3

LEMMA StartFunctionKeeps == IInv /\ StartFunction => IInv'
<1> SUFFICES ASSUME IInv, StartFunction PROVE IInv'
  OBVIOUS
<1>1. /\ own.pc \in Working /\ own.pc \in InImage /\ "await" \in Working
      /\ own.ret \in CallReturns
  BY DEF StartFunction, Working, InImage, IInv, Placed
<1>2. UNCHANGED <<proc, sys, jobs, given>>
  BY DEF StartFunction
<1>3. ASSUME Leave(c, "other", FALSE), UNCHANGED <<thr, left>>
      PROVE  IInv'
  BY <1>1, <1>2, <1>3, Current, LeavesStep
<1>4. ASSUME thr' = [thr EXCEPT ![c.tid] = Injected(@)], Goto("await"),
             UNCHANGED <<left, call, client>>
      PROVE  IInv'
  <2>1. thr' \in [Threads -> Thread] /\ left' \in [Events -> Nat]
    <3> DEFINE fn == IF own.ret = "main" THEN c.kind ELSE "orphan"
    <3>1. /\ fn \in Kinds \cup {"none", "orphan"} /\ own.k \in Calls \cup {0}
          /\ c.frame \in Frames \cup {0}
      BY <1>1, Current DEF CallRecord
    <3> HIDE DEF fn
    <3>2. ASSUME NEW th \in Thread
          PROVE  [th EXCEPT !.hold = "seized", !.regs = "call", !.fn = fn,
                            !.k = own.k, !.frame = c.frame] \in Thread
      BY <3>1, InjectedTypes
    <3>3. ASSUME c.tid \in Threads PROVE Injected(thr[c.tid]) \in Thread
      BY <1>1, <3>2, <3>3, Current DEF Injected, fn
    <3> QED BY <1>1, <1>4, <3>3, Current
  <2>2. Goes("await", own.ret)
    BY <1>1, <1>4, Current, GoesTo DEF Goto
  <2> QED BY <1>1, <1>2, <1>4, <2>1, <2>2, Current, GoesOnly
<1>5. ASSUME Spend("fault"), Leave(c, "other", FALSE), UNCHANGED thr
      PROVE  IInv'
  BY <1>1, <1>2, <1>5, FaultStep DEF Events
<1> QED BY <1>3, <1>4, <1>5 DEF StartFunction

LEMMA AwaitFunctionKeeps == IInv /\ AwaitFunction => IInv'
<1> SUFFICES ASSUME IInv, AwaitFunction PROVE IInv'
  OBVIOUS
<1>1. /\ own.pc \in Working /\ own.pc \in InImage /\ own.pc = "await"
      /\ {"finish", "start", "unmap", "await"} \subseteq Working
      /\ own.ret \in {"main", "start", "unmap"}
      /\ {"finish", "unmap"} \cap InImage = {}
  BY DEF AwaitFunction, Working, InImage, IInv, Placed, CallReturns
<1>2. UNCHANGED <<proc, sys, jobs, given>>
  BY DEF AwaitFunction
<1> DEFINE t == c.tid
           r == Returned(Kept, thr[t])
           y == [r EXCEPT !.rec = "none"]
           z == IF own.ret = "main" THEN r ELSE Kept
<1>3. /\ Kept \in CallRecord /\ Kept.at # "none" /\ Fits(Kept, proc)
      /\ Kept.image # 0
  <2>1. FunctionKept \in Recoveries
    BY DEF FunctionKept, Recoveries
  <2>2. c \in CallRecord /\ c.at # "none" /\ Fits(c, proc) /\ c.image # 0
    BY <1>1, Current
  <2> QED BY <2>1, <2>2 DEF Kept, CallRecord, Fits
<1>4. r \in CallRecord /\ r.at # "none" /\ Fits(r, proc) /\ r.image # 0
  BY <1>3, ReturnedTypes
<1> HIDE DEF r
<1>5. y \in CallRecord /\ y.at # "none" /\ Fits(y, proc) /\ y.image # 0
  BY <1>4 DEF CallRecord, Fits, Recoveries
<1>6. z \in CallRecord /\ z.at # "none" /\ Fits(z, proc)
  BY <1>3, <1>4
<1> HIDE DEF y, z
<1>7. ASSUME thr' = [thr EXCEPT ![t] = Restored(@)], Place(y),
             Goto(IF own.ret = "main" THEN "finish" ELSE own.ret),
             UNCHANGED <<left, client>>
      PROVE  IInv'
  <2> DEFINE pc == IF own.ret = "main" THEN "finish" ELSE own.ret
  <2>1. pc \in {"finish", "start", "unmap"} /\ own' = [own EXCEPT !.pc = pc]
    BY <1>1, <1>7 DEF Goto
  <2> HIDE DEF pc
  <2>2. Goes(pc, own.ret)
    BY <1>1, <2>1, Current, GoesTo
  <2>3. thr' \in [Threads -> Thread] /\ left' \in [Events -> Nat]
    BY <1>1, <1>7, Current, RestoredTypes
  <2> QED BY <1>1, <1>2, <1>5, <1>7, <2>1, <2>2, <2>3, GoesStep
<1>8. ASSUME Spend("fault"), Leave(z, "other", FALSE), UNCHANGED thr
      PROVE  IInv'
  <2>1. left' \in [Events -> Nat]
    BY <1>1, <1>8, Current, SpendTypes DEF Events
  <2> QED BY <1>1, <1>2, <1>6, <1>8, <2>1, Current, LeavesStep
<1>9. ASSUME NEW err, Leave(Kept, err, FALSE), UNCHANGED thr,
             left' \in [Events -> Nat]
      PROVE  IInv'
  BY <1>1, <1>2, <1>3, <1>9, Current, LeavesStep
<1>10. ASSUME thr' = [thr EXCEPT ![t].hold = "seized", ![t].regs = "call"],
              UNCHANGED <<call, own, client, left>>
       PROVE  IInv'
  <2>1. thr' \in [Threads -> Thread] /\ left' \in [Events -> Nat]
    BY <1>1, <1>10, Current, ContextTypes
  <2>2. Goes("await", own.ret)
    BY <1>1, <1>10, Current DEF Goes
  <2> QED BY <1>1, <1>2, <1>10, <2>1, <2>2, Current, GoesOnly DEF CallReturns
<1>11. ASSUME Retire(Kept), UNCHANGED <<thr, left>>
       PROVE  IInv'
  BY <1>1, <1>2, <1>3, <1>11, Current, RetireStep, RecordStep
<1>12. ASSUME thr' = Waited(t), Leave(c, "gone", FALSE), UNCHANGED left
       PROVE  IInv'
  <2>1. thr' \in [Threads -> Thread] /\ left' \in [Events -> Nat]
    BY <1>1, <1>12, Current, WaitedTypes
  <2> QED BY <1>1, <1>2, <1>12, <2>1, Current, LeavesStep
<1>13. /\ \A e : Late(e) => left' \in [Events -> Nat]
       /\ UNCHANGED left => left' \in [Events -> Nat]
  BY <1>1, Current, LateTypes
<1> QED BY <1>7, <1>8, <1>9, <1>10, <1>11, <1>12, <1>13
        DEF AwaitFunction, r, y, z

-----------------------------------------------------------------------------
(* finish(): the result, the worker, the handle, the frame and the thread. *)

LEMMA ReadOutputKeeps == IInv /\ ReadOutput => IInv'
<1> SUFFICES ASSUME IInv, ReadOutput PROVE IInv'
  OBVIOUS
<1>1. /\ own.pc \in Working /\ {"start", "orphan", "unmap"} \subseteq Working
      /\ "unmap" \notin InImage
  BY DEF ReadOutput, Working, InImage
<1>2. UNCHANGED <<thr, proc, sys, jobs, given>>
  BY DEF ReadOutput
<1> DEFINE w == [c EXCEPT !.outputRead = TRUE]
           y == IF c.completed THEN w ELSE c
           pc == IF c.kind = "worker" /\ c.completed /\ c.ok THEN "start"
                 ELSE IF c.completed /\ c.abandoned /\ c.kind # "plain"
                         /\ ~c.orphanDetached /\ c.ok THEN "orphan"
                 ELSE "unmap"
<1>3. w \in CallRecord /\ w.at # "none" /\ Fits(w, proc) /\ w.image = c.image
  BY <1>1, Current DEF CallRecord, Fits
<1> HIDE DEF w
<1>4. y \in CallRecord /\ y.at # "none" /\ Fits(y, proc) /\ y.image = c.image
  BY <1>1, <1>3, Current
<1>5. pc \in {"start", "orphan", "unmap"} /\ (pc # "unmap" => c.image # 0)
  BY <1>1, Current DEF Fits
<1>6. ASSUME Spend("fault"), Leave(c, "other", FALSE)
      PROVE  IInv'
  BY <1>1, <1>2, <1>6, FaultStep DEF Events
<1>7. ASSUME Place(y), own' = [own EXCEPT !.tried = {}, !.pc = pc],
             UNCHANGED <<left, client>>
      PROVE  IInv'
  <2> HIDE DEF y, pc
  <2>1. own' = [own EXCEPT !.pc = pc, !.tried = {}]
    BY <1>7
  <2>2. Goes(pc, own.ret)
    <3>1. own \in Owner /\ pc \in Working /\ {} \in SUBSET Threads
      BY <1>1, <1>5, Current
    <3> QED BY <2>1, <3>1, GoesTo, Zenon
  <2> QED BY <1>1, <1>2, <1>4, <1>5, <1>7, <2>2, Current, GoesStep
<1> HIDE DEF y, pc
<1> QED BY <1>6, <1>7 DEF ReadOutput, TransferFails, w, y, pc

LEMMA StartWorkerKeeps == IInv /\ StartWorker => IInv'
<1> SUFFICES ASSUME IInv, StartWorker PROVE IInv'
  OBVIOUS
<1>1. /\ own.pc \in Working /\ {"call", "detach"} \subseteq Working
      /\ own.pc \in InImage /\ "detach" \notin InImage /\ "start" \in Working
  BY DEF StartWorker, Working, InImage
<1>2. UNCHANGED <<thr, sys, jobs, given>>
  BY DEF StartWorker
<1>3. ASSUME own' = [own EXCEPT !.pc = "call", !.ret = "start"],
             UNCHANGED <<proc, left, call, client>>
      PROVE  IInv'
  <2>1. Goes("call", "start")
    BY <1>1, <1>3, Current, GoesTo
  <2> QED BY <1>1, <1>2, <1>3, <2>1, Current, GoesOnly DEF CallReturns
<1>4. ASSUME proc' = IF proc.worker[own.k] # "ready" THEN proc
                     ELSE [proc EXCEPT !.worker[own.k] =
                             IF c.abandoned THEN "cancel" ELSE "run"],
             Place([c EXCEPT !.workerStarted = TRUE]),
             own' = [own EXCEPT !.pc = "detach", !.fin = "ok"],
             UNCHANGED <<left, client>>
      PROVE  IInv'
  <2> DEFINE y == [c EXCEPT !.workerStarted = TRUE]
  <2>1. y \in CallRecord /\ y.at # "none" /\ Fits(y, proc)
    BY <1>1, Current DEF CallRecord, Fits
  <2>2. SameProgram
    <3>1. proc \in Process
      BY <1>1, Current
    <3>2. ASSUME NEW s \in {"cancel", "run"},
                 proc' = [proc EXCEPT !.worker[own.k] = s]
          PROVE  SameProgram
      BY <3>1, <3>2 DEF Process, SameProgram
    <3>3. proc' = proc => SameProgram
      BY <3>1 DEF SameProgram
    <3> QED BY <1>4, <3>2, <3>3
  <2>3. Goes("detach", own.ret) /\ Place(y)
    BY <1>1, <1>4, Current, GoesTo
  <2> HIDE DEF y
  <2>4. OwnerKeeps(proc)
    BY <1>1, <1>2, <1>4, <2>1, <2>3, MoveStep DEF Goes
  <2> QED BY <1>1, <1>2, <1>4, <2>2, <2>4, Current, ProcStep
<1>5. ASSUME Spend("fault"), Leave(c, "other", FALSE), UNCHANGED proc
      PROVE  IInv'
  BY <1>1, <1>2, <1>5, FaultStep DEF Events
<1> QED BY <1>3, <1>4, <1>5 DEF StartWorker, TransferFails

LEMMA DetachOrphanKeeps == IInv /\ DetachOrphan => IInv'
<1> SUFFICES ASSUME IInv, DetachOrphan PROVE IInv'
  OBVIOUS
<1>1. /\ own.pc \in Working /\ {"prepare", "orphan", "call", "unmap"} \subseteq Working
      /\ own.pc \in InImage /\ "prepare" \notin InImage
  BY DEF DetachOrphan, Working, InImage
<1>2. UNCHANGED <<proc, sys, jobs, given>>
  BY DEF DetachOrphan
<1> DEFINE w == [c EXCEPT !.rec = "memory"]
<1>w. w \in CallRecord /\ w.at # "none" /\ Fits(w, proc)
  BY <1>1, Current DEF CallRecord, Fits, Recoveries
<1> HIDE DEF w
<1>3. ASSUME own' = [own EXCEPT !.pc = "prepare", !.ret = "orphan", !.tried = {}],
             UNCHANGED <<thr, left, call, client>>
      PROVE  IInv'
  <2>1. Goes("prepare", "orphan")
    BY <1>1, <1>3, Current, GoesTo
  <2> QED BY <1>1, <1>2, <1>3, <2>1, Current, GoesOnly DEF Returns
<1>4. ASSUME Leave(c, WhyNot, FALSE), UNCHANGED <<thr, left>>
      PROVE  IInv'
  BY <1>1, <1>2, <1>4, Current, LeavesStep
<1>5. ASSUME own' = [own EXCEPT !.pc = "call", !.ret = "unmap"],
             UNCHANGED <<thr, left, call, client>>
      PROVE  IInv'
  <2>1. Goes("call", "unmap")
    BY <1>1, <1>5, Current, GoesTo
  <2> QED BY <1>1, <1>2, <1>5, <2>1, Current, GoesOnly DEF CallReturns
<1>6. ASSUME Spend("fault"), Leave(c, "other", FALSE), UNCHANGED thr
      PROVE  IInv'
  BY <1>1, <1>2, <1>6, FaultStep DEF Events
<1>7. ASSUME Spend("fault"), thr' = Lent(c.tid), Leave(w, "other", FALSE)
      PROVE  IInv'
  <2>1. thr' \in [Threads -> Thread] /\ left' \in [Events -> Nat]
    BY <1>1, <1>7, Current, LentTypes, SpendTypes DEF Events
  <2> QED BY <1>1, <1>2, <1>w, <1>7, <2>1, LeavesStep
<1> QED BY <1>3, <1>4, <1>5, <1>6, <1>7 DEF DetachOrphan, w

(* What is unmapped through a usable thread is in the image of the record: *)
(* it is not the running program's.                                        *)
LEMMA UnmapsItsOwn ==
    ASSUME IInv, own.pc \in Working, c.frame # 0, ~Unusable,
           proc' = Unmapped(c.frame)
    PROVE  SameProgram
<1>1. c \in CallRecord /\ Fits(c, proc) /\ proc \in Process
  BY Current
<1>2. c.image \in {0, proc.image}
  BY DEF Unusable, ImageOf
<1>3. c.frame \notin proc.theirs
  BY <1>1, <1>2 DEF Fits
<1> QED BY <1>1, <1>3 DEF Unmapped, SameProgram, Process

LEMMA UnmapFrameKeeps == IInv /\ UnmapFrame => IInv'
<1> SUFFICES ASSUME IInv, UnmapFrame PROVE IInv'
  OBVIOUS
<1>1. own.pc \in Working /\ "detach" \in Working /\ "detach" \notin InImage
  BY DEF UnmapFrame, Working, InImage
<1>2. UNCHANGED <<sys, jobs, given>>
  BY DEF UnmapFrame
<1> DEFINE y == [c EXCEPT !.frame = 0]
           z == [c EXCEPT !.frame = 0, !.rec = "memory"]
           w == [c EXCEPT !.rec = "memory"]
<1>3. y \in CallRecord /\ y.at # "none" /\ Fits(y, proc)
  BY <1>1, Current DEF CallRecord, Fits
<1>4. z \in CallRecord /\ z.at # "none" /\ Fits(z, proc)
  BY <1>1, Current DEF CallRecord, Fits, Recoveries
<1>5. w \in CallRecord /\ w.at # "none" /\ Fits(w, proc)
  BY <1>1, Current DEF CallRecord, Fits, Recoveries
<1> HIDE DEF y, z, w
<1>6. ASSUME NEW fin \in {"ok", "refused"},
             own' = [own EXCEPT !.pc = "detach", !.fin = fin],
             left' \in [Events -> Nat], UNCHANGED <<thr, proc, call, client>>
      PROVE  IInv'
  <2>1. Goes("detach", own.ret)
    BY <1>1, <1>6, Current, GoesTo
  <2> QED BY <1>1, <1>2, <1>6, <2>1, Current, GoesOnly
<1>7. ASSUME NEW err, Leave(c, err, FALSE), left' \in [Events -> Nat],
             UNCHANGED <<thr, proc>>
      PROVE  IInv'
  BY <1>1, <1>2, <1>7, Current, LeavesStep
<1>8. ASSUME c.frame # 0, ~Unusable, proc' = Unmapped(c.frame), Place(y),
             own' = [own EXCEPT !.pc = "detach", !.fin = "ok"],
             UNCHANGED <<thr, left, client>>
      PROVE  IInv'
  <2>1. Goes("detach", own.ret)
    BY <1>1, <1>8, Current, GoesTo
  <2>2. OwnerKeeps(proc)
    BY <1>1, <1>2, <1>3, <1>8, <2>1, MoveStep DEF Goes
  <2> QED BY <1>1, <1>2, <1>8, <2>2, Current, UnmapsItsOwn, ProcStep
<1>9. ASSUME c.frame # 0, ~Unusable, left' \in [Events -> Nat],
             thr' = Lent(c.tid), proc' = Unmapped(c.frame),
             Leave(z, "other", FALSE)
      PROVE  IInv'
  <2>1. thr' \in [Threads -> Thread]
    BY <1>1, <1>9, Current, LentTypes
  <2>2. OwnerKeeps(proc)
    BY <1>1, <1>2, <1>4, <1>9, LeaveStep
  <2> QED BY <1>1, <1>2, <1>9, <2>1, <2>2, UnmapsItsOwn, ProcStep
<1>10. ASSUME left' \in [Events -> Nat], thr' = Lent(c.tid), UNCHANGED proc,
              Leave(w, "other", FALSE)
       PROVE  IInv'
  <2>1. thr' \in [Threads -> Thread]
    BY <1>1, <1>10, Current, LentTypes
  <2> QED BY <1>1, <1>2, <1>5, <1>10, <2>1, LeavesStep
<1>11. /\ UNCHANGED left => left' \in [Events -> Nat]
       /\ Spend("fault") => left' \in [Events -> Nat]
  BY <1>1, Current, SpendTypes DEF Events
<1>12. CASE c.frame = 0
  BY <1>6, <1>11, <1>12 DEF UnmapFrame
<1>13. CASE c.frame # 0 /\ Unusable
  BY <1>6, <1>7, <1>11, <1>13 DEF UnmapFrame
<1>14. CASE c.frame # 0 /\ ~Unusable
  BY <1>6, <1>7, <1>8, <1>9, <1>10, <1>11, <1>14 DEF UnmapFrame, y, z, w
<1> QED BY <1>12, <1>13, <1>14

LEMMA DetachKeeps == IInv /\ Detach => IInv'
<1> SUFFICES ASSUME IInv, Detach PROVE IInv'
  OBVIOUS
<1>1. own.pc \in Working
  BY DEF Detach, Working
<1>2. UNCHANGED <<proc, sys, jobs, given>>
  BY DEF Detach
<1>3. Freed(c) \in CallRecord /\ Freed(c).at # "none" /\ Fits(Freed(c), proc)
  BY <1>1, Current DEF CallRecord, Fits, Freed
<1>4. ASSUME NEW x \in CallRecord, x.at # "none", Fits(x, proc), Detached(x),
             thr' \in [Threads -> Thread], left' \in [Events -> Nat]
      PROVE  IInv'
  BY <1>1, <1>2, <1>4, LeavesStep DEF Detached
<1>5. ASSUME NEW err, Leave(c, err, FALSE), UNCHANGED thr,
             left' \in [Events -> Nat]
      PROVE  IInv'
  BY <1>1, <1>2, <1>5, Current, LeavesStep
<1>6. ASSUME thr' = [thr EXCEPT ![c.tid] = Untraced(@)]
      PROVE  thr' \in [Threads -> Thread]
  <2>1. ASSUME NEW th \in Thread PROVE Untraced(th) \in Thread
    BY DEF Thread, Untraced
  <2> QED BY <1>1, <1>6, <2>1, Current
<1>7. /\ UNCHANGED left => left' \in [Events -> Nat]
      /\ Spend("fault") => left' \in [Events -> Nat]
      /\ \A t : Late(t) => left' \in [Events -> Nat]
      /\ UNCHANGED thr => thr' \in [Threads -> Thread]
  BY <1>1, Current, SpendTypes, LateTypes DEF Events
<1>8. c \in CallRecord /\ c.at # "none" /\ Fits(c, proc)
  BY <1>1, Current
<1> QED BY <1>3, <1>4, <1>5, <1>6, <1>7, <1>8 DEF Detach

-----------------------------------------------------------------------------
(* The service loop and the service's own record.                          *)

Gifts == (0..2) \X (Frames \cup {0})

(* The owner works on no record of a call.                                 *)
OutsideKeeps ==
    /\ own' \in Owner /\ own'.pc \notin Working
    /\ own'.by \notin {"run", "cleanup"}
    /\ JobsOK' /\ client' \in [Calls -> States]
    /\ call' \in [Calls -> CallRecord]
    /\ \A k \in Calls : Fits(call'[k], proc)
    /\ given' \subseteq Gifts

LEMMA OutsideStep ==
    ASSUME IInv, OutsideKeeps, SameProgram, sys' \in Pending,
           SysFits(sys', proc), jobs' \in Seq(Job),
           thr' \in [Threads -> Thread], left' \in [Events -> Nat]
    PROVE  IInv'
<1>1. TypeOK'
  BY DEF TypeOK, TargetTypeOK, OutsideKeeps, States, SameProgram, Gifts
<1>2. Placed'
  BY DEF Placed, OutsideKeeps, Working, InImage
<1>3. Bound'
  BY DEF IInv, Bound, OutsideKeeps, Fits, SysFits, SameProgram
<1> QED BY <1>1, <1>2, <1>3 DEF IInv, OutsideKeeps

LEMMA Outside ==
    ASSUME IInv
    PROVE  /\ own \in Owner /\ sys \in Pending /\ jobs \in Seq(Job)
           /\ call \in [Calls -> CallRecord] /\ client \in [Calls -> States]
           /\ given \subseteq Gifts
           /\ thr \in [Threads -> Thread] /\ left \in [Events -> Nat]
           /\ proc \in Process /\ proc.image \in {1, 2}
           /\ SysFits(sys, proc) /\ \A k \in Calls : Fits(call[k], proc)
           /\ own.pc \notin Working => own.by \in {"sweep", "recover"}
           /\ UNCHANGED proc => SameProgram
           /\ JobsOK
<1>1. /\ own \in Owner /\ sys \in Pending /\ jobs \in Seq(Job)
      /\ call \in [Calls -> CallRecord] /\ client \in [Calls -> States]
      /\ given \subseteq Gifts
      /\ thr \in [Threads -> Thread] /\ left \in [Events -> Nat]
      /\ proc \in Process
  BY DEF IInv, TypeOK, TargetTypeOK, States, Gifts
<1>2. own.pc \notin Working => own.by \in {"sweep", "recover"}
  BY <1>1 DEF IInv, Placed, Owner
<1>3. proc.image \in {1, 2} /\ (UNCHANGED proc => SameProgram)
  BY <1>1 DEF Process, SameProgram
<1> QED BY <1>1, <1>2, <1>3 DEF IInv, Bound

LEMMA PresentCalls == Present \subseteq Calls
BY DEF Present

LEMMA TakeJobKeeps == IInv /\ TakeJob => IInv'
<1> SUFFICES ASSUME IInv, TakeJob PROVE IInv'
  OBVIOUS
<1>1. /\ own.pc \notin Working /\ jobs # <<>> /\ jobs' = Tail(jobs)
      /\ {"record", "resume", "next"} \cap Working = {}
      /\ UNCHANGED <<thr, proc, left, call, sys, client, given>>
  BY DEF TakeJob, Working
<1> DEFINE job == Head(jobs)
           pc == CASE job.op = "invoke" -> "record"
                   [] job.op = "resume" -> "resume"
                   [] OTHER -> "next"
<1>2. own' = [own EXCEPT !.job = job, !.by = "recover", !.todo = Present,
                         !.pc = pc]
  BY DEF TakeJob
<1>3. pc \in {"record", "resume", "next"}
  OBVIOUS
<1>4. /\ jobs \in Seq(Job) /\ job \in Job /\ jobs' \in Seq(Job)
      /\ 1 \in DOMAIN jobs /\ job = jobs[1]
      /\ \A i \in DOMAIN jobs' : i + 1 \in DOMAIN jobs /\ jobs'[i] = jobs[i + 1]
                                 /\ i \in Nat \ {0}
  <2>1. jobs \in Seq(Job)
    BY Outside
  <2> QED BY <1>1, <2>1
<1> HIDE DEF job, pc
<1>5. own' \in Owner /\ own'.pc = pc /\ own'.by = "recover" /\ own'.job = job
  <2>1. own \in Owner /\ Present \in SUBSET Calls
    BY Outside, PresentCalls
  <2> QED BY <1>2, <1>3, <1>4, <2>1 DEF Owner
<1>6. JobsOK'
  <2>1. JobsOK
    BY DEF IInv
  <2>3. \A i \in DOMAIN jobs' : jobs'[i].op = "invoke" =>
          jobs'[i].k \in Calls /\ client'[jobs'[i].k] \in Kinds
    BY <1>1, <1>4, <2>1 DEF JobsOK, Waits
  <2>4. own'.job.op = "invoke" =>
          own'.job.k \in Calls /\ client'[own'.job.k] \in Kinds
    BY <1>1, <1>4, <1>5, <2>1 DEF JobsOK, Waits
  <2>5. \A i \in DOMAIN jobs' : \A j \in DOMAIN jobs' :
          i # j /\ jobs'[i].op = "invoke" /\ jobs'[j].op = "invoke"
            => jobs'[i].k # jobs'[j].k
    <3> SUFFICES ASSUME NEW i \in DOMAIN jobs', NEW j \in DOMAIN jobs', i # j,
                        jobs'[i].op = "invoke", jobs'[j].op = "invoke"
                 PROVE  jobs'[i].k # jobs'[j].k
      OBVIOUS
    <3>1. i + 1 # j + 1
      BY <1>4
    <3> QED BY <1>4, <2>1, <3>1 DEF JobsOK
  <2>6. \A i \in DOMAIN jobs' :
          jobs'[i].op = "invoke" /\ own'.job.op = "invoke"
            => jobs'[i].k # own'.job.k
    <3> SUFFICES ASSUME NEW i \in DOMAIN jobs', jobs'[i].op = "invoke",
                        own'.job.op = "invoke"
                 PROVE  jobs'[i].k # own'.job.k
      OBVIOUS
    <3>1. i + 1 # 1
      BY <1>4
    <3> QED BY <1>4, <1>5, <2>1, <3>1 DEF JobsOK
  <2> QED BY <2>3, <2>4, <2>5, <2>6 DEF JobsOK, Waits
<1>7. OutsideKeeps
  BY <1>1, <1>3, <1>5, <1>6, Outside DEF OutsideKeeps
<1> QED BY <1>1, <1>4, <1>7, Outside, OutsideStep

LEMMA SweepKeeps == IInv /\ Sweep => IInv'
<1> SUFFICES ASSUME IInv, Sweep PROVE IInv'
  OBVIOUS
<1>1. /\ own' = Swept /\ "next" \notin Working
      /\ UNCHANGED <<thr, proc, left, call, sys, jobs, client, given>>
  BY DEF Sweep, Working
<1>2. /\ own' \in Owner /\ own'.pc = "next" /\ own'.by = "sweep"
      /\ own'.job.op # "invoke"
  BY <1>1, Outside, SweptTypes
<1>3. JobsOK'
  BY <1>1, <1>2, JobsStay DEF IInv
<1>4. OutsideKeeps
  BY <1>1, <1>2, <1>3, Outside DEF OutsideKeeps
<1> QED BY <1>1, <1>4, Outside, OutsideStep

LEMMA ExitKeeps == IInv /\ Exit => IInv'
<1> SUFFICES ASSUME IInv, Exit PROVE IInv'
  OBVIOUS
<1>1. /\ own' = [own EXCEPT !.pc = "exited"] /\ "exited" \notin Working
      /\ UNCHANGED <<thr, proc, left, call, sys, jobs, client, given>>
      /\ own.pc \notin Working
  BY DEF Exit, Working, Goto
<1>2. /\ own' \in Owner /\ own'.pc = "exited" /\ own'.by = own.by
      /\ own'.job = own.job
  BY <1>1, Outside DEF Owner
<1>3. JobsOK'
  BY <1>1, <1>2, JobsStay DEF IInv
<1>4. OutsideKeeps
  BY <1>1, <1>2, <1>3, Outside DEF OutsideKeeps
<1> QED BY <1>1, <1>4, Outside, OutsideStep

(* recover() and recoverAll() find a record among those still to visit.    *)
LEMMA VisitingIsToDo ==
    ASSUME IInv, own.todo # {}
    PROVE  Visiting \in own.todo /\ Visiting \in Calls
<1>1. own.todo \subseteq Calls /\ own.todo \subseteq Nat
  BY Outside, TargetConstants DEF Owner
<1> DEFINE started == {k \in own.todo : call[k].at = "calls"}
<1>2. started \subseteq own.todo /\ started \subseteq Nat
  BY <1>1
<1>3. Visiting = IF started # {} THEN Min(started) ELSE Min(own.todo)
  BY DEF Visiting
<1> HIDE DEF started
<1>4. Min(own.todo) \in own.todo /\ (started # {} => Min(started) \in started)
  BY <1>1, <1>2, LeastIsIn
<1> QED BY <1>1, <1>2, <1>3, <1>4

LEMMA VisitKeeps == IInv /\ Visit => IInv'
<1> SUFFICES ASSUME IInv, Visit PROVE IInv'
  OBVIOUS
<1>1. /\ own.pc = "next" /\ own.todo # {} /\ own.pc \notin Working
      /\ UNCHANGED <<thr, proc, left, sys, jobs, given>>
      /\ {"finish", "worker"} \subseteq Working
      /\ {"finish", "worker"} \cap InImage = {}
  BY DEF Visit, Working, InImage
<1> DEFINE k == Visiting
           x == call[k]
           skip == [own EXCEPT !.todo = @ \ {k}]
           lost == [call EXCEPT ![k].orphanDetached = TRUE, ![k].abandoned = TRUE]
           gone == [call EXCEPT ![k].abandoned = TRUE]
<1>2. k \in own.todo /\ k \in Calls
  BY <1>1, VisitingIsToDo
<1>3. /\ own \in Owner /\ own.by \in {"sweep", "recover"} /\ x \in CallRecord
      /\ Fits(x, proc) /\ call \in [Calls -> CallRecord] /\ JobsOK
      /\ client \in [Calls -> States] /\ given \subseteq Gifts
      /\ \A j \in Calls : Fits(call[j], proc)
  BY <1>1, <1>2, Outside
<1>4. \/ own' = skip /\ UNCHANGED call
      \/ /\ x.at # "none" /\ \E pc \in {"finish", "worker"} :
              own' = [own EXCEPT !.pc = pc, !.k = k]
         /\ UNCHANGED call \/ call' = lost \/ call' = gone
      \/ call' = [call EXCEPT ![k] = NoCall] /\ (own' = Swept \/ own' = skip)
  <2> HIDE DEF k
  <2>1. x.at \in {"none", "calls", "lease"}
    BY <1>3 DEF CallRecord
  <2> QED BY <2>1 DEF Visit, k
<1>5. client' = IF own'.job = own.job THEN client
                ELSE IF own.job.op = "invoke"
                     THEN [client EXCEPT ![own.job.k] = "error"] ELSE client
  BY DEF Visit
<1>6. /\ lost \in [Calls -> CallRecord] /\ gone \in [Calls -> CallRecord]
      /\ lost[k].at = x.at /\ gone[k].at = x.at
      /\ \A j \in Calls : Fits(lost[j], proc) /\ Fits(gone[j], proc)
  <2>1. ASSUME NEW y \in CallRecord
        PROVE  [y EXCEPT !.orphanDetached = TRUE, !.abandoned = TRUE] \in CallRecord
    BY DEF CallRecord
  <2>2. ASSUME NEW y \in CallRecord
        PROVE  [y EXCEPT !.abandoned = TRUE] \in CallRecord
    BY DEF CallRecord
  <2>3. ASSUME NEW y \in CallRecord, Fits(y, proc)
        PROVE  /\ Fits([y EXCEPT !.orphanDetached = TRUE, !.abandoned = TRUE], proc)
               /\ Fits([y EXCEPT !.abandoned = TRUE], proc)
    BY <2>3 DEF CallRecord, Fits
  <2>4. /\ [x EXCEPT !.orphanDetached = TRUE, !.abandoned = TRUE].at = x.at
        /\ [x EXCEPT !.abandoned = TRUE].at = x.at
    BY <1>3 DEF CallRecord
  <2>5. /\ lost = [call EXCEPT ![k] = [x EXCEPT !.orphanDetached = TRUE,
                                               !.abandoned = TRUE]]
        /\ gone = [call EXCEPT ![k] = [x EXCEPT !.abandoned = TRUE]]
    OBVIOUS
  <2> DEFINE lx == [x EXCEPT !.orphanDetached = TRUE, !.abandoned = TRUE]
             gx == [x EXCEPT !.abandoned = TRUE]
  <2>6. /\ lx \in CallRecord /\ gx \in CallRecord
        /\ Fits(lx, proc) /\ Fits(gx, proc) /\ lx.at = x.at /\ gx.at = x.at
        /\ lost = [call EXCEPT ![k] = lx] /\ gone = [call EXCEPT ![k] = gx]
    BY <1>3, <2>1, <2>2, <2>3, <2>4, <2>5
  <2> HIDE DEF lx, gx, lost, gone, k
  <2> QED BY <1>2, <1>3, <2>6
<1> HIDE DEF lost, gone
<1>7. /\ skip \in Owner /\ skip.pc = own.pc /\ skip.by = own.by
      /\ skip.job = own.job
  BY <1>3 DEF Owner
<1> HIDE DEF skip
<1>8. ASSUME own' = skip, UNCHANGED call \/ call' = [call EXCEPT ![k] = NoCall]
      PROVE  IInv'
  <2>1. client' = client /\ own'.job = own.job
    BY <1>5, <1>7, <1>8
  <2>2. JobsOK'
    BY <1>1, <1>3, <2>1, JobsStay
  <2>3. call' \in [Calls -> CallRecord] /\ \A j \in Calls : Fits(call'[j], proc)
    BY <1>3, <1>8, NoCallTypes, Outside
  <2>4. OutsideKeeps
    BY <1>1, <1>3, <1>7, <1>8, <2>1, <2>2, <2>3 DEF OutsideKeeps
  <2> QED BY <1>1, <2>4, Outside, OutsideStep
<1>9. ASSUME own' = Swept, call' = [call EXCEPT ![k] = NoCall]
      PROVE  IInv'
  <2>1. /\ own' \in Owner /\ own'.pc = "next" /\ own'.by = "sweep"
        /\ own'.job = NoJob /\ own'.job.op # "invoke"
    BY <1>3, <1>9, SweptTypes
  <2>2. Answer(own.job.k, "error")
    BY <1>5, <2>1 DEF Answer
  <2>3. JobsOK' /\ client' \in [Calls -> States]
    BY <1>1, <1>3, <2>1, <2>2, AnswerKeeps DEF IInv
  <2>4. call' \in [Calls -> CallRecord] /\ \A j \in Calls : Fits(call'[j], proc)
    <3>1. NoCall \in CallRecord /\ Fits(NoCall, proc)
      BY NoCallTypes, Outside
    <3> HIDE DEF k, x
    <3> QED BY <1>3, <1>9, <3>1
  <2>5. OutsideKeeps
    BY <1>1, <1>3, <2>1, <2>3, <2>4 DEF OutsideKeeps
  <2> QED BY <1>1, <2>5, Outside, OutsideStep
<1>10. ASSUME x.at # "none", NEW pc \in {"finish", "worker"},
              own' = [own EXCEPT !.pc = pc, !.k = k],
              UNCHANGED call \/ call' = lost \/ call' = gone
       PROVE  IInv'
  <2>1. /\ own' \in Owner /\ own'.pc = pc /\ own'.k = k /\ own'.by = own.by
        /\ own'.job = own.job
    <3> HIDE DEF k
    <3> QED BY <1>1, <1>2, <1>3, <1>10 DEF Owner
  <2>2. client' = client
    BY <1>5, <2>1
  <2>3. JobsOK'
    BY <1>1, <1>3, <2>1, <2>2, JobsStay
  <2>4. /\ call' \in [Calls -> CallRecord] /\ \A j \in Calls : Fits(call'[j], proc)
        /\ call'[k].at # "none"
    BY <1>3, <1>6, <1>10
  <2>5. Placed' /\ own'.k \in Present'
    BY <1>1, <1>2, <1>3, <1>10, <2>1, <2>4 DEF Placed, Present
  <2>6. OwnerKeeps(proc)
    BY <1>3, <2>1, <2>2, <2>3, <2>4, <2>5 DEF OwnerKeeps
  <2> QED BY <1>1, <2>6, Outside, RecordStep
<1> QED BY <1>4, <1>8, <1>9, <1>10

(* The owner begins a sweep, and the caller may have been answered.        *)
LEMMA SweptOutside ==
    ASSUME IInv, own' = Swept, jobs' = jobs, call' = call,
           given' \subseteq Gifts,
           client' = client \/ Answer(own.job.k, "error")
    PROVE  OutsideKeeps
<1>1. /\ own' \in Owner /\ own'.pc = "next" /\ own'.by = "sweep"
      /\ own'.job.op # "invoke"
  BY Outside, SweptTypes
<1>2. JobsOK' /\ client' \in [Calls -> States]
  BY <1>1, Outside, JobsStay, AnswerKeeps DEF IInv
<1>3. "next" \notin Working
  BY DEF Working
<1> QED BY <1>1, <1>2, <1>3, Outside DEF OutsideKeeps

(* It goes on outside the records.                                         *)
LEMMA PcOutside ==
    ASSUME IInv, own.pc \notin Working,
           NEW pc \in {"idle", "next", "record", "execute", "again"},
           own' = [own EXCEPT !.pc = pc], jobs' = jobs, client' = client,
           call' \in [Calls -> CallRecord],
           \A k \in Calls : Fits(call'[k], proc), given' \subseteq Gifts
    PROVE  OutsideKeeps
<1>1. own \in Owner /\ own.by \in {"sweep", "recover"}
  BY Outside
<1>2. own' \in Owner /\ own'.pc = pc /\ own'.by = own.by /\ own'.job = own.job
  BY <1>1 DEF Owner
<1>3. JobsOK' /\ client' \in [Calls -> States]
  BY <1>2, Outside, JobsStay
<1>4. pc \notin Working
  BY DEF Working
<1> QED BY <1>1, <1>2, <1>3, <1>4 DEF OutsideKeeps

LEMMA VisitedKeeps == IInv /\ Visited => IInv'
<1> SUFFICES ASSUME IInv, Visited PROVE IInv'
  OBVIOUS
<1>1. /\ own.pc = "next" /\ own.pc \notin Working
      /\ UNCHANGED <<thr, proc, left, sys, jobs, given>>
      /\ "prepare" \in Working /\ "map" \in Working /\ "prepare" \notin InImage
  BY DEF Visited, Working, InImage
<1>2. /\ own \in Owner /\ own.by \in {"sweep", "recover"} /\ JobsOK
      /\ client \in [Calls -> States] /\ given \subseteq Gifts
      /\ call \in [Calls -> CallRecord] /\ \A j \in Calls : Fits(call[j], proc)
  BY <1>1, Outside
<1>3. ASSUME own' = Swept, call' = call,
             client' = client \/ Answer(own.job.k, "error")
      PROVE  IInv'
  <2>1. OutsideKeeps
    BY <1>1, <1>2, <1>3, SweptOutside
  <2> QED BY <1>1, <2>1, Outside, OutsideStep
<1>4. ASSUME own' = [own EXCEPT !.pc = "record"], UNCHANGED <<call, client>>
      PROVE  IInv'
  <2>1. OutsideKeeps
    BY <1>1, <1>2, <1>4, PcOutside
  <2> QED BY <1>1, <2>1, Outside, OutsideStep
<1>5. ASSUME own.job.op = "invoke",
             call' = [call EXCEPT ![own.job.k] =
                        [NoCall EXCEPT !.at = "calls",
                                       !.kind = client[own.job.k]]],
             own' = [own EXCEPT !.pc = "prepare", !.k = own.job.k, !.by = "run",
                                !.ret = "map", !.tried = {}],
             UNCHANGED client
      PROVE  IInv'
  <2> DEFINE j == own.job.k
             x == [NoCall EXCEPT !.at = "calls", !.kind = client[j]]
  <2>1. j \in Calls /\ client[j] \in Kinds
    BY <1>2, <1>5 DEF JobsOK, Waits
  <2>2. x \in CallRecord /\ x.at = "calls" /\ Fits(x, proc)
    <3>1. Fits(NoCall, proc) /\ NoCall \in CallRecord
      BY NoCallTypes, Outside
    <3> HIDE DEF j
    <3> QED BY <2>1, <3>1 DEF CallRecord, Fits
  <2>3. call' = [call EXCEPT ![j] = x]
    BY <1>5
  <2> HIDE DEF x
  <2>4. /\ call' \in [Calls -> CallRecord] /\ call'[j].at = "calls"
        /\ \A i \in Calls : Fits(call'[i], proc)
    <3> HIDE DEF j
    <3> QED BY <1>2, <2>1, <2>2, <2>3
  <2>5. /\ own' \in Owner /\ own'.pc = "prepare" /\ own'.k = j
        /\ own'.by = "run" /\ own'.ret = "map" /\ own'.job = own.job
    <3> HIDE DEF j
    <3> QED BY <1>1, <1>2, <1>5, <2>1 DEF Owner, j
  <2>6. JobsOK'
    BY <1>1, <1>2, <1>5, <2>5, JobsStay
  <2>7. Placed' /\ own'.k \in Present'
    BY <1>1, <1>5, <2>1, <2>4, <2>5 DEF Placed, Present, Returns
  <2>8. OwnerKeeps(proc)
    BY <1>2, <1>5, <2>4, <2>5, <2>6, <2>7 DEF OwnerKeeps
  <2> QED BY <1>1, <2>8, Outside, RecordStep
<1> QED BY <1>2, <1>3, <1>4, <1>5 DEF Visited, Goto

(* A worker's frame that is left to it at exit is a gift.                  *)
LEMMA RecordDoneKeeps ==
    ASSUME IInv, own.pc = "record", RecordDone, jobs' = jobs
    PROVE  OutsideKeeps
<1>1. own.pc \notin Working
  BY DEF Working
<1>2. /\ own \in Owner /\ call \in [Calls -> CallRecord]
      /\ own.by \in {"sweep", "recover"} /\ given \subseteq Gifts
      /\ \A j \in Calls : Fits(call[j], proc)
  BY <1>1, Outside
<1>3. CASE own.by = "sweep"
  <2>1. /\ own' = [own EXCEPT !.pc = "idle"] /\ call' = LeftAtExit
        /\ given' = given \cup {<<call[k].image, call[k].frame>> :
                                  k \in {j \in Calls : LeftAtExit[j] # call[j]}}
        /\ client' = client
    BY <1>3 DEF RecordDone
  <2>2. NoCall \in CallRecord /\ Fits(NoCall, proc)
    BY NoCallTypes, Outside
  <2>3. call' \in [Calls -> CallRecord] /\ \A j \in Calls : Fits(call'[j], proc)
    BY <1>2, <2>1, <2>2 DEF LeftAtExit
  <2>4. \A k \in Calls : <<call[k].image, call[k].frame>> \in Gifts
    BY <1>2 DEF Gifts, CallRecord
  <2>5. given' \subseteq Gifts
    BY <1>2, <2>1, <2>4
  <2> QED BY <1>1, <2>1, <2>3, <2>5, PcOutside
<1>4. CASE own.by # "sweep" /\ own.job.op = "invoke"
  BY <1>1, <1>2, <1>4, PcOutside DEF RecordDone, Goto
<1>5. CASE own.by # "sweep" /\ own.job.op # "invoke"
  BY <1>1, <1>2, <1>5, PcOutside DEF RecordDone, Goto
<1> QED BY <1>3, <1>4, <1>5

LEMMA RecordKeptKeeps ==
    ASSUME IInv, own.pc = "record", RecordKept, jobs' = jobs
    PROVE  OutsideKeeps
BY Outside, RecordDoneKeeps, SweptOutside DEF RecordKept

LEMMA NothingRecordedKeeps == IInv /\ NothingRecorded => IInv'
<1> SUFFICES ASSUME IInv, NothingRecorded PROVE IInv'
  OBVIOUS
<1>1. OutsideKeeps
  BY RecordDoneKeeps DEF NothingRecorded
<1> QED BY <1>1, Outside, OutsideStep DEF NothingRecorded

(* What the service's record becomes.                                      *)
LEMMA SysTypes ==
    ASSUME sys \in Pending, proc.image \in {1, 2}, SysFits(sys, proc)
    PROVE  /\ NoRecord \in Pending /\ SysFits(NoRecord, proc)
           /\ \A r \in {"none", "memory", "spent"} :
                /\ [sys EXCEPT !.rec = r] \in Pending
                /\ SysFits([sys EXCEPT !.rec = r], proc)
           /\ \A t \in Threads :
                /\ [sys EXCEPT !.rec = "memory", !.tid = t] \in Pending
                /\ SysFits([sys EXCEPT !.rec = "memory", !.tid = t], proc)
                /\ [sys EXCEPT !.alloc = 0, !.rec = "memory", !.tid = t] \in Pending
                /\ SysFits([sys EXCEPT !.alloc = 0, !.rec = "memory",
                                       !.tid = t], proc)
<1>1. NoRecord \in Pending /\ SysFits(NoRecord, proc)
  BY DEF NoRecord, Pending, SysFits
<1>2. ASSUME NEW r \in {"none", "memory", "spent"}
      PROVE  /\ [sys EXCEPT !.rec = r] \in Pending
             /\ SysFits([sys EXCEPT !.rec = r], proc)
  BY DEF Pending, SysFits
<1>3. ASSUME NEW t \in Threads
      PROVE  /\ [sys EXCEPT !.rec = "memory", !.tid = t] \in Pending
             /\ SysFits([sys EXCEPT !.rec = "memory", !.tid = t], proc)
  BY DEF Pending, SysFits
<1>4. ASSUME NEW t \in Threads
      PROVE  /\ [sys EXCEPT !.alloc = 0, !.rec = "memory", !.tid = t] \in Pending
             /\ SysFits([sys EXCEPT !.alloc = 0, !.rec = "memory",
                                    !.tid = t], proc)
  BY DEF Pending, SysFits
<1> QED BY <1>1, <1>2, <1>3, <1>4

LEMMA RecordGoneKeeps ==
    ASSUME IInv, own.pc = "record", RecordGone, jobs' = jobs
    PROVE  OutsideKeeps /\ sys' \in Pending /\ SysFits(sys', proc)
<1>1. OutsideKeeps
  BY RecordKeptKeeps DEF RecordGone
<1>2. sys' \in Pending /\ SysFits(sys', proc)
  BY Outside, SysTypes DEF RecordGone
<1> QED BY <1>1, <1>2

(* Nothing but the service's record is touched.                            *)
LEMMA NobodyMoves ==
    ASSUME IInv, own.pc \notin Working, UNCHANGED <<own, call, given, client, jobs>>
    PROVE  OutsideKeeps
<1>1. JobsOK'
  BY JobsStay, Outside
<1> QED BY <1>1, Outside DEF OutsideKeeps

LEMMA RetryContextKeeps == IInv /\ RetryContext => IInv'
<1> SUFFICES ASSUME IInv, RetryContext PROVE IInv'
  OBVIOUS
<1>1. /\ own.pc = "record" /\ own.pc \notin Working
      /\ UNCHANGED <<proc, jobs>>
  BY DEF RetryContext, Working
<1>2. /\ sys \in Pending /\ SysFits(sys, proc) /\ proc.image \in {1, 2}
      /\ thr \in [Threads -> Thread] /\ left \in [Events -> Nat]
      /\ jobs' \in Seq(Job) /\ SameProgram
  BY <1>1, Outside
<1> DEFINE t == sys.tid
           spent == [sys EXCEPT !.rec = "none"]
<1>3. spent \in Pending /\ SysFits(spent, proc)
  BY <1>2, SysTypes
<1> HIDE DEF spent
<1>4. ASSUME sys' = spent, UNCHANGED <<own, call, given, client>>,
             thr' \in [Threads -> Thread], left' = left
      PROVE  IInv'
  BY <1>1, <1>2, <1>3, <1>4, NobodyMoves, OutsideStep
<1>5. ASSUME RecordGone, thr' \in [Threads -> Thread], left' = left
      PROVE  IInv'
  BY <1>1, <1>2, <1>5, RecordGoneKeeps, OutsideStep
<1>6. ASSUME Spend("fault"), RecordKept, UNCHANGED <<thr, sys>>
      PROVE  IInv'
  <2>1. left' \in [Events -> Nat]
    BY <1>2, <1>6, SpendTypes DEF Events
  <2> QED BY <1>1, <1>2, <1>6, <2>1, RecordKeptKeeps, OutsideStep
<1>7. /\ UNCHANGED thr => thr' \in [Threads -> Thread]
      /\ thr' = Waited(t) => thr' \in [Threads -> Thread]
      /\ thr' = [thr EXCEPT ![t].hold = "free", ![t].regs = "own"]
           => thr' \in [Threads -> Thread]
  <2> HIDE DEF t
  <2>1. thr' = Waited(t) => thr' \in [Threads -> Thread]
    BY <1>2, WaitedTypes
  <2>2. thr' = [thr EXCEPT ![t].hold = "free", ![t].regs = "own"]
          => thr' \in [Threads -> Thread]
    <3>1. [thr EXCEPT ![t].hold = "free", ![t].regs = "own"] \in [Threads -> Thread]
      BY <1>2, ContextTypes
    <3> QED BY <3>1
  <2> QED BY <1>2, <2>1, <2>2
<1> QED BY <1>4, <1>5, <1>6, <1>7 DEF RetryContext, spent

(* The service unmaps only what is in the image of its record.             *)
LEMMA ServiceUnmapsItsOwn ==
    ASSUME IInv, sys.alloc # 0,
           ImageOf([NoCall EXCEPT !.image = sys.image]) = "ok",
           proc' = Unmapped(sys.alloc)
    PROVE  SameProgram
<1>1. sys \in Pending /\ SysFits(sys, proc) /\ proc \in Process
  BY Outside
<1>2. sys.image \in {0, proc.image}
  BY DEF ImageOf, NoCall
<1>3. sys.alloc \notin proc.theirs
  BY <1>1, <1>2 DEF SysFits
<1> QED BY <1>1, <1>3 DEF Unmapped, SameProgram, Process

LEMMA RetryAllocationKeeps == IInv /\ RetryAllocation => IInv'
<1> SUFFICES ASSUME IInv, RetryAllocation PROVE IInv'
  OBVIOUS
<1>1. own.pc = "record" /\ own.pc \notin Working /\ jobs' = jobs
  BY DEF RetryAllocation, Working
<1>2. /\ sys \in Pending /\ SysFits(sys, proc) /\ proc.image \in {1, 2}
      /\ thr \in [Threads -> Thread] /\ left \in [Events -> Nat]
      /\ jobs' \in Seq(Job) /\ (UNCHANGED proc => SameProgram)
  BY <1>1, Outside
<1> DEFINE live == ImageOf([NoCall EXCEPT !.image = sys.image]) = "ok"
           m == MemoryTask
           lent == [sys EXCEPT !.rec = "memory", !.tid = m]
           freed == [sys EXCEPT !.alloc = 0, !.rec = "memory", !.tid = m]
<1>3. m \in Threads
  BY MemoryTaskIsThread
<1> HIDE DEF m
<1>4. /\ NoRecord \in Pending /\ SysFits(NoRecord, proc)
      /\ lent \in Pending /\ SysFits(lent, proc)
      /\ freed \in Pending /\ SysFits(freed, proc)
  BY <1>2, <1>3, SysTypes
<1> HIDE DEF lent, freed
<1>5. ASSUME SameProgram, sys' \in Pending, SysFits(sys', proc),
             RecordDone \/ RecordKept,
             thr' \in [Threads -> Thread], left' \in [Events -> Nat]
      PROVE  IInv'
  BY <1>1, <1>2, <1>5, RecordDoneKeeps, RecordKeptKeeps, OutsideStep
<1>6. ASSUME RecordGone, UNCHANGED <<thr, proc, left>>
      PROVE  IInv'
  BY <1>1, <1>2, <1>6, RecordGoneKeeps, OutsideStep
<1>7. /\ UNCHANGED thr => thr' \in [Threads -> Thread]
      /\ thr' = Lent(m) => thr' \in [Threads -> Thread]
      /\ UNCHANGED left => left' \in [Events -> Nat]
      /\ Spend("fault") => left' \in [Events -> Nat]
  BY <1>2, LentTypes, SpendTypes DEF Events
<1>8. sys.alloc # 0 /\ live /\ proc' = Unmapped(sys.alloc) => SameProgram
  BY ServiceUnmapsItsOwn
<1>9. \/ sys' = NoRecord /\ RecordDone /\ UNCHANGED <<thr, proc, left>>
      \/ RecordGone /\ UNCHANGED <<thr, proc, left>>
      \/ /\ sys.alloc # 0 /\ live /\ proc' = Unmapped(sys.alloc)
         /\ sys' = NoRecord /\ RecordDone /\ UNCHANGED <<thr, left>>
      \/ Spend("fault") /\ UNCHANGED <<thr, proc, sys>> /\ RecordKept
      \/ /\ sys.alloc # 0 /\ live /\ Spend("fault") /\ thr' = Lent(m)
         /\ proc' = Unmapped(sys.alloc) /\ sys' = freed /\ RecordKept
      \/ /\ Spend("fault") /\ thr' = Lent(m) /\ sys' = lent
         /\ UNCHANGED proc /\ RecordKept
      \/ RecordKept /\ UNCHANGED <<thr, proc, left, sys>>
  <2> HIDE DEF live
  <2> QED BY DEF RetryAllocation, m, lent, freed, live
<1> HIDE DEF live
<1> QED BY <1>2, <1>4, <1>5, <1>6, <1>7, <1>8, <1>9

LEMMA ExecuteKeeps == IInv /\ Execute => IInv'
<1> SUFFICES ASSUME IInv, Execute PROVE IInv'
  OBVIOUS
<1>1. /\ own.pc = "execute" /\ own.pc \notin Working
      /\ UNCHANGED <<call, jobs, client>>
  BY DEF Execute, Working
<1>2. /\ sys \in Pending /\ SysFits(sys, proc) /\ proc.image \in {1, 2}
      /\ thr \in [Threads -> Thread] /\ left \in [Events -> Nat]
      /\ jobs' \in Seq(Job) /\ (UNCHANGED proc => SameProgram)
      /\ given \subseteq Gifts /\ call \in [Calls -> CallRecord]
      /\ proc \in Process /\ \A k \in Calls : Fits(call[k], proc)
  BY <1>1, Outside
<1> DEFINE t == MemoryTask
           map == own.job.op = "map"
           f == IF FreeFrame = {} THEN 0 ELSE Min(FreeFrame)
           done == IF map THEN [proc EXCEPT !.mapped = @ \cup {f}]
                   ELSE [proc EXCEPT !.code[own.job.k] = FALSE]
           kept == [on |-> TRUE, rec |-> "memory", tid |-> t, alloc |-> 0,
                    image |-> proc.image]
           got == [kept EXCEPT !.alloc = IF map THEN f ELSE 0]
           can == /\ ~Dead(t) /\ thr[t].hold = "free" /\ proc.execing = None
                  /\ map => f # 0
<1>3. t \in Threads
  BY MemoryTaskIsThread
<1>4. f # 0 => f \in Frames /\ f \notin proc.theirs
  <2>1. FreeFrame \subseteq Nat /\ FreeFrame \subseteq Frames
    BY TargetConstants DEF FreeFrame
  <2>2. FreeFrame # {} => Min(FreeFrame) \in FreeFrame
    BY <2>1, LeastIsIn
  <2> QED BY <2>1, <2>2 DEF FreeFrame
<1> HIDE DEF t, f
<1>5. ASSUME can, proc' = done PROVE SameProgram
  <2>1. CASE map
    <3>1. f \in Frames
      BY <1>4, <1>5, <2>1
    <3> QED BY <1>2, <1>5, <2>1, <3>1 DEF SameProgram, Process
  <2>2. CASE ~map
    BY <1>2, <1>5, <2>2 DEF SameProgram, Process
  <2> QED BY <2>1, <2>2
<1>6. kept \in Pending /\ SysFits(kept, proc)
  BY <1>2, <1>3 DEF Pending, SysFits
<1>7. ASSUME can PROVE got \in Pending /\ SysFits(got, proc)
  <2> DEFINE a == IF map THEN f ELSE 0
  <2>1. a \in Frames \cup {0} /\ (a # 0 => a \notin proc.theirs)
    BY <1>4, <1>7
  <2>2. got = [kept EXCEPT !.alloc = a] /\ kept.image = proc.image
    OBVIOUS
  <2> HIDE DEF a, kept, got
  <2>3. got \in Pending
    BY <1>6, <2>1, <2>2, ZenonT(60) DEF Pending
  <2>4. got.alloc = a /\ got.image = kept.image
    BY <1>6, <2>2 DEF Pending
  <2> QED BY <1>2, <1>6, <2>1, <2>2, <2>3, <2>4 DEF Pending, SysFits
<1>8. ASSUME can, given' = IF map THEN given \cup {<<proc.image, f>>} ELSE given
      PROVE  given' \subseteq Gifts
  <2>1. map => <<proc.image, f>> \in Gifts
    BY <1>2, <1>4, <1>8 DEF Gifts
  <2> QED BY <1>2, <1>8, <2>1
<1>9. /\ UNCHANGED thr => thr' \in [Threads -> Thread]
      /\ thr' = Lent(t) => thr' \in [Threads -> Thread]
      /\ UNCHANGED left => left' \in [Events -> Nat]
      /\ Spend("fault") => left' \in [Events -> Nat]
  BY <1>2, LentTypes, SpendTypes DEF Events
<1> HIDE DEF kept, got, done, can
<1>10. \/ own' = Swept /\ UNCHANGED <<thr, proc, left, sys, given>>
       \/ /\ can /\ proc' = done /\ own' = Swept /\ UNCHANGED <<thr, left, sys>>
          /\ given' = IF map THEN given \cup {<<proc.image, f>>} ELSE given
       \/ Spend("fault") /\ own' = Swept /\ UNCHANGED <<thr, proc, sys, given>>
       \/ /\ Spend("fault") /\ thr' = Lent(t) /\ sys' = kept /\ own' = Swept
          /\ UNCHANGED <<proc, given>>
       \/ /\ can /\ Spend("fault") /\ thr' = Lent(t) /\ proc' = done /\ sys' = got
          /\ Goto("again") /\ UNCHANGED given
  BY DEF Execute, t, f, kept, got, done, can
<1>11. ASSUME own' = Swept, given' \subseteq Gifts
       PROVE  OutsideKeeps
  BY <1>1, <1>11, SweptOutside
<1>12. ASSUME Goto("again"), UNCHANGED given
       PROVE  OutsideKeeps
  BY <1>1, <1>2, <1>12, PcOutside DEF Goto
<1>13. ASSUME OutsideKeeps, SameProgram, sys' \in Pending, SysFits(sys', proc),
              thr' \in [Threads -> Thread], left' \in [Events -> Nat]
       PROVE  IInv'
  BY <1>2, <1>13, OutsideStep
<1> QED BY <1>2, <1>5, <1>6, <1>7, <1>8, <1>9, <1>10, <1>11, <1>12, <1>13

LEMMA ExecuteAgainKeeps == IInv /\ ExecuteAgain => IInv'
<1> SUFFICES ASSUME IInv, ExecuteAgain PROVE IInv'
  OBVIOUS
<1>1. own' = Swept /\ UNCHANGED <<proc, call, jobs, client>>
  BY DEF ExecuteAgain
<1>2. /\ sys \in Pending /\ SysFits(sys, proc) /\ proc.image \in {1, 2}
      /\ thr \in [Threads -> Thread] /\ left \in [Events -> Nat]
      /\ jobs' \in Seq(Job) /\ SameProgram /\ given \subseteq Gifts
  BY <1>1, Outside
<1> DEFINE t == sys.tid
           spent == [sys EXCEPT !.rec = "spent"]
<1>3. /\ NoRecord \in Pending /\ SysFits(NoRecord, proc)
      /\ spent \in Pending /\ SysFits(spent, proc)
  BY <1>2, SysTypes
<1>4. given' \subseteq Gifts
  <2>1. <<sys.image, sys.alloc>> \in Gifts
    BY <1>2 DEF Pending, Gifts
  <2> QED BY <1>2, <2>1 DEF ExecuteAgain
<1>5. OutsideKeeps
  BY <1>1, <1>4, SweptOutside
<1>6. sys' \in Pending /\ SysFits(sys', proc)
  <2> HIDE DEF spent
  <2>1. sys' \in {NoRecord, sys, spent}
    BY DEF ExecuteAgain, spent
  <2> QED BY <1>2, <1>3, <2>1
<1>7. left' \in [Events -> Nat]
  BY <1>2, SpendTypes DEF ExecuteAgain, Events
<1>8. thr' \in [Threads -> Thread]
  <2> HIDE DEF t
  <2>1. [thr EXCEPT ![t].hold = "free", ![t].regs = "own"] \in [Threads -> Thread]
    BY <1>2, ContextTypes
  <2>2. Waited(t) \in [Threads -> Thread]
    BY <1>2, WaitedTypes
  <2>3. thr' \in {thr, Waited(t), [thr EXCEPT ![t].hold = "free", ![t].regs = "own"]}
    BY DEF ExecuteAgain, t
  <2> QED BY <1>2, <2>1, <2>2, <2>3
<1> QED BY <1>2, <1>5, <1>6, <1>7, <1>8, OutsideStep

LEMMA ResumeKeeps == IInv /\ Resume => IInv'
<1> SUFFICES ASSUME IInv, Resume PROVE IInv'
  OBVIOUS
<1>1. /\ own.pc = "resume" /\ own.pc \notin Working /\ "next" \notin Working
      /\ UNCHANGED <<proc, left, call, sys, jobs, client, given>>
  BY DEF Resume, Working
<1>2. /\ own \in Owner /\ own.by \in {"sweep", "recover"} /\ JobsOK
      /\ thr \in [Threads -> Thread]
  BY <1>1, Outside
<1>3. ASSUME own' = Swept, thr' = thr PROVE IInv'
  BY <1>1, <1>3, Outside, SweptOutside, OutsideStep
<1>4. ASSUME NEW t, thr' = [thr EXCEPT ![t].hold = "seized", ![t].regs = "call"],
             own' = [own EXCEPT !.pc = "next", !.todo = Present]
      PROVE  IInv'
  <2>1. thr' \in [Threads -> Thread]
    BY <1>2, <1>4, ContextTypes
  <2>2. /\ own' \in Owner /\ own'.pc = "next" /\ own'.by = own.by
        /\ own'.job = own.job
    BY <1>2, <1>4, PresentCalls DEF Owner
  <2>3. JobsOK'
    BY <1>1, <1>2, <2>2, JobsStay
  <2>4. OutsideKeeps
    BY <1>1, <1>2, <2>2, <2>3, Outside DEF OutsideKeeps
  <2> QED BY <1>1, <2>1, <2>4, Outside, OutsideStep
<1> QED BY <1>3, <1>4 DEF Resume

-----------------------------------------------------------------------------
(* Front ends, the target, and what is proved.                             *)

(* The owner and its records are not involved.                             *)
LEMMA ClientStep ==
    ASSUME IInv, JobsOK', client' \in [Calls -> States], jobs' \in Seq(Job),
           SameProgram, UNCHANGED <<thr, call, sys, given>>,
           left' \in [Events -> Nat], own' \in Owner, own'.pc = own.pc,
           own'.k = own.k, own'.by = own.by, own'.ret = own.ret,
           own'.job = own.job
    PROVE  IInv'
<1>1. TypeOK'
  BY DEF IInv, TypeOK, TargetTypeOK, SameProgram, States, Present
<1>2. Placed'
  BY DEF IInv, Placed
<1>3. Bound'
  BY DEF IInv, Bound, SameProgram, Fits, SysFits
<1> QED BY <1>1, <1>2, <1>3 DEF IInv

(* A job of a call that had none is queued.                                *)
LEMMA AppendKeeps ==
    ASSUME IInv, NEW job \in Job, jobs' = Append(jobs, job), own'.job = own.job,
           \A k \in Calls : client[k] \in Kinds => client'[k] = client[k],
           job.op = "invoke" => /\ job.k \in Calls /\ client[job.k] \notin Kinds
                                /\ client'[job.k] \in Kinds
    PROVE  JobsOK' /\ jobs' \in Seq(Job)
<1>1. JobsOK /\ jobs \in Seq(Job)
  BY Outside
<1>2. /\ jobs' \in Seq(Job) /\ Len(jobs) \in Nat
      /\ \A i \in DOMAIN jobs' :
           \/ i \in DOMAIN jobs /\ jobs'[i] = jobs[i] /\ i # Len(jobs) + 1
           \/ i = Len(jobs) + 1 /\ jobs'[i] = job
  BY <1>1
<1>3. ASSUME NEW i \in DOMAIN jobs'
      PROVE  jobs'[i].op = "invoke" =>
               jobs'[i].k \in Calls /\ client'[jobs'[i].k] \in Kinds
  BY <1>1, <1>2 DEF JobsOK, Waits
<1>4. own'.job.op = "invoke" =>
        own'.job.k \in Calls /\ client'[own'.job.k] \in Kinds
  BY <1>1 DEF JobsOK, Waits
<1>5. ASSUME NEW i \in DOMAIN jobs', NEW j \in DOMAIN jobs', i # j,
             jobs'[i].op = "invoke", jobs'[j].op = "invoke"
      PROVE  jobs'[i].k # jobs'[j].k
  BY <1>1, <1>2, <1>5 DEF JobsOK, Waits
<1>6. ASSUME NEW i \in DOMAIN jobs', jobs'[i].op = "invoke",
             own'.job.op = "invoke"
      PROVE  jobs'[i].k # own'.job.k
  BY <1>1, <1>2, <1>6 DEF JobsOK, Waits
<1> QED BY <1>2, <1>3, <1>4, <1>5, <1>6 DEF JobsOK, Waits

LEMMA SubmitKeeps ==
    ASSUME IInv, NEW k \in Calls, NEW kind \in Kinds, Submit(k, kind)
    PROVE  IInv'
<1>1. /\ client[k] = "idle" /\ client' = [client EXCEPT ![k] = kind]
      /\ jobs' = Append(jobs, [op |-> "invoke", k |-> k])
      /\ Spend("call") /\ UNCHANGED <<thr, proc, call, sys, own, given>>
  BY DEF Submit
<1>2. /\ client \in [Calls -> States] /\ own \in Owner
      /\ left \in [Events -> Nat] /\ SameProgram
  BY <1>1, Outside
<1> DEFINE job == [op |-> "invoke", k |-> k]
<1>3. job \in Job /\ job.op = "invoke" /\ job.k = k
  BY DEF Job
<1>4. "idle" \notin Kinds
  BY DEF Kinds
<1>5. /\ client' \in [Calls -> States]
      /\ \A j \in Calls : client[j] \in Kinds => client'[j] = client[j]
      /\ client'[k] \in Kinds
  BY <1>1, <1>2, <1>4 DEF States
<1> HIDE DEF job
<1>6. JobsOK' /\ jobs' \in Seq(Job)
  BY <1>1, <1>3, <1>4, <1>5, AppendKeeps DEF job
<1>7. left' \in [Events -> Nat]
  BY <1>1, <1>2, SpendTypes DEF Events
<1> QED BY <1>1, <1>2, <1>5, <1>6, <1>7, ClientStep

LEMMA SubmitOtherKeeps ==
    ASSUME IInv, NEW op \in {"resume", "map", "free"}, NEW k \in Calls \cup {0},
           SubmitOther(op, k)
    PROVE  IInv'
<1>1. /\ jobs' = Append(jobs, [op |-> op, k |-> k]) /\ Spend(op)
      /\ UNCHANGED <<thr, proc, call, sys, own, client, given>>
  BY DEF SubmitOther
<1>2. /\ client \in [Calls -> States] /\ own \in Owner
      /\ left \in [Events -> Nat] /\ SameProgram
  BY <1>1, Outside
<1> DEFINE job == [op |-> op, k |-> k]
<1>3. job \in Job /\ job.op # "invoke"
  BY DEF Job
<1> HIDE DEF job
<1>4. JobsOK' /\ jobs' \in Seq(Job)
  BY <1>1, <1>3, AppendKeeps DEF job
<1>5. left' \in [Events -> Nat]
  BY <1>1, <1>2, SpendTypes DEF Events
<1> QED BY <1>1, <1>2, <1>4, <1>5, ClientStep

(* A front end that has its answer is no job's caller.                     *)
LEMMA ClientKeeps ==
    ASSUME IInv, NEW k \in Calls, client[k] \notin Kinds, NEW s \in States,
           client' = [client EXCEPT ![k] = s], jobs' = jobs, own' = own
    PROVE  JobsOK' /\ client' \in [Calls -> States]
<1>1. client \in [Calls -> States] /\ JobsOK
  BY Outside
<1> QED BY <1>1 DEF JobsOK, Waits

LEMMA ReleaseKeeps ==
    ASSUME IInv, NEW k \in Calls, Release(k)
    PROVE  IInv'
<1>1. /\ client[k] \in {"held", "expired"}
      /\ client' = [client EXCEPT ![k] = "released"]
      /\ proc' = [proc EXCEPT !.handle[k] = "done"]
      /\ UNCHANGED <<thr, left, call, sys, own, jobs, given>>
  BY DEF Release
<1>2. /\ proc \in Process /\ own \in Owner /\ left \in [Events -> Nat]
      /\ jobs \in Seq(Job)
  BY Outside
<1>3. SameProgram
  BY <1>1, <1>2 DEF Process, SameProgram
<1>4. client[k] \notin Kinds /\ "released" \in States
  BY <1>1 DEF Kinds, States
<1>5. JobsOK' /\ client' \in [Calls -> States]
  BY <1>1, <1>4, ClientKeeps
<1> QED BY <1>1, <1>2, <1>3, <1>5, ClientStep

LEMMA ExpireKeeps ==
    ASSUME IInv, NEW k \in Calls, Expire(k)
    PROVE  IInv'
<1>1. /\ client[k] = "held" /\ client' = [client EXCEPT ![k] = "expired"]
      /\ UNCHANGED <<thr, proc, left, call, sys, own, jobs, given>>
  BY DEF Expire
<1>2. /\ SameProgram /\ own \in Owner /\ left \in [Events -> Nat]
      /\ jobs \in Seq(Job)
  BY <1>1, Outside
<1>4. client[k] \notin Kinds /\ "expired" \in States
  BY <1>1 DEF Kinds, States
<1>5. JobsOK' /\ client' \in [Calls -> States]
  BY <1>1, <1>4, ClientKeeps
<1> QED BY <1>1, <1>2, <1>5, ClientStep

LEMMA ShutdownKeeps == IInv /\ Shutdown => IInv'
<1> SUFFICES ASSUME IInv, Shutdown PROVE IInv'
  OBVIOUS
<1>1. /\ Spend("stop") /\ own' = [own EXCEPT !.stop = TRUE]
      /\ UNCHANGED <<thr, proc, call, sys, jobs, client, given>>
  BY DEF Shutdown
<1>2. /\ SameProgram /\ own \in Owner /\ left \in [Events -> Nat]
      /\ jobs \in Seq(Job) /\ client \in [Calls -> States] /\ JobsOK
  BY <1>1, Outside
<1>3. /\ own' \in Owner /\ own'.pc = own.pc /\ own'.k = own.k
      /\ own'.by = own.by /\ own'.ret = own.ret /\ own'.job = own.job
  BY <1>1, <1>2 DEF Owner
<1>4. JobsOK'
  BY <1>1, <1>2, <1>3, JobsStay
<1>5. left' \in [Events -> Nat]
  BY <1>1, <1>2, SpendTypes DEF Events
<1> QED BY <1>1, <1>2, <1>3, <1>4, <1>5, ClientStep

LEMMA StopsLateKeeps ==
    ASSUME IInv, NEW t \in Threads, StopsLate(t)
    PROVE  IInv'
<1>1. thr' = [thr EXCEPT ![t].hold = "stopped"]
      /\ UNCHANGED <<proc, left, call, sys, own, jobs, client, given>>
  BY DEF StopsLate
<1>2. thr' \in [Threads -> Thread]
  BY <1>1, Outside, HoldTypes
<1>3. JobsOK'
  BY <1>1, Outside, JobsStay
<1>4. TypeOK'
  BY <1>1, <1>2 DEF IInv, TypeOK, TargetTypeOK, Present
<1>5. Placed' /\ Bound'
  BY <1>1 DEF IInv, Placed, Bound, Fits, SysFits
<1> QED BY <1>3, <1>4, <1>5 DEF IInv

(* A new program makes every record one of a past image.                   *)
LEMMA TargetNextKeeps ==
    ASSUME IInv, TargetNext, UNCHANGED <<call, sys, own, jobs, client, given>>
    PROVE  IInv' /\ (proc'.image = proc.image => proc.theirs \subseteq proc'.theirs)
<1>1. TargetKeeps
  BY TargetStep DEF IInv, TypeOK, Bound
<1>2. JobsOK'
  BY Outside, JobsStay
<1>3. TypeOK'
  BY <1>1 DEF IInv, TypeOK, TargetKeeps, Present
<1>4. Placed'
  BY DEF IInv, Placed
<1>5. Bound'
  <2>1. /\ \A k \in Calls : call[k].image \in 0..2 /\ Fits(call[k], proc)
        /\ sys.image \in 0..2 /\ SysFits(sys, proc)
    BY Outside DEF CallRecord, Pending
  <2>2. CASE proc'.image = proc.image /\ proc'.theirs = proc.theirs
    BY <1>1, <2>1, <2>2 DEF Bound, TargetKeeps, Fits, SysFits
  <2>3. CASE proc.image = 1 /\ proc'.image = 2
    <3>1. \A k \in Calls : Fits(call[k], proc')
      BY <2>1, <2>3 DEF Fits
    <3>2. SysFits(sys, proc')
      BY <2>1, <2>3 DEF SysFits
    <3> QED BY <1>1, <3>1, <3>2 DEF Bound, TargetKeeps
  <2> QED BY <1>1, <2>2, <2>3 DEF TargetKeeps
<1> QED BY <1>1, <1>2, <1>3, <1>4, <1>5 DEF IInv, TargetKeeps

LEMMA InitIInv == Init => IInv
<1> SUFFICES ASSUME Init PROVE IInv
  OBVIOUS
<1> USE DEF Init, TargetInit
<1>1. TargetTypeOK
  BY TargetConstants, FreshTypes DEF TargetTypeOK, Process, NoHandles
<1>2. call \in [Calls -> CallRecord] /\ own \in Owner
  <2>1. NoJob \in Job
    BY DEF NoJob, Job
  <2>2. Idle \in Owner
    BY <2>1 DEF Idle, Owner
  <2> QED BY <2>2, NoCallTypes
<1>3. sys \in Pending /\ SysFits(sys, proc)
  BY DEF NoRecord, Pending, SysFits
<1>4. own.pc = "idle" /\ own.by = "sweep" /\ own.job.op = "none"
  BY DEF Idle, NoJob
<1>5. TypeOK
  BY <1>1, <1>2, <1>3, <1>4 DEF TypeOK, Working, Kinds
<1>6. JobsOK
  BY <1>4 DEF JobsOK, Waits
<1>7. Placed
  BY <1>4 DEF Placed, InImage
<1>8. Bound
  BY <1>3, NoCallTypes DEF Bound
<1> QED BY <1>5, <1>6, <1>7, <1>8 DEF IInv

LEMMA NextIInv == IInv /\ [Next]_vars => IInv'
<1> SUFFICES ASSUME IInv, [Next]_vars PROVE IInv'
  OBVIOUS
<1>1. CASE OwnerNext
  BY <1>1, TakeJobKeeps, SweepKeeps, ExitKeeps, VisitKeeps, VisitedKeeps,
     NothingRecordedKeeps, RetryContextKeeps, RetryAllocationKeeps,
     ExecuteKeeps, ExecuteAgainKeeps, NothingToRecoverKeeps, RecoverKeeps,
     RecoverRunningKeeps, RecoverDeadKeeps, RecoverSpentKeeps, RecoverExecKeeps,
     FinishImageKeeps, MaintainWorkerKeeps, ReclaimKeeps, PrepareSeizeKeeps,
     PrepareFailsKeeps, PrepareStopKeeps, PrepareCheckKeeps, BindMemoryKeeps,
     MapFrameKeeps, StageKeeps, StartFunctionKeeps, AwaitFunctionKeeps,
     ReadOutputKeeps, StartWorkerKeeps, DetachOrphanKeeps, UnmapFrameKeeps,
     DetachKeeps, ResumeKeeps DEF OwnerNext
<1>2. CASE ClientNext
  BY <1>2, SubmitKeeps, SubmitOtherKeeps, ReleaseKeeps, ExpireKeeps,
     ShutdownKeeps DEF ClientNext
<1>3. CASE EnvironmentNext
  BY <1>3, StopsLateKeeps, TargetNextKeeps DEF EnvironmentNext
<1>4. CASE UNCHANGED vars
  <2>1. UNCHANGED <<thr, proc, left, call, sys, own, jobs, client, given>>
    BY <1>4 DEF vars
  <2>2. JobsOK'
    BY <2>1, Outside, JobsStay
  <2>3. TypeOK'
    BY <2>1 DEF IInv, TypeOK, TargetTypeOK, Present
  <2>4. Placed' /\ Bound'
    BY <2>1 DEF IInv, Placed, Bound, Fits, SysFits
  <2> QED BY <2>2, <2>3, <2>4 DEF IInv
<1> QED BY <1>1, <1>2, <1>3, <1>4 DEF Next

(* The steps that change what is mapped in the target, one by one.         *)
LEMMA ProgramStep ==
    ASSUME IInv, [Next]_vars, proc'.image = proc.image
    PROVE  proc.theirs \subseteq proc'.theirs
<1>1. ASSUME SameProgram PROVE proc.theirs \subseteq proc'.theirs
  BY <1>1 DEF SameProgram
<1>2. CASE MapFrame
  <2>1. own.pc \in Working
    BY <1>2 DEF MapFrame, Working
  <2>2. proc \in Process
    BY <2>1, Current
  <2>3. proc' = proc \/ proc' = [proc EXCEPT !.mapped = @ \cup {Min(FreeFrame)}]
    BY <1>2 DEF MapFrame
  <2> QED BY <2>2, <2>3 DEF Process
<1>3. CASE StartWorker
  <2>1. proc \in Process
    BY Outside
  <2>2. proc' = proc \/ \E s : proc' = [proc EXCEPT !.worker[own.k] = s]
    BY <1>3 DEF StartWorker
  <2> QED BY <2>1, <2>2 DEF Process
<1>4. CASE UnmapFrame
  <2>1. own.pc \in Working
    BY <1>4 DEF UnmapFrame, Working
  <2>2. proc' = proc \/ (c.frame # 0 /\ ~Unusable /\ proc' = Unmapped(c.frame))
    BY <1>4 DEF UnmapFrame
  <2> QED BY <1>1, <2>1, <2>2, UnmapsItsOwn
<1>5. CASE RetryAllocation
  <2>1. \/ proc' = proc
        \/ /\ sys.alloc # 0 /\ proc' = Unmapped(sys.alloc)
           /\ ImageOf([NoCall EXCEPT !.image = sys.image]) = "ok"
    BY <1>5 DEF RetryAllocation
  <2> QED BY <1>1, <2>1, ServiceUnmapsItsOwn
<1>6. CASE Execute
  <2>1. proc \in Process
    BY Outside
  <2>2. \/ proc' = proc
        \/ \E f : proc' = [proc EXCEPT !.mapped = @ \cup {f}]
        \/ proc' = [proc EXCEPT !.code[own.job.k] = FALSE]
    BY <1>6 DEF Execute
  <2> QED BY <2>1, <2>2 DEF Process
<1>7. ASSUME NEW k \in Calls, Release(k)
      PROVE  proc.theirs \subseteq proc'.theirs
  <2>1. proc \in Process
    BY Outside
  <2> QED BY <1>7, <2>1 DEF Release, Process
<1>8. CASE TargetNext /\ UNCHANGED <<call, sys, own, jobs, client, given>>
  BY <1>8, TargetNextKeeps
<1>9. ASSUME UNCHANGED proc PROVE proc.theirs \subseteq proc'.theirs
  BY <1>9
<1>10. CASE OwnerNext
  <2>1. \/ MapFrame \/ StartWorker \/ UnmapFrame \/ RetryAllocation \/ Execute
        \/ UNCHANGED proc
    BY <1>10 DEF OwnerNext, TakeJob, Sweep, Exit, Visit, Visited,
         NothingRecorded, RetryContext, ExecuteAgain, NothingToRecover, Recover,
         RecoverRunning, RecoverDead, RecoverSpent, RecoverExec, FinishImage,
         MaintainWorker, Reclaim, PrepareSeize, PrepareFails, PrepareStop,
         PrepareCheck, BindMemory, Stage, StartFunction, AwaitFunction,
         ReadOutput, DetachOrphan, Detach, Resume
  <2> QED BY <1>2, <1>3, <1>4, <1>5, <1>6, <1>9, <2>1
<1>11. CASE ClientNext
  BY <1>7, <1>9, <1>11 DEF ClientNext, Submit, SubmitOther, Expire, Shutdown
<1>12. CASE EnvironmentNext
  BY <1>8, <1>9, <1>12 DEF EnvironmentNext, StopsLate
<1>13. CASE UNCHANGED vars
  BY <1>9, <1>13 DEF vars
<1> QED BY <1>10, <1>11, <1>12, <1>13 DEF Next

(* Every record, job and place of the owner keeps its kind, and the owner  *)
(* is never at a place of finish() or run() without a record.              *)
THEOREM CallTypes == Spec => []TypeOK
<1>1. Spec => []IInv
  BY InitIInv, NextIInv, PTL DEF Spec
<1>2. IInv => TypeOK
  BY DEF IInv
<1> QED BY <1>1, <1>2, PTL

(* What the running program mapped stays mapped: a record made in one      *)
(* program never unmaps what the next one put at the same address, however *)
(* often unmapping, restoring or a transfer failed before.                 *)
THEOREM CallsKeepTheProgram == Spec => ProgramKept
<1>1. Spec => []IInv
  BY InitIInv, NextIInv, PTL DEF Spec
<1>2. IInv /\ [Next]_vars =>
        [proc'.image = proc.image => proc.theirs \subseteq proc'.theirs]_vars
  BY ProgramStep
<1> QED BY <1>1, <1>2, PTL DEF Spec, ProgramKept

-----------------------------------------------------------------------------
=============================================================================
