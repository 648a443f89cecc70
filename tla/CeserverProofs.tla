--------------------------- MODULE CeserverProofs ---------------------------
(***************************************************************************)
(* Machine-checked proofs about Ceserver, for any number of threads,       *)
(* connections, handles and processes.                                     *)
(*                                                                         *)
(* The invariants the run checks are not inductive.  What carries them is  *)
(* the lock discipline of the client (whoever is inside a transaction      *)
(* holds the lock, so the connection changes under nobody), the history of *)
(* a handle table (a number is issued once, so what it names is fixed or   *)
(* gone), and the life of a connection from its backlog to its worker.     *)
(***************************************************************************)
EXTENDS Ceserver, FiniteSetTheorems, SequenceTheorems, TLAPS

(***************************************************************************)
(* Types.                                                                  *)
(***************************************************************************)
Free == {"plain", "open", "snap", "entry"}     \* commands that name no process
Cmd == Free \cup {"arch"} \cup MemoryCmd \cup DebugCmd \cup ContextCmd

Req == [cmd : Cmd, h : Nat, arg : Proc \cup Tid \cup Slot \cup {0}, by : Thread, p : Nat]
Rep == [to : Thread, res : Nat, p : Nat]
Worker ==
  [pc : {"none", "recv", "wait", "leave", "finished"},
   tab : [Handle -> Nat], next : 1 .. (MaxHandle + 1), wh : Nat, to : Thread \cup {0},
   dh : Nat, dbg : {"none", "run", "stop"}, dp : Nat, q : Seq(Tid), seen : Tid \cup {0},
   slot : [Slot -> BpId \cup {0}], bps : SUBSET BpId]
Sock ==
  [cl : {"none", "open", "shut", "closed"}, sv : {"none", "backlog", "open", "shut", "closed"},
   req : Seq(Req), rep : Seq(Rep)]
Inside == {"recv", "opened", "construct", "publish"}   \* in a transaction
Ctl ==
  [pc : {"idle", "close", "reconnect", "connect"} \cup Inside, cancel : Nat,
   cand : Conn \cup {0}, cmd : Cmd \cup {"none"}]

ClientType ==
  /\ fd \in Conn \cup {0} /\ closing \in BOOLEAN /\ gen \in Nat /\ lock \in Thread \cup {0}
  /\ th \in [Thread -> Ctl]
  /\ obj \in [Thread -> [gen : Nat, h : Nat, p : Nat]]

TypeOK == ClientType /\ sock \in [Conn -> Sock] /\ wk \in [Conn -> Worker]

(***************************************************************************)
(* One worker.                                                             *)
(***************************************************************************)
SlotsOf(w) ==
  /\ w.bps = {w.slot[s] : s \in Slot} \ {0}
  /\ \A s, r \in Slot : s # r /\ w.slot[s] # 0 => w.slot[s] # w.slot[r]

(* At most one stop is out, and it waits in the queue or has been handed out. *)
StopsOf(w) ==
  /\ w.dbg # "stop" => w.seen = 0 /\ w.q = <<>>
  /\ w.dbg = "stop" => w.q = <<>> \/ (w.seen = 0 /\ Len(w.q) = 1)

WorkerOK(w) ==
  /\ w \in Worker /\ SlotsOf(w) /\ StopsOf(w)
  /\ w.pc = "wait" => w.to \in Thread
  /\ w.pc \in {"none", "finished"} => w = [NewWorker EXCEPT !.pc = w.pc]

(* h was issued by w, for p if it is still open and no snapshot. *)
Names(w, h, p) ==
  w.pc = "finished" \/ (h \in 1 .. (w.next - 1) /\ process(w, h) \in {0, p})

(* What h named, it names in v or names nothing. *)
Keeps(w, v) == \A h, p \in Nat : Names(w, h, p) => Names(v, h, p)

ReqOK(w, r) ==
  /\ r \in Req
  /\ r.cmd = "open" => r.arg \in Proc
  /\ r.cmd = "entry" => r.h \in Handle
  /\ r.cmd \in {"setbp", "rmbp"} => r.arg \in Slot
  /\ r.cmd \notin Free => Names(w, r.h, r.p)

WorkersOK == \A c \in Conn : WorkerOK(wk[c])
RequestsOK == \A c \in Conn : \A i \in 1 .. Len(sock[c].req) : ReqOK(wk[c], sock[c].req[i])

(***************************************************************************)
(* The client.                                                             *)
(***************************************************************************)
LockHeld == \A t \in Thread : th[t].pc \in Inside <=> lock = t

Quiet(c) == sock[c].req = <<>> /\ sock[c].rep = <<>> /\ wk[c].pc # "wait"

(* A connection being tried carries nothing, and none is published. *)
CandidateOK ==
  \A t \in Thread :
    /\ th[t].cand # 0 => th[t].pc = "publish" /\ sock[th[t].cand].cl = "open" /\ Quiet(th[t].cand)
    /\ th[t].pc = "publish" => fd = 0

OpenSockets == \A c \in Conn : sock[c].cl \in {"open", "shut"} => c = fd \/ \E t \in Thread : th[t].cand = c
PublishedOpen == fd # 0 => gen > 0 /\ sock[fd].cl \in {"open", "shut"}
CloseOnItsWay == closing => \E t \in Thread : th[t].pc \in {"close", "reconnect"} /\ th[t].cancel = gen

(* A connection nobody made has no trace; one in the backlog has no worker. *)
LifeOK ==
  /\ \A c \in Conn :
       /\ sock[c].cl = "none" => sock[c].sv = "none" /\ Quiet(c) /\ wk[c].pc = "none"
       /\ sock[c].sv = "backlog" => wk[c].pc = "none"
  /\ apc = "accepted" => got \in Conn /\ wk[got].pc = "none" /\ sock[got].cl # "none"

(* The one message of the connection in use, and whose it is. *)
Asked(c) ==
  /\ Len(sock[c].req) = 1 /\ sock[c].rep = <<>> /\ wk[c].pc # "wait"
  /\ sock[c].req[1].by = lock /\ sock[c].req[1].cmd = th[lock].cmd
Replied(c) ==
  /\ sock[c].req = <<>> /\ Len(sock[c].rep) = 1 /\ wk[c].pc # "wait"
  /\ sock[c].rep[1].to = lock
  /\ th[lock].cmd = "open" /\ sock[c].rep[1].res # 0
       => Names(wk[c], sock[c].rep[1].res, sock[c].rep[1].p)
Waiting(c) ==
  /\ sock[c].req = <<>> /\ sock[c].rep = <<>> /\ wk[c].pc = "wait"
  /\ wk[c].to = lock /\ th[lock].cmd = "wait"
Flow ==
  fd # 0 => \/ Quiet(fd)
            \/ lock \in Thread /\ th[lock].pc = "recv" /\ (Asked(fd) \/ Replied(fd) \/ Waiting(fd))

(* An object belongs to a generation; while that is the current one, its
   handle is one of the connection in use. *)
Opening(t) == obj[t].gen = 0 /\ obj[t].h # 0
ObjectsOK ==
  \A t \in Thread :
    /\ obj[t].gen <= gen
    /\ obj[t].h # 0 /\ fd # 0 /\ obj[t].gen \in {0, gen} => Names(wk[fd], obj[t].h, obj[t].p)
    /\ Opening(t) <=> th[t].pc \in {"opened", "construct"} \/ (th[t].pc = "recv" /\ th[t].cmd = "arch")
    /\ th[t].pc = "recv" /\ th[t].cmd = "open" => obj[t] = NoObj
    /\ th[t].pc \in {"recv", "opened", "construct"} => fd # 0

IInv ==
  /\ TypeOK /\ WorkersOK /\ RequestsOK
  /\ LockHeld /\ CandidateOK /\ OpenSockets /\ PublishedOpen /\ CloseOnItsWay
  /\ LifeOK /\ Flow /\ ObjectsOK

(***************************************************************************)
(* What one worker does to its handles, slots and stops.                   *)
(***************************************************************************)
\* The identifiers of breakpoints are positive.
LEMMA BpIdPositive == /\ Cardinality(Slot) \in Nat
                      /\ \A i \in BpId : i \in Nat \ {0}
<1>1. Cardinality(Slot) \in Nat
  BY CeserverAssumption, FS_CardinalityType
<1> QED BY <1>1 DEF BpId

\* The types of a worker's fields that the arguments below use most.
LEMMA WorkerFields ==
    ASSUME NEW w \in Worker
    PROVE  /\ MaxHandle \in Nat /\ w.next \in Nat /\ 1 <= w.next /\ w.next <= MaxHandle + 1
           /\ w.tab \in [Handle -> Nat] /\ \A h \in 1 .. (w.next - 1) : h \in Handle
<1>1. MaxHandle \in Nat
  BY CeserverAssumption
<1>2. w.next \in 1 .. (MaxHandle + 1) /\ w.tab \in [Handle -> Nat]
  BY DEF Worker
<1> QED BY <1>1, <1>2 DEF Handle

\* A worker that starts, or that has ended, is in order.
LEMMA FreshOK ==
    ASSUME NEW pc \in {"none", "recv", "finished"}
    PROVE  WorkerOK([NewWorker EXCEPT !.pc = pc])
<1> DEFINE w == [NewWorker EXCEPT !.pc = pc]
<1>1. w \in Worker
  <2>1. 1 \in 1 .. (MaxHandle + 1) /\ <<>> \in Seq(Tid)
    BY CeserverAssumption
  <2> QED BY <2>1 DEF NewWorker, Worker
<1>2. SlotsOf(w)
  BY DEF NewWorker, SlotsOf
<1>3. StopsOf(w)
  BY DEF NewWorker, StopsOf
<1>4. w = [NewWorker EXCEPT !.pc = w.pc]
  BY DEF NewWorker
<1> QED BY <1>1, <1>2, <1>3, <1>4 DEF WorkerOK

\* So is the worker of a connection just accepted.
LEMMA NewWorkerOK == WorkerOK(NewWorker)
<1>1. NewWorker \in Worker
  <2>1. 1 \in 1 .. (MaxHandle + 1) /\ <<>> \in Seq(Tid)
    BY CeserverAssumption
  <2> QED BY <2>1 DEF NewWorker, Worker
<1>2. SlotsOf(NewWorker) /\ StopsOf(NewWorker) /\ NewWorker.pc = "recv"
  BY DEF NewWorker, SlotsOf, StopsOf
<1> QED BY <1>1, <1>2 DEF WorkerOK

\* Handles are issued in order: a table that only loses entries below its
\* next number keeps what every number names.
LEMMA TableKeeps ==
    ASSUME NEW w \in Worker, NEW v \in Worker, w.pc # "finished", w.next <= v.next,
           \A h \in 1 .. (w.next - 1) : v.tab[h] \in {0, w.tab[h]} \/ IsSnap(v.tab[h])
    PROVE  Keeps(w, v)
<1> SUFFICES ASSUME NEW h \in Nat, NEW p \in Nat, Names(w, h, p)
             PROVE  Names(v, h, p)
  BY DEF Keeps
<1>1. h \in 1 .. (w.next - 1) /\ process(w, h) \in {0, p}
  BY DEF Names
<1>2. w.next \in 1 .. (MaxHandle + 1) /\ v.next \in 1 .. (MaxHandle + 1) /\ MaxHandle \in Nat
  BY CeserverAssumption DEF Worker
<1>3. h \in Handle /\ h \in 1 .. (v.next - 1)
  BY <1>1, <1>2 DEF Handle
<1>4. v.tab[h] \in Nat /\ w.tab[h] \in Nat /\ (v.tab[h] \in {0, w.tab[h]} \/ IsSnap(v.tab[h]))
  BY <1>1, <1>3 DEF Worker
<1>5. process(v, h) \in {0, p}
  BY <1>1, <1>3, <1>4 DEF process
<1> QED BY <1>3, <1>5 DEF Names

\* Ending the debug session leaves the handles alone.
LEMMA SessionEndedOK ==
    ASSUME NEW w, WorkerOK(w), w.pc = "recv"
    PROVE  LET v == SessionEnded(w)
           IN  /\ WorkerOK(v) /\ v.pc = w.pc /\ v.tab = w.tab /\ v.next = w.next
               /\ v.slot = [s \in Slot |-> 0] /\ v.bps = {}
<1> DEFINE v == SessionEnded(w)
<1>1. v \in Worker /\ v.pc = "recv" /\ v.tab = w.tab /\ v.next = w.next
  <2>1. <<>> \in Seq(Tid) /\ w \in Worker
    BY DEF WorkerOK
  <2> QED BY <2>1 DEF SessionEnded, Worker
<1>2. SlotsOf(v) /\ StopsOf(v) /\ v.slot = [s \in Slot |-> 0] /\ v.bps = {}
  BY DEF SessionEnded, WorkerOK, Worker, SlotsOf, StopsOf
<1> QED BY <1>1, <1>2 DEF WorkerOK

\* What a worker becomes is in order and still knows its handles.
After(w, v) == WorkerOK(v) /\ v.pc = w.pc /\ Keeps(w, v)

LEMMA SameAfter ==
    ASSUME NEW w, WorkerOK(w), w.pc = "recv"
    PROVE  After(w, w) /\ After(w, SessionEnded(w))
<1>1. w \in Worker /\ SessionEnded(w) \in Worker
  BY SessionEndedOK DEF WorkerOK
<1>2. /\ w.next <= w.next /\ w.next <= SessionEnded(w).next
      /\ SessionEnded(w).tab = w.tab
  BY <1>1, SessionEndedOK, WorkerFields
<1>3. Keeps(w, w) /\ Keeps(w, SessionEnded(w))
  BY <1>1, <1>2, TableKeeps
<1> QED BY <1>3, SessionEndedOK DEF After

\* A handle is issued once: it names what it was issued for.
LEMMA TakenOK ==
    ASSUME NEW w, WorkerOK(w), w.pc = "recv", NEW x \in Nat \ {0}
    PROVE  /\ After(w, Taken(w, x)) /\ takeHandle(w) \in Nat
           /\ takeHandle(w) # 0 /\ ~IsSnap(x) => Names(Taken(w, x), takeHandle(w), x)
<1>0. w \in Worker /\ w.next \in 1 .. (MaxHandle + 1) /\ MaxHandle \in Nat
  BY WorkerFields DEF WorkerOK
<1>1. CASE takeHandle(w) = 0
  BY <1>1, SameAfter DEF Taken
<1>2. CASE takeHandle(w) # 0
  <2> DEFINE v == Taken(w, x)
  <2>1. takeHandle(w) = w.next /\ w.next \in Handle
    BY <1>0, <1>2 DEF takeHandle, Handle
  <2>2. v = [w EXCEPT !.tab[w.next] = x, !.next = @ + 1]
    BY <1>2 DEF Taken
  <2>3. v \in Worker /\ v.pc = "recv" /\ v.next = w.next + 1 /\ v.tab = [w.tab EXCEPT ![w.next] = x]
    <3>1. w.next + 1 \in 1 .. (MaxHandle + 1)
      BY <1>0, <2>1 DEF Handle
    <3>2. [w.tab EXCEPT ![w.next] = x] \in [Handle -> Nat]
      BY <1>0, WorkerFields
    <3> QED BY <1>0, <2>2, <3>1, <3>2 DEF Worker
  <2>4. v.slot = w.slot /\ v.bps = w.bps /\ v.dbg = w.dbg /\ v.q = w.q /\ v.seen = w.seen
    BY <1>0, <2>2 DEF Worker
  <2>5. WorkerOK(v)
    BY <2>3, <2>4 DEF WorkerOK, SlotsOf, StopsOf
  <2>6. \A h \in 1 .. (w.next - 1) : v.tab[h] = w.tab[h]
    BY <1>0, <2>3 DEF Worker, Handle
  <2>7. Keeps(w, v)
    <3>1. w.next <= v.next
      BY <1>0, <2>3
    <3> HIDE DEF v
    <3> QED BY <1>0, <2>3, <2>6, <3>1, TableKeeps
  <2>8. ~IsSnap(x) => Names(v, w.next, x)
    <3>1. w.next \in 1 .. (v.next - 1) /\ v.tab[w.next] = x
      BY <1>0, <2>1, <2>3 DEF Worker
    <3> QED BY <3>1, <2>1 DEF Names, process
  <2> QED BY <1>0, <2>1, <2>3, <2>5, <2>7, <2>8 DEF After
<1> QED BY <1>1, <1>2

\* Closing a handle, and the session that debugs through it.
LEMMA CloseHandleOK ==
    ASSUME NEW w, WorkerOK(w), w.pc = "recv", NEW h \in Handle, NEW o \in CloseHandle(w, h)
    PROVE  After(w, o[1]) /\ o[2] \in Nat
<1> DEFINE v == IF h = w.dh THEN SessionEnded(w) ELSE w
           u == [v EXCEPT !.tab[h] = 0]
<1>1. o[1] = u /\ o[2] \in Nat
  BY DEF CloseHandle
<1>2. WorkerOK(v) /\ v \in Worker /\ v.pc = "recv" /\ v.tab = w.tab /\ v.next = w.next
  BY SessionEndedOK DEF WorkerOK
<1> HIDE DEF v
<1>3. u \in Worker /\ u.pc = "recv" /\ u.next = w.next /\ u.tab = [w.tab EXCEPT ![h] = 0]
  BY <1>2 DEF Worker
<1>4. u.slot = v.slot /\ u.bps = v.bps /\ u.dbg = v.dbg /\ u.q = v.q /\ u.seen = v.seen
  BY <1>2 DEF Worker
<1>5. WorkerOK(u)
  BY <1>2, <1>3, <1>4 DEF WorkerOK, SlotsOf, StopsOf
<1>6. /\ w \in Worker /\ w.next <= u.next
      /\ \A g \in 1 .. (w.next - 1) : u.tab[g] \in {0, w.tab[g]}
  <2>1. w \in Worker
    BY DEF WorkerOK
  <2> QED BY <1>3, <2>1, WorkerFields
<1>7. Keeps(w, u)
  BY <1>3, <1>6, TableKeeps
<1> QED BY <1>1, <1>3, <1>5, <1>7 DEF After

\* Reading a snapshot moves its position and nothing else.
LEMMA SnapshotEntryOK ==
    ASSUME NEW w, WorkerOK(w), w.pc = "recv", NEW h \in Handle, NEW o \in SnapshotEntry(w, h)
    PROVE  After(w, o[1]) /\ o[2] \in Nat
<1>0. w \in Worker /\ w.tab[h] \in Nat /\ Entries \in Nat
  BY CeserverAssumption DEF WorkerOK, Worker
<1>1. \/ o = <<w, 0>>
      \/ IsSnap(w.tab[h]) /\ \E k \in {0, w.tab[h] - 10} : o = <<[w EXCEPT !.tab[h] = Snap(k + 1)], 1>>
  BY DEF SnapshotEntry
<1>2. CASE o = <<w, 0>>
  BY <1>2, SameAfter
<1>3. ASSUME IsSnap(w.tab[h]), NEW k \in {0, w.tab[h] - 10},
             o = <<[w EXCEPT !.tab[h] = Snap(k + 1)], 1>>
      PROVE  After(w, o[1]) /\ o[2] \in Nat
  <2> DEFINE x == Snap(k + 1)
             u == [w EXCEPT !.tab[h] = x]
  <2>1. x \in Nat /\ IsSnap(x)
    BY <1>0, <1>3 DEF Snap, IsSnap
  <2> HIDE DEF x
  <2>3. u \in Worker /\ u.pc = "recv" /\ u.next = w.next /\ u.tab = [w.tab EXCEPT ![h] = x]
    BY <1>0, <2>1 DEF Worker
  <2>4. u.slot = w.slot /\ u.bps = w.bps /\ u.dbg = w.dbg /\ u.q = w.q /\ u.seen = w.seen
    BY <1>0 DEF Worker
  <2>5. WorkerOK(u)
    BY <2>3, <2>4 DEF WorkerOK, SlotsOf, StopsOf
  <2>6. /\ w.next <= u.next
        /\ \A g \in 1 .. (w.next - 1) : u.tab[g] \in {0, w.tab[g]} \/ IsSnap(u.tab[g])
    BY <1>0, <2>1, <2>3, CeserverAssumption DEF Worker, Handle
  <2>7. Keeps(w, u)
    BY <1>0, <2>3, <2>6, TableKeeps
  <2> QED BY <1>3, <2>3, <2>5, <2>7 DEF After, x
<1> QED BY <1>1, <1>2, <1>3

\* A change to the session alone keeps the handles.
LEMMA SessionKeeps ==
    ASSUME NEW w \in Worker, NEW v \in Worker, w.pc = "recv", v.tab = w.tab, v.next = w.next
    PROVE  Keeps(w, v)
<1>1. w.next <= v.next
  BY WorkerFields
<1> QED BY <1>1, TableKeeps

\* A removed slot gives its breakpoint back, or keeps it when the session refuses.
LEMMA RemoveSlotOK ==
    ASSUME NEW w, WorkerOK(w), w.pc = "recv", NEW s \in Slot, w.slot[s] # 0, NEW v \in removeSlot(w, s)
    PROVE  After(w, v) /\ v.bps \subseteq w.bps
<1>1. CASE v = w
  BY <1>1, SameAfter
<1>2. CASE v = [w EXCEPT !.bps = @ \ {w.slot[s]}, !.slot[s] = 0]
  <2>0. w \in Worker
    BY DEF WorkerOK
  <2>1. /\ v \in Worker /\ v.pc = "recv" /\ v.tab = w.tab /\ v.next = w.next
        /\ v.dbg = w.dbg /\ v.q = w.q /\ v.seen = w.seen
        /\ v.bps = w.bps \ {w.slot[s]} /\ v.slot = [w.slot EXCEPT ![s] = 0]
    BY <1>2, <2>0 DEF Worker
  <2>2. w.slot \in [Slot -> BpId \cup {0}] /\ w.bps \subseteq BpId
    BY <2>0 DEF Worker
  <2>3. \A r \in Slot : v.slot[r] = IF r = s THEN 0 ELSE w.slot[r]
    BY <2>1, <2>2
  <2>4. SlotsOf(v)
    <3>1. /\ w.bps = {w.slot[r] : r \in Slot} \ {0}
          /\ \A a, r \in Slot : a # r /\ w.slot[a] # 0 => w.slot[a] # w.slot[r]
      BY DEF WorkerOK, SlotsOf
    <3>2. \A i : i \in v.bps <=> i \in {v.slot[r] : r \in Slot} \ {0}
      BY <2>1, <2>3, <3>1
    <3>3. v.bps = {v.slot[r] : r \in Slot} \ {0}
      BY <3>2
    <3>4. \A a, r \in Slot : a # r /\ v.slot[a] # 0 => v.slot[a] # v.slot[r]
      BY <2>3, <3>1
    <3> QED BY <3>3, <3>4 DEF SlotsOf
  <2>5. WorkerOK(v)
    BY <2>1, <2>4 DEF WorkerOK, StopsOf
  <2> QED BY <2>0, <2>1, <2>5, SessionKeeps DEF After
<1> QED BY <1>1, <1>2 DEF removeSlot

\* A breakpoint is set in a slot that is free and under an identifier no slot has.
LEMMA SetBreakpointOK ==
    ASSUME NEW w, WorkerOK(w), w.pc = "recv", NEW s \in Slot, NEW v \in SetBreakpoint(w, s)
    PROVE  After(w, v)
<1>1. \A u \in Freed(w, s) : After(w, u) /\ u.bps \subseteq w.bps
  BY SameAfter, RemoveSlotOK DEF Freed
<1>2. \/ v \in Freed(w, s)
      \/ \E u \in Freed(w, s) : \E i \in BpId \ w.bps : u.slot[s] = 0 /\ v = Planted(u, s, i)
  BY DEF SetBreakpoint
<1>3. ASSUME NEW u \in Freed(w, s), NEW i \in BpId \ w.bps, u.slot[s] = 0, v = Planted(u, s, i)
      PROVE  After(w, v)
  <2>0. u \in Worker /\ WorkerOK(u) /\ u.pc = "recv" /\ Keeps(w, u) /\ i \notin u.bps
    BY <1>1, <1>3 DEF After, WorkerOK
  <2>1. /\ v \in Worker /\ v.pc = "recv" /\ v.tab = u.tab /\ v.next = u.next
        /\ v.dbg = u.dbg /\ v.q = u.q /\ v.seen = u.seen
        /\ v.bps = u.bps \cup {i} /\ v.slot = [u.slot EXCEPT ![s] = i]
    BY <1>3, <2>0 DEF Worker, Planted
  <2>2. u.slot \in [Slot -> BpId \cup {0}] /\ i # 0
    BY <2>0, BpIdPositive DEF Worker
  <2>3. \A r \in Slot : v.slot[r] = IF r = s THEN i ELSE u.slot[r]
    BY <2>1, <2>2
  <2>4. SlotsOf(v)
    <3>1. /\ u.bps = {u.slot[r] : r \in Slot} \ {0}
          /\ \A a, r \in Slot : a # r /\ u.slot[a] # 0 => u.slot[a] # u.slot[r]
      BY <2>0 DEF WorkerOK, SlotsOf
    <3>2. \A j : j \in v.bps <=> j \in {v.slot[r] : r \in Slot} \ {0}
      BY <1>3, <2>1, <2>2, <2>3, <3>1
    <3>3. v.bps = {v.slot[r] : r \in Slot} \ {0}
      BY <3>2
    <3>4. \A a, r \in Slot : a # r /\ v.slot[a] # 0 => v.slot[a] # v.slot[r]
      BY <2>0, <2>2, <2>3, <3>1
    <3> QED BY <3>3, <3>4 DEF SlotsOf
  <2>5. WorkerOK(v)
    BY <2>0, <2>1, <2>4 DEF WorkerOK, StopsOf
  <2>6. Keeps(u, v)
    BY <2>0, <2>1, SessionKeeps
  <2> QED BY <2>0, <2>1, <2>5, <2>6 DEF After, Keeps
<1> QED BY <1>1, <1>2, <1>3

\* Attaching starts a session with nothing set and nothing seen.
LEMMA StartDebugOK ==
    ASSUME NEW w, WorkerOK(w), w.pc = "recv", NEW h \in Handle, NEW o \in StartDebug(w, h)
    PROVE  After(w, o[1]) /\ o[2] \in Nat
<1> DEFINE v == SessionEnded(w)
           p == process(w, h)
           u == [v EXCEPT !.dbg = "run", !.dp = p, !.dh = h]
<1>0. w \in Worker /\ p \in Nat /\ h \in Nat
  <2>1. w \in Worker /\ h \in Nat
    BY DEF WorkerOK, Handle
  <2>2. w.tab[h] \in Nat
    BY <2>1, WorkerFields
  <2> QED BY <2>1, <2>2 DEF process
<1>1. o = <<v, 0>> \/ o = <<u, 1>>
  BY DEF StartDebug
<1>2. v \in Worker /\ WorkerOK(v) /\ v.pc = "recv" /\ v.tab = w.tab /\ v.next = w.next /\ v.seen = 0 /\ v.q = <<>>
  <2>1. WorkerOK(v) /\ v.pc = "recv" /\ v.tab = w.tab /\ v.next = w.next
    BY SessionEndedOK
  <2>2. v.seen = 0 /\ v.q = <<>>
    BY <1>0 DEF SessionEnded, Worker
  <2> QED BY <2>1, <2>2 DEF WorkerOK
<1> HIDE DEF v, p
<1>3. /\ u \in Worker /\ u.pc = "recv" /\ u.tab = w.tab /\ u.next = w.next
      /\ u.slot = v.slot /\ u.bps = v.bps /\ u.dbg = "run" /\ u.q = <<>> /\ u.seen = 0
  BY <1>0, <1>2 DEF Worker
<1>4. WorkerOK(u)
  BY <1>2, <1>3 DEF WorkerOK, SlotsOf, StopsOf
<1>5. Keeps(w, v) /\ Keeps(w, u)
  <2> HIDE DEF u
  <2> QED BY <1>0, <1>2, <1>3, SessionKeeps
<1>6. After(w, v) /\ After(w, u)
  BY <1>2, <1>3, <1>4, <1>5 DEF After
<1> QED
  <2> HIDE DEF u
  <2> QED BY <1>1, <1>6

\* A CONTINUE resumes the stop handed out, with nothing left of it.
LEMMA ContinueStopOK ==
    ASSUME NEW w, WorkerOK(w), w.pc = "recv", NEW h, NEW tid
    PROVE  /\ After(w, ContinueStop(w, h, tid))
           /\ w.dbg = "stop" /\ ContinueStop(w, h, tid).dbg = "run" => w.q = <<>>
<1> DEFINE v == [w EXCEPT !.seen = 0, !.dbg = "run"]
<1>0. w \in Worker /\ StopsOf(w)
  BY DEF WorkerOK
<1>1. CASE Debugging(w, h) /\ w.seen # 0 /\ w.seen = tid
  <2>1. ContinueStop(w, h, tid) = v /\ w.q = <<>>
    BY <1>0, <1>1 DEF ContinueStop, StopsOf
  <2>2. /\ v \in Worker /\ v.pc = "recv" /\ v.tab = w.tab /\ v.next = w.next
        /\ v.slot = w.slot /\ v.bps = w.bps /\ v.dbg = "run" /\ v.q = <<>> /\ v.seen = 0
    BY <1>0, <2>1 DEF Worker
  <2>3. WorkerOK(v)
    BY <2>2 DEF WorkerOK, SlotsOf, StopsOf
  <2> QED BY <1>0, <2>1, <2>2, <2>3, SessionKeeps DEF After
<1>2. CASE ~(Debugging(w, h) /\ w.seen # 0 /\ w.seen = tid)
  <2>1. ContinueStop(w, h, tid) = w
    BY <1>2 DEF ContinueStop
  <2> QED BY <2>1, SameAfter
<1> QED BY <1>1, <1>2

\* Whatever a command does, the worker stays in order and its handles keep
\* their meaning; a process that was opened is named by its new handle, and a
\* CONTINUE resumes nothing that waits unseen.
LEMMA OutcomeOK ==
    ASSUME NEW w, WorkerOK(w), w.pc = "recv",
           NEW r, ReqOK(w, r), r.cmd # "wait", NEW o \in Outcomes(w, r)
    PROVE  /\ After(w, o[1]) /\ o[2] \in Nat
           /\ r.cmd = "open" /\ o[2] # 0 => Names(o[1], o[2], r.arg)
           /\ r.cmd = "cont" /\ w.dbg = "stop" /\ o[1].dbg = "run" => w.q = <<>>
<1>0. w \in Worker /\ After(w, w) /\ After(w, SessionEnded(w)) /\ r \in Req /\ r.cmd \in Cmd
  BY SameAfter DEF WorkerOK, ReqOK, Req
<1>h. r.cmd \notin Free => r.h \in Handle /\ process(w, r.h) \in Nat
  <2>1. r.cmd \notin Free => r.h \in 1 .. (w.next - 1)
    <3>1. r.cmd \notin Free => Names(w, r.h, r.p)
      BY DEF ReqOK
    <3> QED BY <3>1 DEF Names
  <2>2. r.cmd \notin Free => r.h \in Handle /\ w.tab[r.h] \in Nat
    BY <1>0, <2>1, WorkerFields
  <2> QED BY <2>2 DEF process
<1>1. CASE r.cmd \in {"plain", "refused"}
  BY <1>0, <1>1 DEF Outcomes, Answered, Refused
<1>2. CASE r.cmd = "open"
  <2>1. r.arg \in Nat \ {0} /\ ~IsSnap(r.arg)
    <3>1. r.arg \in Proc /\ Proc \subseteq 1 .. 9
      BY <1>2, CeserverAssumption DEF ReqOK
    <3>2. r.arg \in 1 .. 9
      BY <3>1
    <3> QED BY <3>2 DEF IsSnap
  <2>2. o = <<w, 0>> \/ o = <<Taken(w, r.arg), takeHandle(w)>>
    BY <1>2 DEF Outcomes, OpenProcess
  <2> QED BY <1>0, <1>2, <2>1, <2>2, TakenOK
<1>3. CASE r.cmd = "closehandle"
  BY <1>3, <1>h, CloseHandleOK DEF Outcomes, Free
<1>4. CASE r.cmd = "snap"
  <2>1. Snap(0) \in Nat \ {0}
    BY DEF Snap
  <2>2. o = <<Taken(w, Snap(0)), takeHandle(w)>>
    BY <1>4 DEF Outcomes
  <2> QED BY <1>4, <2>1, <2>2, TakenOK
<1>5. CASE r.cmd = "entry"
  BY <1>5, SnapshotEntryOK DEF Outcomes, ReqOK
<1>6. CASE r.cmd \in {"arch", "access"}
  BY <1>0, <1>6, <1>h DEF Outcomes, AccessProcess, Free
<1>7. CASE r.cmd = "start"
  BY <1>7, <1>h, StartDebugOK DEF Outcomes, Free
<1>8. CASE r.cmd = "stop"
  BY <1>0, <1>8 DEF Outcomes, StopDebug
<1>9. CASE r.cmd = "setbp"
  <2>1. Outcomes(w, r) = IF Debugging(w, r.h) THEN {<<v, 1>> : v \in SetBreakpoint(w, r.arg)} ELSE {<<w, 0>>}
    BY <1>9 DEF Outcomes
  <2>3. o = <<w, 0>> \/ \E v \in SetBreakpoint(w, r.arg) : o = <<v, 1>>
    BY <2>1
  <2>2. r.arg \in Slot
    BY <1>9 DEF ReqOK
  <2> QED BY <1>0, <1>9, <2>2, <2>3, SetBreakpointOK
<1>10. CASE r.cmd = "rmbp"
  <2>0. Outcomes(w, r) = RemoveBreakpoint(w, r.h, r.arg)
    BY <1>10 DEF Outcomes
  <2>1. o = <<w, 0>> \/ (w.slot[r.arg] # 0 /\ \E v \in removeSlot(w, r.arg) : o = <<v, 1>>)
    BY <2>0 DEF RemoveBreakpoint
  <2>2. r.arg \in Slot
    BY <1>10 DEF ReqOK
  <2> QED BY <1>0, <1>10, <2>1, <2>2, RemoveSlotOK
<1>11. CASE r.cmd = "cont"
  <2>1. o = <<ContinueStop(w, r.h, r.arg), 1>>
    BY <1>11 DEF Outcomes
  <2> QED BY <1>11, <2>1, ContinueStopOK
<1> QED
  BY <1>0, <1>1, <1>2, <1>3, <1>4, <1>5, <1>6, <1>7, <1>8, <1>9, <1>10, <1>11
     DEF Cmd, Free, MemoryCmd, DebugCmd, ContextCmd

(***************************************************************************)
(* The steps of a worker.                                                  *)
(***************************************************************************)
\* A worker's step on connection c keeps the invariant when it keeps the
\* worker in order, adds no request and keeps the message in use in step.
LEMMA WorkerChange ==
    ASSUME IInv, NEW c \in Conn, NEW w, NEW s \in Sock,
           WorkerOK(w), Keeps(wk[c], w), sock[c].cl # "none", w.pc # "none",
           s.cl = sock[c].cl, s.sv # "backlog",
           \A i \in 1 .. Len(s.req) : \E j \in 1 .. Len(sock[c].req) : s.req[i] = sock[c].req[j],
           Quiet(c) => s.req = <<>> /\ s.rep = <<>> /\ w.pc # "wait",
           wk' = [wk EXCEPT ![c] = w], sock' = [sock EXCEPT ![c] = s],
           UNCHANGED cvars, apc' = "accepted" => apc = "accepted" /\ got' = got /\ got # c, Flow'
    PROVE  IInv'
<1>0. /\ ClientType /\ sock \in [Conn -> Sock] /\ wk \in [Conn -> Worker] /\ w \in Worker
      /\ uses' = uses /\ fd' = fd /\ closing' = closing /\ gen' = gen /\ lock' = lock
      /\ th' = th /\ obj' = obj
  BY DEF IInv, TypeOK, WorkerOK, cvars
<1>1. /\ \A d \in Conn : wk'[d] = IF d = c THEN w ELSE wk[d]
      /\ \A d \in Conn : sock'[d] = IF d = c THEN s ELSE sock[d]
  BY <1>0
<1>2. TypeOK'
  BY <1>0 DEF TypeOK, ClientType
<1>3. WorkersOK'
  BY <1>1 DEF IInv, WorkersOK
<1>4. RequestsOK'
  <2>1. \A r : ReqOK(wk[c], r) => ReqOK(w, r)
    BY DEF ReqOK, Keeps, Req
  <2> SUFFICES ASSUME NEW d \in Conn, NEW i \in 1 .. Len(sock'[d].req)
               PROVE  ReqOK(wk'[d], sock'[d].req[i])
    BY DEF RequestsOK
  <2>2. CASE d # c
    BY <1>1, <2>2 DEF IInv, RequestsOK
  <2>3. CASE d = c
    <3>1. PICK j \in 1 .. Len(sock[c].req) : s.req[i] = sock[c].req[j]
      BY <1>1, <2>3
    <3> QED BY <1>1, <2>1, <2>3, <3>1 DEF IInv, RequestsOK
  <2> QED BY <2>2, <2>3
<1>5. LockHeld' /\ CloseOnItsWay'
  BY <1>0 DEF IInv, LockHeld, CloseOnItsWay
<1>6. \A d \in Conn : Quiet(d) => Quiet(d)'
  BY <1>1 DEF Quiet
<1>7. CandidateOK'
  <2>1. \A t \in Thread : th[t].cand \in Conn \cup {0}
    BY <1>0 DEF ClientType, Ctl
  <2> QED BY <1>0, <1>1, <1>6, <2>1 DEF IInv, CandidateOK
<1>8. OpenSockets' /\ PublishedOpen'
  BY <1>0, <1>1 DEF IInv, OpenSockets, PublishedOpen, ClientType
<1>9. LifeOK'
  BY <1>0, <1>1, <1>6 DEF IInv, LifeOK
<1>10. ObjectsOK'
  <2>1. \A d \in Conn, h, p \in Nat : Names(wk[d], h, p) => Names(wk'[d], h, p)
    BY <1>1 DEF Keeps
  <2>2. \A t \in Thread : obj[t].h \in Nat /\ obj[t].p \in Nat
    BY <1>0 DEF ClientType
  <2>3. fd \in Conn \cup {0}
    BY <1>0 DEF ClientType
  <2> QED BY <1>0, <2>1, <2>2, <2>3 DEF IInv, ObjectsOK, Opening
<1> QED BY <1>2, <1>3, <1>4, <1>5, <1>7, <1>8, <1>9, <1>10 DEF IInv

\* On a connection that is not the one a step touches nothing moves.
LEMMA FlowElsewhere ==
    ASSUME IInv, NEW c \in Conn, NEW w, NEW s, fd # c,
           wk' = [wk EXCEPT ![c] = w], sock' = [sock EXCEPT ![c] = s], UNCHANGED cvars
    PROVE  Flow'
<1>1. fd' = fd /\ lock' = lock /\ th' = th
  BY DEF cvars
<1>2. fd # 0 => fd \in Conn /\ wk'[fd] = wk[fd] /\ sock'[fd] = sock[fd]
  BY DEF IInv, TypeOK, ClientType
<1> QED BY <1>1, <1>2 DEF IInv, Flow, Quiet, Asked, Replied, Waiting

\* Between two states of one worker that differ in neither handle table nor
\* position, handles keep their meaning.
LEMMA SameTableKeeps ==
    ASSUME NEW w \in Worker, NEW v \in Worker, w.pc # "finished", v.tab = w.tab, v.next = w.next
    PROVE  Keeps(w, v)
<1>1. w.next <= v.next
  BY WorkerFields
<1> QED BY <1>1, TableKeeps

\* A connection with a worker was made, left the backlog, and is not the one
\* being accepted.
LEMMA HasWorker ==
    ASSUME IInv, NEW c \in Conn, wk[c].pc # "none", UNCHANGED svars
    PROVE  /\ sock[c].cl # "none" /\ sock[c].sv # "backlog"
           /\ apc' = "accepted" => apc = "accepted" /\ got' = got /\ got # c
BY DEF IInv, LifeOK, svars

\* The reply to a command, or to a wait: the worker goes on or leaves.
LEMMA ReplyOK ==
    ASSUME IInv, NEW c \in Conn, NEW w, NEW r, NEW res \in Rep,
           wk[c].pc \in {"recv", "wait"}, WorkerOK(w), Keeps(wk[c], w), w.pc = wk[c].pc,
           \/ wk[c].pc = "wait" /\ r = sock[c].req
           \/ wk[c].pc = "recv" /\ sock[c].req # <<>> /\ r = Tail(sock[c].req),
           fd = c /\ lock \in Thread => (Waiting(c) \/ Asked(c) => res.to = lock),
           fd = c /\ lock \in Thread /\ th[lock].cmd = "open" /\ res.res # 0 /\ Asked(c)
             => Names(w, res.res, res.p),
           Reply(c, w, r, res), UNCHANGED <<cvars, svars>>
    PROVE  IInv'
<1> DEFINE gone == sock[c].sv # "open" \/ sock[c].cl = "closed"
           v == [w EXCEPT !.pc = IF gone \/ ~running THEN "leave" ELSE "recv", !.wh = 0, !.to = 0]
           s == [sock[c] EXCEPT !.req = r, !.rep = IF gone THEN @ ELSE Append(@, res)]
<1>0. /\ wk \in [Conn -> Worker] /\ sock \in [Conn -> Sock] /\ sock[c] \in Sock /\ wk[c] \in Worker
      /\ sock[c].req \in Seq(Req) /\ sock[c].rep \in Seq(Rep) /\ w \in Worker
  BY DEF IInv, TypeOK, Sock, WorkerOK
<1>1. wk' = [wk EXCEPT ![c] = v]
  BY DEF Reply
<1>2. sock' = [sock EXCEPT ![c] = s]
  BY <1>0 DEF Reply
<1>3. /\ v \in Worker /\ v.pc \in {"leave", "recv"} /\ v.tab = w.tab /\ v.next = w.next
      /\ v.slot = w.slot /\ v.bps = w.bps /\ v.dbg = w.dbg /\ v.q = w.q /\ v.seen = w.seen
  BY <1>0 DEF Worker
<1>4. WorkerOK(v)
  BY <1>3 DEF WorkerOK, SlotsOf, StopsOf
<1>5. Keeps(w, v) /\ Keeps(wk[c], v)
  <2>1. Keeps(w, v)
    <3> HIDE DEF v
    <3> QED BY <1>0, <1>3, SameTableKeeps
  <2> QED BY <2>1 DEF Keeps
<1>6. r \in Seq(Req) /\ \A i \in 1 .. Len(r) : \E j \in 1 .. Len(sock[c].req) : r[i] = sock[c].req[j]
  <2>1. CASE r = sock[c].req
    BY <1>0, <2>1
  <2>2. CASE sock[c].req # <<>> /\ r = Tail(sock[c].req)
    <3>1. /\ r \in Seq(Req) /\ Len(r) = Len(sock[c].req) - 1
          /\ \A i \in 1 .. Len(r) : r[i] = sock[c].req[i + 1]
      BY <1>0, <2>2
    <3>2. Len(sock[c].req) \in Nat /\ Len(r) \in Nat
      BY <1>0, <3>1
    <3>3. \A i \in 1 .. Len(r) : i + 1 \in 1 .. Len(sock[c].req)
      BY <3>1, <3>2
    <3> QED BY <3>1, <3>3
  <2> QED BY <2>1, <2>2
<1>7. /\ s \in Sock /\ s.cl = sock[c].cl /\ s.sv = sock[c].sv /\ s.req = r
      /\ s.rep = IF gone THEN sock[c].rep ELSE Append(sock[c].rep, res)
  <2>1. Append(sock[c].rep, res) \in Seq(Rep)
    BY <1>0
  <2> QED BY <1>0, <1>6, <2>1 DEF Sock
<1>8. s.sv # "backlog"
  BY <1>7 DEF IInv, LifeOK
<1>9. ~Quiet(c)
  BY DEF Quiet
<1>10. Flow'
  <2>1. CASE fd # c
    <3> HIDE DEF v, s
    <3> QED BY <1>1, <1>2, <2>1, FlowElsewhere
  <2>2. CASE fd = c
    <3>0. fd' = fd /\ lock' = lock /\ th' = th /\ wk'[c] = v /\ sock'[c] = s
      BY <1>0, <1>1, <1>2 DEF cvars
    <3>1. fd # 0 /\ lock \in Thread /\ th[lock].pc = "recv" /\ (Asked(c) \/ Waiting(c))
      <4>1. c # 0
        BY DEF Conn
      <4>2. ~Replied(c)
        BY DEF Replied
      <4> QED BY <2>2, <1>9, <4>1, <4>2 DEF IInv, Flow
    <3>2. r = <<>> /\ sock[c].rep = <<>>
      <4>1. CASE Asked(c)
        BY <1>0, <4>1 DEF Asked
      <4>2. CASE Waiting(c)
        BY <4>2 DEF Waiting
      <4> QED BY <3>1, <4>1, <4>2
    <3>3. CASE gone
      BY <1>3, <1>7, <2>2, <3>0, <3>2, <3>3 DEF Flow, Quiet
    <3>4. CASE ~gone
      <4>1. s.rep = <<res>>
        BY <1>7, <3>2, <3>4
      <4>2. th[lock].cmd = "open" /\ res.res # 0 => Names(v, res.res, res.p)
        <5>1. Waiting(c) => th[lock].cmd = "wait"
          BY DEF Waiting
        <5>2. th[lock].cmd = "open" /\ res.res # 0 => Names(w, res.res, res.p)
          BY <2>2, <3>1, <5>1
        <5> QED BY <1>5, <5>2 DEF Keeps, Rep
      <4>3. Replied(c)'
        <5>1. sock'[c].rep = <<res>> /\ sock'[c].req = <<>> /\ wk'[c].pc # "wait"
          BY <1>3, <1>7, <3>0, <3>2, <4>1
        <5>2. res.to = lock
          BY <2>2, <3>1
        <5>3. Len(sock'[c].rep) = 1 /\ sock'[c].rep[1] = res
          BY <5>1
        <5> HIDE DEF v, s
        <5> QED BY <3>0, <4>2, <5>1, <5>2, <5>3 DEF Replied
      <4> QED BY <2>2, <3>0, <3>1, <4>3 DEF Flow
    <3> QED BY <3>3, <3>4
  <2> QED BY <2>1, <2>2
<1> QED
  <2>1. v.pc # "none" /\ sock[c].cl # "none" /\ (apc' = "accepted" => apc = "accepted" /\ got' = got /\ got # c)
    BY <1>3, HasWorker
  <2> HIDE DEF v, s
  <2> QED BY <1>1, <1>2, <1>4, <1>5, <1>6, <1>7, <1>8, <1>9, <1>10, <2>1, WorkerChange

\* The facts about one connection and its worker that every step starts from.
LEMMA ConnFacts ==
    ASSUME IInv, NEW c \in Conn
    PROVE  /\ wk \in [Conn -> Worker] /\ wk[c] \in Worker /\ WorkerOK(wk[c])
           /\ sock \in [Conn -> Sock] /\ sock[c] \in Sock
           /\ sock[c].req \in Seq(Req) /\ sock[c].rep \in Seq(Rep) /\ c # 0
           /\ sock[c].req # <<>> => ReqOK(wk[c], Head(sock[c].req)) /\ Head(sock[c].req) = sock[c].req[1]
<1>1. /\ wk \in [Conn -> Worker] /\ wk[c] \in Worker /\ WorkerOK(wk[c])
      /\ sock \in [Conn -> Sock] /\ sock[c] \in Sock
      /\ sock[c].req \in Seq(Req) /\ sock[c].rep \in Seq(Rep) /\ c # 0
  BY DEF IInv, TypeOK, WorkersOK, Sock, Conn
<1>2. ASSUME sock[c].req # <<>>
      PROVE  ReqOK(wk[c], Head(sock[c].req)) /\ Head(sock[c].req) = sock[c].req[1]
  <2>1. 1 \in 1 .. Len(sock[c].req) /\ Head(sock[c].req) = sock[c].req[1]
    BY <1>1, <1>2
  <2> QED BY <2>1 DEF IInv, RequestsOK
<1> QED BY <1>1, <1>2

LEMMA ServeCommandStep ==
    ASSUME IInv, NEW c \in Conn, serveCommand(c)
    PROVE  IInv'
<1> DEFINE r == Head(sock[c].req)
<1>1. PICK o \in Outcomes(wk[c], r) :
        Reply(c, o[1], Tail(sock[c].req), [to |-> r.by, res |-> o[2], p |-> IF r.cmd = "open" THEN r.arg ELSE 0])
  BY DEF serveCommand
<1> DEFINE res == [to |-> r.by, res |-> o[2], p |-> IF r.cmd = "open" THEN r.arg ELSE 0]
<1>2. /\ wk[c].pc = "recv" /\ sock[c].req # <<>> /\ r.cmd # "wait" /\ UNCHANGED <<cvars, svars>>
  BY DEF serveCommand
<1>3. ReqOK(wk[c], r) /\ WorkerOK(wk[c]) /\ r = sock[c].req[1] /\ r \in Req
  BY <1>2, ConnFacts DEF ReqOK
<1>4. /\ After(wk[c], o[1]) /\ o[2] \in Nat
      /\ r.cmd = "open" /\ o[2] # 0 => Names(o[1], o[2], r.arg)
  <2> HIDE DEF r
  <2> QED BY <1>2, <1>3, OutcomeOK
<1>5. res \in Rep /\ res.to = r.by /\ res.res = o[2] /\ (r.cmd = "open" => res.p = r.arg)
  <2>1. r.cmd = "open" => r.arg \in Nat
    <3>1. r.cmd = "open" => r.arg \in Proc
      BY <1>3 DEF ReqOK
    <3>2. Proc \subseteq 1 .. 9
      BY CeserverAssumption
    <3>3. r.cmd = "open" => r.arg \in 1 .. 9
      BY <3>1, <3>2
    <3>4. \A i \in 1 .. 9 : i \in Nat
      OBVIOUS
    <3> HIDE DEF r
    <3> QED BY <3>3, <3>4
  <2> HIDE DEF r
  <2> QED BY <1>3, <1>4, <2>1 DEF Rep, Req
<1>6. WorkerOK(o[1]) /\ Keeps(wk[c], o[1]) /\ o[1].pc = wk[c].pc
  BY <1>4 DEF After
<1>7. ~Waiting(c) /\ (Asked(c) => r.by = lock /\ r.cmd = th[lock].cmd)
  BY <1>2, <1>3 DEF Asked, Waiting
<1> QED
  <2> HIDE DEF r, res
  <2> QED BY <1>1, <1>2, <1>4, <1>5, <1>6, <1>7, ReplyOK DEF res

\* A queue of one.
LEMMA OneElement ==
    ASSUME NEW S, NEW q \in Seq(S), Len(q) = 1
    PROVE  Head(q) \in S /\ Tail(q) = <<>> /\ <<>> \in Seq(S)
<1>1. q # <<>>
  OBVIOUS
<1>2. Head(q) \in S /\ Tail(q) \in Seq(S) /\ Len(Tail(q)) = 0
  BY <1>1, HeadTailProperties
<1> QED BY <1>2, EmptySeq

\* A wait that ends hands out the one stop there is, or none.
LEMMA WaitAnswerStep ==
    ASSUME IInv, NEW c \in Conn, waitAnswer(c)
    PROVE  IInv'
<1> DEFINE w == wk[c]
           have == Debugging(w, w.wh) /\ w.q # <<>>
           v == IF have THEN [w EXCEPT !.seen = Head(w.q), !.q = Tail(w.q)] ELSE w
           res == [to |-> w.to, res |-> IF have THEN 1 ELSE 0, p |-> 0]
<1>1. w.pc = "wait" /\ Reply(c, v, sock[c].req, res) /\ UNCHANGED <<cvars, svars>>
  BY DEF waitAnswer
<1>2. w \in Worker /\ WorkerOK(w) /\ c # 0
  BY ConnFacts
<1>3. WorkerOK(v) /\ Keeps(w, v) /\ v.pc = w.pc
  <2>1. CASE ~have
    <3>1. v = w
      BY <2>1
    <3> QED BY <1>2, <3>1 DEF Keeps
  <2>2. CASE have
    <3>1. v = [w EXCEPT !.seen = Head(w.q), !.q = Tail(w.q)] /\ w.q # <<>>
      BY <2>2
    <3>2. StopsOf(w) /\ SlotsOf(w) /\ w.q \in Seq(Tid)
      BY <1>2 DEF WorkerOK, Worker
    <3>3. w.dbg = "stop" /\ Len(w.q) = 1
      BY <3>1, <3>2 DEF StopsOf
    <3>4. Head(w.q) \in Tid /\ Tail(w.q) = <<>> /\ <<>> \in Seq(Tid)
      BY <3>2, <3>3, OneElement
    <3> HIDE DEF w, v
    <3>5. /\ v \in Worker /\ v.pc = w.pc /\ v.tab = w.tab /\ v.next = w.next
          /\ v.slot = w.slot /\ v.bps = w.bps /\ v.dbg = "stop" /\ v.q = <<>> /\ v.to = w.to
      BY <1>2, <3>1, <3>3, <3>4 DEF Worker
    <3>6. WorkerOK(v)
      BY <1>1, <1>2, <3>2, <3>5 DEF WorkerOK, SlotsOf, StopsOf
    <3>7. Keeps(w, v)
      BY <1>1, <1>2, <3>5, SameTableKeeps
    <3> QED BY <3>5, <3>6, <3>7
  <2> QED BY <2>1, <2>2
<1>5. /\ fd = c /\ lock \in Thread => (Waiting(c) \/ Asked(c) => w.to = lock)
      /\ ~Asked(c)
  BY <1>1 DEF Asked, Waiting
<1>6. res \in Rep /\ res.to = w.to
  BY <1>1, <1>2 DEF Rep, WorkerOK
<1> QED
  <2> HIDE DEF v, res
  <2> QED BY <1>1, <1>3, <1>5, <1>6, ReplyOK

\* A wait begins: the request becomes the worker's own.
LEMMA WaitBeginStep ==
    ASSUME IInv, NEW c \in Conn, waitBegin(c)
    PROVE  IInv'
<1> DEFINE r == Head(sock[c].req)
           v == [wk[c] EXCEPT !.pc = "wait", !.wh = r.h, !.to = r.by]
           s == [sock[c] EXCEPT !.req = Tail(@)]
<1>0. /\ wk[c].pc = "recv" /\ sock[c].req # <<>> /\ r.cmd = "wait" /\ UNCHANGED <<cvars, svars>>
  BY DEF waitBegin
<1>1. /\ wk \in [Conn -> Worker] /\ wk[c] \in Worker /\ WorkerOK(wk[c])
      /\ sock \in [Conn -> Sock] /\ sock[c] \in Sock /\ sock[c].req \in Seq(Req) /\ c # 0
      /\ r = sock[c].req[1] /\ r \in Req
  BY <1>0, ConnFacts DEF ReqOK
<1>2. wk' = [wk EXCEPT ![c] = v] /\ sock' = [sock EXCEPT ![c] = s]
  BY <1>1 DEF waitBegin
<1>3. /\ v \in Worker /\ v.pc = "wait" /\ v.tab = wk[c].tab /\ v.next = wk[c].next /\ v.to = r.by
      /\ v.slot = wk[c].slot /\ v.bps = wk[c].bps /\ v.dbg = wk[c].dbg /\ v.q = wk[c].q /\ v.seen = wk[c].seen
      /\ r.by \in Thread
  <2> HIDE DEF r
  <2> QED BY <1>1 DEF Worker, Req
<1>4. WorkerOK(v)
  BY <1>1, <1>3 DEF WorkerOK, SlotsOf, StopsOf
<1>5. Keeps(wk[c], v)
  <2> HIDE DEF v
  <2> QED BY <1>0, <1>1, <1>3, SameTableKeeps
<1>6. /\ Tail(sock[c].req) \in Seq(Req) /\ Len(sock[c].req) \in Nat
      /\ Len(Tail(sock[c].req)) = Len(sock[c].req) - 1
      /\ \A i \in 1 .. Len(Tail(sock[c].req)) : Tail(sock[c].req)[i] = sock[c].req[i + 1]
  BY <1>0, <1>1, HeadTailProperties, LenProperties
<1>7. /\ s \in Sock /\ s.cl = sock[c].cl /\ s.sv = sock[c].sv /\ s.req = Tail(sock[c].req) /\ s.rep = sock[c].rep
  BY <1>1, <1>6 DEF Sock
<1>8. \A i \in 1 .. Len(s.req) : \E j \in 1 .. Len(sock[c].req) : s.req[i] = sock[c].req[j]
  <2>1. \A i \in 1 .. Len(s.req) : i + 1 \in 1 .. Len(sock[c].req)
    BY <1>6, <1>7
  <2> HIDE DEF s
  <2> QED BY <1>6, <1>7, <2>1
<1>9. s.sv # "backlog" /\ ~Quiet(c)
  BY <1>0, <1>7 DEF IInv, LifeOK, Quiet
<1> HIDE DEF v, s
<1>10. Flow'
  <2>1. CASE fd # c
    BY <1>0, <1>2, <2>1, FlowElsewhere
  <2>2. CASE fd = c
    <3>0. fd' = fd /\ lock' = lock /\ th' = th /\ wk'[c] = v /\ sock'[c] = s
      BY <1>0, <1>1, <1>2 DEF cvars
    <3>1. lock \in Thread /\ th[lock].pc = "recv" /\ Asked(c)
      BY <1>0, <1>1, <1>9, <2>2 DEF IInv, Flow, Replied, Waiting
    <3>2. s.req = <<>> /\ s.rep = <<>> /\ v.to = lock /\ th[lock].cmd = "wait"
      <4>1. Len(sock[c].req) = 1 /\ sock[c].rep = <<>> /\ sock[c].req[1].by = lock /\ sock[c].req[1].cmd = th[lock].cmd
        BY <3>1 DEF Asked
      <4>2. Tail(sock[c].req) = <<>>
        BY <1>1, <4>1, OneElement
      <4> QED BY <1>0, <1>1, <1>3, <1>7, <4>1, <4>2
    <3>3. Waiting(c)'
      BY <1>3, <3>0, <3>2 DEF Waiting
    <3> QED BY <2>2, <3>0, <3>1, <3>3 DEF Flow
  <2> QED BY <2>1, <2>2
<1>11. v.pc # "none" /\ sock[c].cl # "none" /\ (apc' = "accepted" => apc = "accepted" /\ got' = got /\ got # c)
  BY <1>0, <1>3, HasWorker
<1> QED BY <1>0, <1>2, <1>4, <1>5, <1>7, <1>8, <1>9, <1>10, <1>11, WorkerChange

\* Steps that only move the worker: it leaves, ends, or its target stops.
LEMMA WorkerOnly ==
    ASSUME IInv, NEW c \in Conn, NEW v, WorkerOK(v), Keeps(wk[c], v),
           v.pc \notin {"none", "wait"} \/ (v.pc = wk[c].pc /\ v.to = wk[c].to /\ v.pc = "wait"),
           NEW s \in Sock, s.req = sock[c].req, s.rep = sock[c].rep, s.cl = sock[c].cl,
           s.sv # "backlog", sock[c].cl # "none",
           apc' = "accepted" => apc = "accepted" /\ got' = got /\ got # c,
           wk' = [wk EXCEPT ![c] = v], sock' = [sock EXCEPT ![c] = s], UNCHANGED cvars
    PROVE  IInv'
<1>0. /\ wk \in [Conn -> Worker] /\ sock \in [Conn -> Sock] /\ c # 0 /\ sock[c].rep \in Seq(Rep)
      /\ sock[c].req \in Seq(Req)
  BY ConnFacts
<1>1. v.pc # "none"
  OBVIOUS
<1>2. Quiet(c) => s.req = <<>> /\ s.rep = <<>> /\ v.pc # "wait"
  BY DEF Quiet
<1>3. \A i \in 1 .. Len(s.req) : \E j \in 1 .. Len(sock[c].req) : s.req[i] = sock[c].req[j]
  OBVIOUS
<1>4. Flow'
  <2>1. CASE fd # c
    BY <2>1, FlowElsewhere
  <2>2. CASE fd = c
    <3>0. fd' = fd /\ lock' = lock /\ th' = th /\ wk'[c] = v /\ sock'[c] = s
      BY <1>0 DEF cvars
    <3>1. CASE Quiet(c)
      BY <1>2, <2>2, <3>0, <3>1 DEF Flow, Quiet
    <3>2. ASSUME lock \in Thread, th[lock].pc = "recv", Asked(c) \/ Replied(c) \/ Waiting(c)
          PROVE  Flow'
      <4>1. CASE Asked(c)
        <5>1. Asked(c)'
          BY <3>0, <4>1 DEF Asked
        <5> QED BY <2>2, <3>0, <3>2, <5>1 DEF Flow
      <4>2. CASE Replied(c)
        <5>1. /\ sock[c].req = <<>> /\ Len(sock[c].rep) = 1 /\ wk[c].pc # "wait" /\ sock[c].rep[1].to = lock
              /\ th[lock].cmd = "open" /\ sock[c].rep[1].res # 0
                   => Names(wk[c], sock[c].rep[1].res, sock[c].rep[1].p)
          BY <4>2 DEF Replied
        <5>2. sock[c].rep[1] \in Rep
          BY <1>0, <5>1, ElementOfSeq
        <5>3. sock[c].rep[1].res \in Nat /\ sock[c].rep[1].p \in Nat
          BY <5>2 DEF Rep
        <5>4. th[lock].cmd = "open" /\ sock[c].rep[1].res # 0
                   => Names(v, sock[c].rep[1].res, sock[c].rep[1].p)
          BY <5>1, <5>3 DEF Keeps
        <5>5. Replied(c)'
          BY <3>0, <5>1, <5>4 DEF Replied
        <5> QED BY <2>2, <3>0, <3>2, <5>5 DEF Flow
      <4>3. CASE Waiting(c)
        <5>1. CASE v.pc = "wait"
          <6>1. Waiting(c)'
            BY <3>0, <4>3, <5>1 DEF Waiting
          <6> QED BY <2>2, <3>0, <3>2, <6>1 DEF Flow
        <5>2. CASE v.pc # "wait"
          BY <2>2, <3>0, <4>3, <5>2 DEF Flow, Quiet, Waiting
        <5> QED BY <5>1, <5>2
      <4> QED BY <3>2, <4>1, <4>2, <4>3
    <3> QED BY <1>0, <2>2, <3>1, <3>2 DEF IInv, Flow
  <2> QED BY <2>1, <2>2
<1> QED BY <1>1, <1>2, <1>3, <1>4, WorkerChange

\* The worker leaves its loop; its session is still as it was.
LEMMA LeaveStep ==
    ASSUME IInv, NEW c \in Conn, waitPeerGone(c) \/ recvEnds(c)
    PROVE  IInv'
<1> DEFINE v == [wk[c] EXCEPT !.pc = "leave"]
<1>0. /\ wk[c].pc \in {"wait", "recv"} /\ UNCHANGED <<cvars, svars, sock>>
      /\ wk' = [wk EXCEPT ![c].pc = "leave"]
  BY DEF waitPeerGone, recvEnds
<1>1. /\ wk \in [Conn -> Worker] /\ wk[c] \in Worker /\ WorkerOK(wk[c])
      /\ sock \in [Conn -> Sock] /\ sock[c] \in Sock
  BY ConnFacts
<1>2. wk' = [wk EXCEPT ![c] = v] /\ sock' = [sock EXCEPT ![c] = sock[c]]
  BY <1>0, <1>1
<1>3. /\ v \in Worker /\ v.pc = "leave" /\ v.tab = wk[c].tab /\ v.next = wk[c].next
      /\ v.slot = wk[c].slot /\ v.bps = wk[c].bps /\ v.dbg = wk[c].dbg /\ v.q = wk[c].q /\ v.seen = wk[c].seen
  BY <1>1 DEF Worker
<1>4. WorkerOK(v)
  BY <1>1, <1>3 DEF WorkerOK, SlotsOf, StopsOf
<1> HIDE DEF v
<1>5. Keeps(wk[c], v)
  BY <1>0, <1>1, <1>3, SameTableKeeps
<1>6. sock[c].cl # "none" /\ sock[c].sv # "backlog" /\ (apc' = "accepted" => apc = "accepted" /\ got' = got /\ got # c)
  BY <1>0, HasWorker
<1> QED BY <1>0, <1>1, <1>2, <1>3, <1>4, <1>5, <1>6, WorkerOnly

\* The worker ends: its handles and its session are gone for good.
LEMMA WorkerEndsStep ==
    ASSUME IInv, NEW c \in Conn, workerEnds(c)
    PROVE  IInv'
<1> DEFINE v == [NewWorker EXCEPT !.pc = "finished"]
           s == [sock[c] EXCEPT !.sv = "closed"]
<1>0. wk[c].pc = "leave" /\ wk' = [wk EXCEPT ![c] = v] /\ UNCHANGED <<cvars, svars>>
  BY DEF workerEnds
<1>1. sock \in [Conn -> Sock] /\ sock[c] \in Sock
  BY ConnFacts
<1>2. sock' = [sock EXCEPT ![c] = s]
  BY <1>1 DEF workerEnds
<1>3. WorkerOK(v) /\ v.pc = "finished"
  BY FreshOK DEF NewWorker
<1>4. Keeps(wk[c], v)
  BY <1>3 DEF Keeps, Names
<1>5. s \in Sock /\ s.req = sock[c].req /\ s.rep = sock[c].rep /\ s.cl = sock[c].cl /\ s.sv = "closed"
  BY <1>1 DEF Sock
<1>6. sock[c].cl # "none" /\ (apc' = "accepted" => apc = "accepted" /\ got' = got /\ got # c)
  BY <1>0, HasWorker
<1> HIDE DEF v, s
<1> QED BY <1>0, <1>2, <1>3, <1>4, <1>5, <1>6, WorkerOnly

\* A stop is queued only when nothing is queued or seen.
LEMMA TargetStopsStep ==
    ASSUME IInv, NEW c \in Conn, targetStops(c)
    PROVE  IInv'
<1>0. wk[c].dbg = "run" /\ UNCHANGED <<cvars, svars, sock>>
  BY DEF targetStops
<1>1. /\ wk \in [Conn -> Worker] /\ wk[c] \in Worker /\ WorkerOK(wk[c])
      /\ sock \in [Conn -> Sock] /\ sock[c] \in Sock /\ wk[c].q \in Seq(Tid)
  BY ConnFacts DEF Worker
<1>2. PICK tid \in Tid : wk' = [wk EXCEPT ![c].dbg = "stop", ![c].q = Append(@, tid)]
  BY DEF targetStops
<1> DEFINE v == [wk[c] EXCEPT !.dbg = "stop", !.q = Append(@, tid)]
<1>3. wk' = [wk EXCEPT ![c] = v] /\ sock' = [sock EXCEPT ![c] = sock[c]]
  BY <1>0, <1>1, <1>2
<1>4. wk[c].q = <<>> /\ wk[c].seen = 0 /\ StopsOf(wk[c])
  BY <1>0, <1>1 DEF WorkerOK, StopsOf
<1>5. Append(wk[c].q, tid) \in Seq(Tid) /\ Len(Append(wk[c].q, tid)) = 1
  BY <1>1, <1>4
<1>6. /\ v \in Worker /\ v.pc = wk[c].pc /\ v.tab = wk[c].tab /\ v.next = wk[c].next /\ v.to = wk[c].to
      /\ v.slot = wk[c].slot /\ v.bps = wk[c].bps /\ v.dbg = "stop" /\ v.seen = 0 /\ Len(v.q) = 1
  BY <1>1, <1>4, <1>5 DEF Worker
<1>7. wk[c].pc \notin {"none", "finished"}
  <2>1. NewWorker.dbg = "none"
    BY DEF NewWorker
  <2>2. \A pc : [NewWorker EXCEPT !.pc = pc].dbg = "none"
    BY DEF NewWorker
  <2> QED BY <1>0, <1>1, <2>2 DEF WorkerOK
<1> HIDE DEF v
<1>8. WorkerOK(v)
  BY <1>1, <1>6, <1>7 DEF WorkerOK, SlotsOf, StopsOf
<1>9. Keeps(wk[c], v)
  BY <1>1, <1>6, <1>7, SameTableKeeps
<1>10. sock[c].cl # "none" /\ sock[c].sv # "backlog" /\ (apc' = "accepted" => apc = "accepted" /\ got' = got /\ got # c)
  BY <1>0, <1>7, HasWorker
<1>11. v.pc \notin {"none", "wait"} \/ (v.pc = wk[c].pc /\ v.to = wk[c].to /\ v.pc = "wait")
  BY <1>6, <1>7
<1> QED BY <1>0, <1>1, <1>3, <1>8, <1>9, <1>10, <1>11, WorkerOnly

(***************************************************************************)
(* The steps of the server.                                                *)
(***************************************************************************)
\* Steps that at most shut or close sockets on the server's side.
LEMMA ServerSockets ==
    ASSUME IInv, UNCHANGED <<cvars, wk>>, sock' \in [Conn -> Sock],
           \A c \in Conn : /\ sock'[c].cl = sock[c].cl /\ sock'[c].req = sock[c].req /\ sock'[c].rep = sock[c].rep
                           /\ \/ sock'[c].sv = sock[c].sv
                              \/ sock[c].cl # "none" /\ sock'[c].sv # "backlog",
           apc' = "accepted" => got' \in Conn /\ wk[got'].pc = "none" /\ sock[got'].cl # "none"
    PROVE  IInv'
<1>0. /\ ClientType /\ sock \in [Conn -> Sock] /\ wk \in [Conn -> Worker]
      /\ uses' = uses /\ fd' = fd /\ closing' = closing /\ gen' = gen /\ lock' = lock
      /\ th' = th /\ obj' = obj /\ wk' = wk
  BY DEF IInv, TypeOK, cvars
<1>1. TypeOK' /\ WorkersOK'
  BY <1>0 DEF IInv, TypeOK, ClientType, WorkersOK
<1>2. RequestsOK'
  BY <1>0 DEF IInv, RequestsOK
<1>3. LockHeld' /\ CloseOnItsWay'
  BY <1>0 DEF IInv, LockHeld, CloseOnItsWay
<1>4. \A d \in Conn : Quiet(d) => Quiet(d)'
  BY <1>0 DEF Quiet
<1>5. CandidateOK'
  <2>1. \A t \in Thread : th[t].cand \in Conn \cup {0}
    BY <1>0 DEF ClientType, Ctl
  <2> QED BY <1>0, <1>4, <2>1 DEF IInv, CandidateOK
<1>6. OpenSockets' /\ PublishedOpen'
  BY <1>0 DEF IInv, OpenSockets, PublishedOpen, ClientType
<1>7. LifeOK'
  BY <1>0, <1>4 DEF IInv, LifeOK
<1>8. ObjectsOK'
  BY <1>0 DEF IInv, ObjectsOK, Opening
<1>9. Flow'
  <2>1. fd # 0 => fd \in Conn
    BY <1>0 DEF ClientType
  <2> QED BY <1>0, <2>1 DEF IInv, Flow, Quiet, Asked, Replied, Waiting
<1> QED BY <1>1, <1>2, <1>3, <1>5, <1>6, <1>7, <1>8, <1>9 DEF IInv

\* stop() and the end of the accept loop shut sockets down and leave the rest.
LEMMA InterruptedOK ==
    ASSUME IInv
    PROVE  /\ Interrupted(sock) \in [Conn -> Sock]
           /\ \A c \in Conn :
                LET s == Interrupted(sock)[c]
                IN  /\ s.cl = sock[c].cl /\ s.req = sock[c].req /\ s.rep = sock[c].rep
                    /\ s.sv = sock[c].sv \/ (sock[c].cl # "none" /\ s.sv # "backlog")
<1>1. \A c \in Conn : sock[c] \in Sock
  BY ConnFacts
<1>2. ASSUME NEW c \in Conn
      PROVE  LET s == Interrupted(sock)[c]
             IN  /\ s \in Sock /\ s.cl = sock[c].cl /\ s.req = sock[c].req /\ s.rep = sock[c].rep
                 /\ s.sv = sock[c].sv \/ (sock[c].cl # "none" /\ s.sv # "backlog")
  <2>1. CASE c \in members /\ sock[c].sv = "open"
    <3>1. Interrupted(sock)[c] = [sock[c] EXCEPT !.sv = "shut"]
      BY <2>1 DEF Interrupted
    <3>2. sock[c].cl # "none"
      BY <2>1 DEF IInv, LifeOK
    <3> QED BY <1>1, <2>1, <3>1, <3>2 DEF Sock
  <2>2. CASE ~(c \in members /\ sock[c].sv = "open")
    <3>1. Interrupted(sock)[c] = sock[c]
      BY <2>2 DEF Interrupted
    <3> QED BY <1>1, <3>1
  <2> QED BY <2>1, <2>2
<1>3. Interrupted(sock) = [c \in Conn |-> Interrupted(sock)[c]]
  BY DEF Interrupted
<1> QED BY <1>2, <1>3

\* Every step of start(), stop() and the accept thread.
LEMMA ServerStepOK ==
    ASSUME IInv, ServerStep
    PROVE  IInv'
<1>0. /\ sock \in [Conn -> Sock] /\ wk \in [Conn -> Worker]
      /\ apc = "accepted" => got \in Conn /\ wk[got].pc = "none" /\ sock[got].cl # "none"
  BY DEF IInv, TypeOK, LifeOK
<1>1. CASE start \/ acceptReap \/ stopJoinAccept
  BY <1>0, <1>1, ServerSockets DEF start, acceptReap, stopJoinAccept
<1>2. CASE acceptOne
  <2>1. PICK c \in Conn : sock[c].sv = "backlog" /\ got' = c
    BY <1>2 DEF acceptOne
  <2>2. wk[c].pc = "none" /\ sock[c].cl # "none"
    BY <2>1 DEF IInv, LifeOK
  <2>3. UNCHANGED <<cvars, wk>> /\ sock' = sock
    BY <1>2 DEF acceptOne
  <2> QED BY <1>0, <2>1, <2>2, <2>3, ServerSockets
<1>3. CASE acceptRegister
  <2>0. /\ apc = "accepted" /\ apc' # "accepted" /\ UNCHANGED cvars
        /\ got \in Conn /\ wk[got].pc = "none" /\ sock[got].cl # "none" /\ sock[got] \in Sock
    BY <1>0, <1>3 DEF acceptRegister
  <2>1. CASE wk' = [wk EXCEPT ![got] = NewWorker] /\ sock' = [sock EXCEPT ![got].sv = "open"]
    <3> DEFINE s == [sock[got] EXCEPT !.sv = "open"]
    <3>1. /\ s \in Sock /\ s.req = sock[got].req /\ s.rep = sock[got].rep
          /\ s.cl = sock[got].cl /\ s.sv # "backlog" /\ sock' = [sock EXCEPT ![got] = s]
      BY <1>0, <2>0, <2>1 DEF Sock
    <3>2. NewWorker.pc = "recv"
      BY DEF NewWorker
    <3>3. WorkerOK(NewWorker)
      BY NewWorkerOK
    <3>4. Keeps(wk[got], NewWorker)
      <4>1. wk[got].next = 1
        <5>1. WorkerOK(wk[got])
          BY <2>0, ConnFacts
        <5>2. wk[got] = [NewWorker EXCEPT !.pc = "none"]
          BY <2>0, <5>1 DEF WorkerOK
        <5> QED BY <5>2 DEF NewWorker
      <4>2. \A h, p \in Nat : ~Names(wk[got], h, p)
        BY <2>0, <4>1 DEF Names
      <4> QED BY <4>2 DEF Keeps
    <3> HIDE DEF s
    <3> QED BY <2>0, <2>1, <3>1, <3>2, <3>3, <3>4, WorkerOnly
  <2>2. CASE sock' = [sock EXCEPT ![got].sv = "closed"] /\ UNCHANGED wk
    <3>2. \A c \in Conn : sock'[c] = IF c = got THEN [sock[got] EXCEPT !.sv = "closed"] ELSE sock[c]
      BY <1>0, <2>0, <2>2
    <3>3. \A c \in Conn : /\ sock'[c].cl = sock[c].cl /\ sock'[c].req = sock[c].req /\ sock'[c].rep = sock[c].rep
                          /\ sock'[c].sv = IF c = got THEN "closed" ELSE sock[c].sv
      BY <1>0, <2>0, <3>2 DEF Sock
    <3>4. sock' \in [Conn -> Sock]
      BY <1>0, <2>0, <2>2 DEF Sock
    <3> QED BY <2>0, <2>2, <3>3, <3>4, ServerSockets
  <2> QED BY <1>3, <2>1, <2>2 DEF acceptRegister
<1>4. CASE acceptLeave \/ stop
  <2>1. sock' = Interrupted(sock) /\ UNCHANGED <<cvars, wk, got>> /\ apc' \in {apc, "done"}
    BY <1>4 DEF acceptLeave, stop
  <2> QED BY <1>0, <2>1, InterruptedOK, ServerSockets
<1>5. CASE stopJoinWorkers
  <2>1. /\ apc' = "off" /\ UNCHANGED <<cvars, wk>>
        /\ sock' = [c \in Conn |-> IF sock[c].sv = "backlog" THEN [sock[c] EXCEPT !.sv = "closed"] ELSE sock[c]]
    BY <1>5 DEF stopJoinWorkers
  <2>2. ASSUME NEW c \in Conn
        PROVE  /\ sock'[c] \in Sock
               /\ sock'[c].cl = sock[c].cl /\ sock'[c].req = sock[c].req /\ sock'[c].rep = sock[c].rep
               /\ sock'[c].sv = sock[c].sv \/ (sock[c].cl # "none" /\ sock'[c].sv # "backlog")
    <3>1. sock[c] \in Sock
      BY <1>0
    <3>2. CASE sock[c].sv = "backlog"
      <4>1. sock'[c] = [sock[c] EXCEPT !.sv = "closed"]
        BY <2>1, <3>2
      <4>2. sock[c].cl # "none"
        BY <3>2 DEF IInv, LifeOK
      <4> QED BY <3>1, <3>2, <4>1, <4>2 DEF Sock
    <3>3. CASE sock[c].sv # "backlog"
      BY <2>1, <3>1, <3>3
    <3> QED BY <3>2, <3>3
  <2>3. sock' \in [Conn -> Sock]
    BY <2>1, <2>2
  <2> QED BY <2>1, <2>2, <2>3, ServerSockets
<1> QED BY <1>1, <1>2, <1>3, <1>4, <1>5 DEF ServerStep

(***************************************************************************)
(* The steps of the client.                                                *)
(***************************************************************************)
\* The facts about one client thread that every step starts from.
LEMMA ThreadFacts ==
    ASSUME IInv, NEW t \in Thread
    PROVE  /\ th \in [Thread -> Ctl] /\ th[t] \in Ctl /\ t # 0
           /\ obj \in [Thread -> [gen : Nat, h : Nat, p : Nat]] /\ obj[t] \in [gen : Nat, h : Nat, p : Nat]
           /\ fd \in Conn \cup {0} /\ gen \in Nat /\ closing \in BOOLEAN /\ lock \in Thread \cup {0}
           /\ sock \in [Conn -> Sock] /\ wk \in [Conn -> Worker] /\ 0 \notin Conn
           /\ Idle \in Ctl /\ Idle.pc = "idle" /\ Idle.cand = 0
           /\ NoObj \in [gen : Nat, h : Nat, p : Nat] /\ NoObj.h = 0 /\ NoObj.gen = 0
<1>1. t # 0 /\ 0 \notin Conn
  BY CeserverAssumption DEF Conn
<1>2. /\ Idle \in Ctl /\ Idle.pc = "idle" /\ Idle.cand = 0
      /\ NoObj \in [gen : Nat, h : Nat, p : Nat] /\ NoObj.h = 0 /\ NoObj.gen = 0
  BY DEF Idle, NoObj, Ctl
<1> QED BY <1>1, <1>2 DEF IInv, TypeOK, ClientType

\* Outside a transaction nobody tries a connection, opens or waits.
LEMMA NobodyInside ==
    ASSUME IInv, NEW u \in Thread, lock # u
    PROVE  /\ th[u].pc \notin Inside /\ th[u].cand = 0 /\ ~Opening(u)
<1>1. th[u].pc \notin Inside
  BY DEF IInv, LockHeld
<1> QED BY <1>1 DEF IInv, CandidateOK, ObjectsOK, Inside

\* What the client's own end of a socket may become.
LEMMA ClientEnd ==
    ASSUME IInv, NEW c \in Conn \cup {0}
    PROVE  /\ ClientClosed(sock, c) \in [Conn -> Sock] /\ ClientShut(sock, c) \in [Conn -> Sock]
           /\ \A d \in Conn :
                /\ ClientClosed(sock, c)[d].req = sock[d].req /\ ClientShut(sock, c)[d].req = sock[d].req
                /\ ClientClosed(sock, c)[d].rep = sock[d].rep /\ ClientShut(sock, c)[d].rep = sock[d].rep
                /\ ClientClosed(sock, c)[d].sv = sock[d].sv /\ ClientShut(sock, c)[d].sv = sock[d].sv
                /\ ClientClosed(sock, c)[d].cl = (IF d = c THEN "closed" ELSE sock[d].cl)
                /\ ClientShut(sock, c)[d].cl = IF d = c /\ sock[d].cl = "open" THEN "shut" ELSE sock[d].cl
<1>0. sock \in [Conn -> Sock] /\ 0 \notin Conn
  BY DEF IInv, TypeOK, Conn
<1>1. CASE c = 0
  BY <1>0, <1>1 DEF ClientClosed, ClientShut
<1>2. CASE c \in Conn
  <2>0. c # 0 /\ sock[c] \in Sock
    BY <1>0, <1>2
  <2>1. ASSUME NEW x \in {"closed", "shut"}
        PROVE  LET s == [sock EXCEPT ![c].cl = x]
               IN  /\ s \in [Conn -> Sock]
                   /\ \A d \in Conn : /\ s[d].req = sock[d].req /\ s[d].rep = sock[d].rep /\ s[d].sv = sock[d].sv
                                      /\ s[d].cl = IF d = c THEN x ELSE sock[d].cl
    <3> DEFINE s == [sock EXCEPT ![c].cl = x]
               e == [sock[c] EXCEPT !.cl = x]
    <3>1. e \in Sock /\ e.req = sock[c].req /\ e.rep = sock[c].rep /\ e.sv = sock[c].sv /\ e.cl = x
      BY <2>0 DEF Sock
    <3>2. s = [sock EXCEPT ![c] = e]
      BY <1>0
    <3> HIDE DEF e, s
    <3>3. s \in [Conn -> Sock] /\ \A d \in Conn : s[d] = IF d = c THEN e ELSE sock[d]
      BY <1>0, <1>2, <3>1, <3>2
    <3>4. \A d \in Conn : /\ s[d].req = sock[d].req /\ s[d].rep = sock[d].rep /\ s[d].sv = sock[d].sv
                          /\ s[d].cl = IF d = c THEN x ELSE sock[d].cl
      BY <3>1, <3>3
    <3> QED BY <3>3, <3>4 DEF s
  <2>2. ClientClosed(sock, c) = [sock EXCEPT ![c].cl = "closed"]
    BY <2>0 DEF ClientClosed
  <2>3. ClientShut(sock, c) = IF sock[c].cl = "open" THEN [sock EXCEPT ![c].cl = "shut"] ELSE sock
    BY <2>0 DEF ClientShut
  <2>4. CASE sock[c].cl = "open"
    BY <2>1, <2>2, <2>3, <2>4
  <2>5. CASE sock[c].cl # "open"
    <3>1. ClientShut(sock, c) = sock
      BY <2>3, <2>5
    <3> QED BY <1>0, <2>1, <2>2, <2>5, <3>1
  <2> QED BY <2>4, <2>5
<1> QED BY <1>1, <1>2

\* A client step that sends and receives nothing leaves the server alone.
LEMMA NothingSent ==
    ASSUME IInv, UNCHANGED <<svars, wk>>, sock' \in [Conn -> Sock],
           \A c \in Conn : /\ sock'[c].req = sock[c].req /\ sock'[c].rep = sock[c].rep
                           /\ sock'[c].sv = sock[c].sv /\ (sock'[c].cl = "none" <=> sock[c].cl = "none")
    PROVE  /\ sock' \in [Conn -> Sock] /\ wk' \in [Conn -> Worker]
           /\ WorkersOK' /\ RequestsOK' /\ LifeOK'
           /\ \A c \in Conn : Quiet(c) <=> Quiet(c)'
<1>0. wk' = wk /\ apc' = apc /\ got' = got /\ wk \in [Conn -> Worker]
  BY DEF IInv, TypeOK, svars
<1>1. WorkersOK'
  BY <1>0 DEF IInv, WorkersOK
<1>2. RequestsOK'
  BY <1>0 DEF IInv, RequestsOK
<1>3. \A c \in Conn : Quiet(c) <=> Quiet(c)'
  BY <1>0 DEF Quiet
<1>4. LifeOK'
  BY <1>0, <1>3 DEF IInv, LifeOK
<1> QED BY <1>0, <1>1, <1>2, <1>3, <1>4

\* A connection in use was made.
LEMMA PublishedMade ==
    ASSUME IInv, fd # 0
    PROVE  fd \in Conn /\ sock[fd].cl \in {"open", "shut"} /\ gen > 0
BY DEF IInv, PublishedOpen, TypeOK, ClientType

\* Giving a connection up ends the transaction and the object being opened.
LEMMA RetireStep ==
    ASSUME IInv, NEW t \in Thread, th[t].pc \in {"idle", "opened", "recv"}, lock \in {0, t}, fd # 0,
           retireConnection(t)
    PROVE  IInv'
<1>0. /\ sock' = ClientClosed(sock, fd) /\ fd' = 0 /\ closing' = FALSE /\ gen' = gen + 1
      /\ lock' = 0 /\ th' = [th EXCEPT ![t] = Idle] /\ UNCHANGED <<svars, wk>>
      /\ obj' = [obj EXCEPT ![t] = IF @.gen = 0 THEN NoObj ELSE @]
  BY DEF retireConnection
<1>1. /\ th \in [Thread -> Ctl] /\ obj \in [Thread -> [gen : Nat, h : Nat, p : Nat]] /\ gen \in Nat
      /\ fd \in Conn /\ 0 \notin Conn /\ Idle \in Ctl /\ Idle.pc = "idle" /\ Idle.cand = 0
      /\ NoObj \in [gen : Nat, h : Nat, p : Nat] /\ NoObj.h = 0 /\ NoObj.gen = 0 /\ t # 0
  BY ThreadFacts, PublishedMade
<1>2. /\ \A u \in Thread : th'[u] = IF u = t THEN Idle ELSE th[u]
      /\ \A u \in Thread : obj'[u] = IF u = t /\ obj[t].gen = 0 THEN NoObj ELSE obj[u]
  BY <1>0, <1>1
<1>3. \A u \in Thread : u # t => th[u].pc \notin Inside /\ th[u].cand = 0 /\ ~Opening(u)
  <2>1. \A u \in Thread : u # 0
    BY ThreadFacts
  <2> QED BY <2>1, NobodyInside
<1>4. /\ sock' \in [Conn -> Sock] /\ wk' \in [Conn -> Worker]
      /\ WorkersOK' /\ RequestsOK' /\ LifeOK'
  <2>1. sock[fd].cl # "none"
    BY PublishedMade
  <2> QED BY <1>0, <1>1, <2>1, ClientEnd, NothingSent
<1>5. TypeOK'
  <2>1. th' \in [Thread -> Ctl] /\ obj' \in [Thread -> [gen : Nat, h : Nat, p : Nat]]
    BY <1>0, <1>1
  <2>2. fd' \in Conn \cup {0} /\ gen' \in Nat /\ lock' \in Thread \cup {0}
    BY <1>0, <1>1
  <2>3. closing' \in BOOLEAN
    BY <1>0, Zenon
  <2> QED BY <1>4, <2>1, <2>2, <2>3 DEF TypeOK, ClientType
<1>6. LockHeld' /\ CandidateOK'
  <2>1. \A u \in Thread : u # 0 /\ th'[u].pc \notin Inside /\ th'[u].cand = 0
    BY <1>1, <1>2, <1>3, ThreadFacts DEF Inside
  <2> QED BY <1>0, <2>1 DEF LockHeld, CandidateOK, Inside
<1>7. OpenSockets'
  <2>1. th[t].cand = 0
    BY DEF IInv, CandidateOK
  <2>2. \A c \in Conn : sock'[c].cl = IF c = fd THEN "closed" ELSE sock[c].cl
    BY <1>0, <1>1, ClientEnd
  <2> QED BY <1>1, <1>3, <2>1, <2>2 DEF IInv, OpenSockets
<1>8. PublishedOpen' /\ CloseOnItsWay' /\ Flow'
  BY <1>0 DEF PublishedOpen, CloseOnItsWay, Flow
<1>9. ObjectsOK'
  BY <1>0, <1>1, <1>2, <1>3 DEF IInv, ObjectsOK, Opening, Inside
<1> QED BY <1>4, <1>5, <1>6, <1>7, <1>8, <1>9 DEF IInv

\* close() and connectTcp() cancel what is in flight, without the lock.
LEMMA CloseCancelStep ==
    ASSUME IInv, NEW t \in Thread, NEW then \in {"close", "reconnect"}, closeCancel(t, then)
    PROVE  IInv'
<1> DEFINE new == [Idle EXCEPT !.pc = then, !.cancel = gen + 1]
<1>0. /\ th[t].pc = "idle" /\ closing' = TRUE /\ gen' = gen + 1 /\ sock' = ClientShut(sock, fd)
      /\ th' = [th EXCEPT ![t] = new] /\ UNCHANGED <<fd, lock, obj, svars, wk>>
  BY DEF closeCancel
<1>1. /\ th \in [Thread -> Ctl] /\ obj \in [Thread -> [gen : Nat, h : Nat, p : Nat]] /\ gen \in Nat
      /\ fd \in Conn \cup {0} /\ 0 \notin Conn /\ lock \in Thread \cup {0}
  BY ThreadFacts
<1>2. new \in Ctl /\ new.pc = then /\ new.cand = 0 /\ new.cancel = gen + 1
  <2>1. gen + 1 \in Nat
    BY <1>1
  <2> QED BY <2>1 DEF Idle, Ctl
<1> HIDE DEF new
<1>3. \A u \in Thread : th'[u] = IF u = t THEN new ELSE th[u]
  BY <1>0, <1>1
<1>4. \A c \in Conn : sock'[c].cl = IF c = fd /\ sock[c].cl = "open" THEN "shut" ELSE sock[c].cl
  BY <1>0, <1>1, ClientEnd
<1>5. /\ sock' \in [Conn -> Sock] /\ wk' \in [Conn -> Worker] /\ WorkersOK' /\ RequestsOK' /\ LifeOK'
      /\ \A c \in Conn : Quiet(c) <=> Quiet(c)'
  BY <1>0, <1>1, <1>4, ClientEnd, NothingSent
<1>6. TypeOK'
  <2>1. th' \in [Thread -> Ctl] /\ obj' \in [Thread -> [gen : Nat, h : Nat, p : Nat]]
    BY <1>0, <1>1, <1>2
  <2>2. fd' \in Conn \cup {0} /\ gen' \in Nat /\ lock' \in Thread \cup {0}
    BY <1>0, <1>1
  <2>3. closing' \in BOOLEAN
    BY <1>0, Zenon
  <2> QED BY <1>5, <2>1, <2>2, <2>3 DEF TypeOK, ClientType
<1>7. LockHeld'
  BY <1>0, <1>2, <1>3 DEF IInv, LockHeld, Inside
<1>8. CandidateOK'
  <2>1. \A u \in Thread : th[u].cand \in Conn \cup {0}
    BY <1>1 DEF Ctl
  <2>2. \A u \in Thread : th'[u].cand # 0 => u # t /\ th'[u] = th[u] /\ th[u].pc = "publish" /\ fd = 0
    BY <1>2, <1>3 DEF IInv, CandidateOK
  <2>3. \A u \in Thread : th'[u].pc = "publish" => fd' = 0
    BY <1>0, <1>2, <1>3 DEF IInv, CandidateOK
  <2> QED BY <1>1, <1>4, <1>5, <2>1, <2>2, <2>3 DEF IInv, CandidateOK
<1>9. OpenSockets'
  <2>1. th[t].cand = 0
    BY <1>0 DEF IInv, CandidateOK
  <2> QED BY <1>0, <1>1, <1>3, <1>4, <2>1 DEF IInv, OpenSockets
<1>10. PublishedOpen' /\ CloseOnItsWay'
  BY <1>0, <1>1, <1>2, <1>3, <1>4 DEF IInv, PublishedOpen, CloseOnItsWay
<1>11. Flow'
  <2>1. lock \in Thread /\ th[lock].pc = "recv" => lock # t /\ th'[lock] = th[lock]
    BY <1>0, <1>3
  <2>2. \A c \in Conn : sock'[c].req = sock[c].req /\ sock'[c].rep = sock[c].rep
    BY <1>0, <1>1, ClientEnd
  <2>3. wk' = wk /\ fd' = fd /\ lock' = lock
    BY <1>0
  <2>4. CASE fd = 0 \/ Quiet(fd)
    BY <1>1, <1>5, <2>3, <2>4 DEF Flow
  <2>5. CASE fd \in Conn /\ lock \in Thread /\ th[lock].pc = "recv" /\ (Asked(fd) \/ Replied(fd) \/ Waiting(fd))
    <3>1. (Asked(fd) => Asked(fd)') /\ (Replied(fd) => Replied(fd)') /\ (Waiting(fd) => Waiting(fd)')
      BY <2>1, <2>2, <2>3, <2>5 DEF Asked, Replied, Waiting
    <3> QED BY <2>1, <2>3, <2>5, <3>1 DEF Flow
  <2> QED BY <1>1, <2>4, <2>5 DEF IInv, Flow
<1>12. ObjectsOK'
  BY <1>0, <1>1, <1>2, <1>3 DEF IInv, ObjectsOK, Opening
<1> QED BY <1>5, <1>6, <1>7, <1>8, <1>9, <1>10, <1>11, <1>12 DEF IInv

\* Then, with the lock, the connection is closed unless a newer one has won.
LEMMA CloseFinishStep ==
    ASSUME IInv, NEW t \in Thread, closeFinish(t)
    PROVE  IInv'
<1> DEFINE new == IF th[t].pc = "close" THEN Idle ELSE [Idle EXCEPT !.pc = "connect"]
<1>0. /\ th[t].pc \in {"close", "reconnect"} /\ lock = 0 /\ UNCHANGED <<gen, lock, obj, svars, wk>>
      /\ th' = [th EXCEPT ![t] = new]
  BY DEF closeFinish
<1>1. /\ th \in [Thread -> Ctl] /\ obj \in [Thread -> [gen : Nat, h : Nat, p : Nat]] /\ gen \in Nat
      /\ fd \in Conn \cup {0} /\ 0 \notin Conn /\ closing \in BOOLEAN /\ sock \in [Conn -> Sock]
  BY ThreadFacts
<1>2. new \in Ctl /\ new.pc \in {"idle", "connect"} /\ new.cand = 0
  BY <1>1 DEF Idle, Ctl
<1> HIDE DEF new
<1>3. \A u \in Thread : th'[u] = IF u = t THEN new ELSE th[u]
  BY <1>0, <1>1
<1>4. \A u \in Thread : th[u].pc \notin Inside /\ th[u].cand = 0 /\ ~Opening(u) /\ u # 0
  BY <1>0, ThreadFacts, NobodyInside
<1>5. \/ gen # th[t].cancel /\ sock' = sock /\ fd' = fd /\ closing' = closing
      \/ sock' = ClientClosed(sock, fd) /\ fd' = 0 /\ closing' = FALSE
  BY DEF closeFinish
<1>6. /\ sock' \in [Conn -> Sock] /\ wk' \in [Conn -> Worker] /\ WorkersOK' /\ RequestsOK' /\ LifeOK'
      /\ \A c \in Conn : Quiet(c) <=> Quiet(c)'
  <2>1. CASE sock' = sock
    BY <1>0, <1>1, <2>1, NothingSent
  <2>2. CASE sock' = ClientClosed(sock, fd)
    <3>1. fd # 0 => sock[fd].cl # "none"
      BY PublishedMade
    <3>2. \A c \in Conn : /\ sock'[c].req = sock[c].req /\ sock'[c].rep = sock[c].rep /\ sock'[c].sv = sock[c].sv
                          /\ sock'[c].cl = IF c = fd THEN "closed" ELSE sock[c].cl
      BY <1>1, <2>2, ClientEnd
    <3>3. sock' \in [Conn -> Sock]
      BY <1>1, <2>2, ClientEnd
    <3>4. \A c \in Conn : sock'[c].cl = "none" <=> sock[c].cl = "none"
      BY <1>1, <3>1, <3>2
    <3> QED BY <1>0, <3>2, <3>3, <3>4, NothingSent
  <2> QED BY <1>5, <2>1, <2>2
<1>7. TypeOK'
  <2>1. th' \in [Thread -> Ctl] /\ obj' \in [Thread -> [gen : Nat, h : Nat, p : Nat]]
    BY <1>0, <1>1, <1>2
  <2>2. fd' \in Conn \cup {0} /\ gen' \in Nat /\ lock' \in Thread \cup {0}
    BY <1>0, <1>1, <1>5
  <2>3. closing' \in BOOLEAN
    BY <1>1, <1>5, Zenon
  <2> QED BY <1>6, <2>1, <2>2, <2>3 DEF TypeOK, ClientType
<1>8. LockHeld' /\ CandidateOK'
  <2>1. \A u \in Thread : th'[u].pc \notin Inside /\ th'[u].cand = 0
    BY <1>2, <1>3, <1>4 DEF Inside
  <2> QED BY <1>0, <1>4, <2>1 DEF LockHeld, CandidateOK, Inside
<1>9. OpenSockets' /\ PublishedOpen'
  <2>1. CASE sock' = sock /\ fd' = fd
    BY <1>0, <1>1, <1>4, <2>1 DEF IInv, OpenSockets, PublishedOpen
  <2>2. CASE sock' = ClientClosed(sock, fd) /\ fd' = 0
    <3>1. \A c \in Conn : sock'[c].cl = IF c = fd THEN "closed" ELSE sock[c].cl
      BY <1>1, <2>2, ClientEnd
    <3> QED BY <1>1, <1>4, <2>2, <3>1 DEF IInv, OpenSockets, PublishedOpen
  <2> QED BY <1>5, <2>1, <2>2
<1>10. CloseOnItsWay'
  <2>1. CASE gen # th[t].cancel /\ closing' = closing
    BY <1>0, <1>3, <2>1 DEF IInv, CloseOnItsWay
  <2>2. CASE closing' = FALSE
    BY <2>2 DEF CloseOnItsWay
  <2> QED BY <1>5, <2>1, <2>2
<1>11. Flow'
  <2>1. fd # 0 => Quiet(fd)
    BY <1>0, <1>4 DEF IInv, Flow
  <2> QED BY <1>1, <1>5, <1>6, <2>1 DEF Flow
<1>12. ObjectsOK'
  BY <1>0, <1>1, <1>2, <1>3, <1>4, <1>5 DEF IInv, ObjectsOK, Opening, Inside
<1> QED BY <1>6, <1>7, <1>8, <1>9, <1>10, <1>11, <1>12 DEF IInv

\* A connection is tried with the lock: the old one is closed, the new one is
\* known to the server's backlog only.
LEMMA ConnectBeginStep ==
    ASSUME IInv, NEW t \in Thread, connectBegin(t)
    PROVE  IInv'
<1>0. /\ th[t].pc = "connect" /\ lock = 0 /\ lock' = t /\ fd' = 0 /\ closing' = FALSE /\ gen' = gen + 1
      /\ UNCHANGED <<obj, svars, wk>>
  BY DEF connectBegin
<1>1. /\ th \in [Thread -> Ctl] /\ obj \in [Thread -> [gen : Nat, h : Nat, p : Nat]] /\ gen \in Nat
      /\ fd \in Conn \cup {0} /\ 0 \notin Conn /\ t # 0
  BY ThreadFacts
<1> DEFINE closed == ClientClosed(sock, fd)
<1>2. PICK c \in Conn \cup {0} :
        /\ c # 0 => sock[c].cl = "none"
        /\ sock' = IF c = 0 THEN closed ELSE [closed EXCEPT ![c].cl = "open", ![c].sv = "backlog"]
        /\ th' = [th EXCEPT ![t] = [Idle EXCEPT !.pc = "publish", !.cancel = gen + 1, !.cand = c]]
  BY DEF connectBegin
<1> DEFINE new == [Idle EXCEPT !.pc = "publish", !.cancel = gen + 1, !.cand = c]
<1>3. new \in Ctl /\ new.pc = "publish" /\ new.cand = c
  <2>1. gen + 1 \in Nat
    BY <1>1
  <2> QED BY <2>1 DEF Idle, Ctl, Inside
<1>4. /\ closed \in [Conn -> Sock]
      /\ \A d \in Conn : /\ closed[d].req = sock[d].req /\ closed[d].rep = sock[d].rep /\ closed[d].sv = sock[d].sv
                         /\ closed[d].cl = IF d = fd THEN "closed" ELSE sock[d].cl
  BY <1>1, ClientEnd
<1> HIDE DEF new, closed
<1>5. /\ sock' \in [Conn -> Sock]
      /\ \A d \in Conn :
           /\ sock'[d].req = sock[d].req /\ sock'[d].rep = sock[d].rep
           /\ sock'[d].sv = IF d = c THEN "backlog" ELSE sock[d].sv
           /\ sock'[d].cl = IF d = c THEN "open" ELSE IF d = fd THEN "closed" ELSE sock[d].cl
  <2>1. CASE c = 0
    BY <1>1, <1>2, <1>4, <2>1
  <2>2. CASE c # 0
    <3> DEFINE e == [closed[c] EXCEPT !.cl = "open", !.sv = "backlog"]
    <3>1. closed[c] \in Sock /\ c \in Conn
      BY <1>4, <2>2
    <3>2. e \in Sock /\ e.req = closed[c].req /\ e.rep = closed[c].rep /\ e.cl = "open" /\ e.sv = "backlog"
      BY <3>1 DEF Sock
    <3>3. sock' = [closed EXCEPT ![c] = e]
      BY <1>2, <1>4, <2>2
    <3> HIDE DEF e
    <3>4. sock' \in [Conn -> Sock] /\ \A d \in Conn : sock'[d] = IF d = c THEN e ELSE closed[d]
      BY <1>4, <3>1, <3>2, <3>3
    <3> QED BY <1>4, <3>2, <3>4
  <2> QED BY <2>1, <2>2
<1>6. \A u \in Thread : th'[u] = IF u = t THEN new ELSE th[u]
  BY <1>1, <1>2 DEF new
<1>7. \A u \in Thread : th[u].pc \notin Inside /\ th[u].cand = 0 /\ ~Opening(u) /\ u # 0
  BY <1>0, ThreadFacts, NobodyInside
<1>8. /\ c # 0 => c \in Conn /\ c # fd /\ sock[c].sv = "none" /\ Quiet(c) /\ wk[c].pc = "none"
      /\ fd # 0 => sock[fd].cl # "none"
  BY <1>2, PublishedMade DEF IInv, LifeOK
<1>9. WorkersOK' /\ RequestsOK' /\ \A d \in Conn : Quiet(d) <=> Quiet(d)'
  BY <1>0, <1>5 DEF IInv, WorkersOK, RequestsOK, Quiet
<1>10. LifeOK'
  <2>1. wk' = wk /\ apc' = apc /\ got' = got
    BY <1>0 DEF svars
  <2>2. ASSUME NEW d \in Conn
        PROVE  /\ sock'[d].cl = "none" => sock'[d].sv = "none" /\ Quiet(d)' /\ wk'[d].pc = "none"
               /\ sock'[d].sv = "backlog" => wk'[d].pc = "none"
    <3>1. /\ sock[d].cl = "none" => sock[d].sv = "none" /\ Quiet(d) /\ wk[d].pc = "none"
          /\ sock[d].sv = "backlog" => wk[d].pc = "none"
      BY DEF IInv, LifeOK
    <3>2. CASE d = c
      BY <1>1, <1>5, <1>8, <2>1, <3>2
    <3>3. CASE d # c
      BY <1>1, <1>5, <1>9, <2>1, <3>1, <3>3
    <3> QED BY <3>2, <3>3
  <2>3. apc' = "accepted" => got' \in Conn /\ wk'[got'].pc = "none" /\ sock'[got'].cl # "none"
    BY <1>5, <2>1 DEF IInv, LifeOK
  <2> QED BY <2>2, <2>3 DEF LifeOK
<1>11. TypeOK'
  <2>1. th' \in [Thread -> Ctl] /\ obj' \in [Thread -> [gen : Nat, h : Nat, p : Nat]]
    BY <1>0, <1>1, <1>2, <1>3 DEF new
  <2>2. fd' \in Conn \cup {0} /\ gen' \in Nat /\ lock' \in Thread \cup {0}
    BY <1>0, <1>1
  <2>3. closing' \in BOOLEAN
    BY <1>0, Zenon
  <2>4. wk' \in [Conn -> Worker]
    BY <1>0 DEF IInv, TypeOK
  <2> QED BY <1>5, <2>1, <2>2, <2>3, <2>4 DEF TypeOK, ClientType
<1>12. LockHeld'
  BY <1>0, <1>3, <1>6, <1>7 DEF LockHeld, Inside
<1>13. CandidateOK'
  BY <1>0, <1>3, <1>5, <1>6, <1>7, <1>8, <1>9 DEF CandidateOK
<1>14. OpenSockets'
  BY <1>0, <1>3, <1>5, <1>6, <1>7 DEF IInv, OpenSockets
<1>15. PublishedOpen' /\ CloseOnItsWay' /\ Flow'
  BY <1>0 DEF PublishedOpen, CloseOnItsWay, Flow
<1>16. ObjectsOK'
  BY <1>0, <1>1, <1>3, <1>6, <1>7 DEF IInv, ObjectsOK, Opening, Inside
<1> QED BY <1>9, <1>10, <1>11, <1>12, <1>13, <1>14, <1>15, <1>16 DEF IInv

\* The candidate is published under a generation no object has yet, or closed.
LEMMA ConnectPublishStep ==
    ASSUME IInv, NEW t \in Thread, connectPublish(t)
    PROVE  IInv'
<1> DEFINE c == th[t].cand
<1>0. /\ th[t].pc = "publish" /\ lock' = 0 /\ th' = [th EXCEPT ![t] = Idle]
      /\ UNCHANGED <<closing, obj, svars, wk>>
  BY DEF connectPublish
<1>1. /\ th \in [Thread -> Ctl] /\ obj \in [Thread -> [gen : Nat, h : Nat, p : Nat]] /\ gen \in Nat
      /\ closing \in BOOLEAN /\ sock \in [Conn -> Sock] /\ 0 \notin Conn /\ t # 0 /\ c \in Conn \cup {0}
      /\ Idle \in Ctl /\ Idle.pc = "idle" /\ Idle.cand = 0
  BY ThreadFacts DEF Ctl
<1>2. fd = 0 /\ (c # 0 => sock[c].cl = "open" /\ Quiet(c)) /\ lock = t
  BY <1>0 DEF IInv, CandidateOK, LockHeld, Inside
<1>3. \A u \in Thread : u # t => th[u].pc \notin Inside /\ th[u].cand = 0 /\ ~Opening(u)
  BY <1>2, NobodyInside
<1>4. ~Opening(t)
  BY <1>0 DEF IInv, ObjectsOK
<1>5. \/ c # 0 /\ closing = FALSE /\ fd' = c /\ gen' = gen + 1 /\ sock' = sock
      \/ sock' = ClientClosed(sock, c) /\ fd' = fd /\ gen' = gen
  BY <1>1 DEF connectPublish
<1>6. \A u \in Thread : th'[u] = IF u = t THEN Idle ELSE th[u]
  BY <1>0, <1>1
<1> HIDE DEF c
<1>7. /\ sock' \in [Conn -> Sock]
      /\ \A d \in Conn : /\ sock'[d].req = sock[d].req /\ sock'[d].rep = sock[d].rep /\ sock'[d].sv = sock[d].sv
                         /\ sock'[d].cl = IF d = c /\ fd' = 0 THEN "closed" ELSE sock[d].cl
  <2>1. CASE c # 0 /\ fd' = c /\ sock' = sock
    BY <1>1, <2>1
  <2>2. CASE sock' = ClientClosed(sock, c) /\ fd' = fd
    BY <1>1, <1>2, <2>2, ClientEnd
  <2> QED BY <1>5, <2>1, <2>2
<1>8. /\ wk' \in [Conn -> Worker] /\ WorkersOK' /\ RequestsOK' /\ LifeOK'
      /\ \A d \in Conn : Quiet(d) <=> Quiet(d)'
  <2>1. \A d \in Conn : sock'[d].cl = "none" <=> sock[d].cl = "none"
    BY <1>1, <1>2, <1>7
  <2> QED BY <1>0, <1>7, <2>1, NothingSent
<1>9. TypeOK'
  <2>1. th' \in [Thread -> Ctl] /\ obj' \in [Thread -> [gen : Nat, h : Nat, p : Nat]]
    BY <1>0, <1>1
  <2>2. fd' \in Conn \cup {0} /\ gen' \in Nat /\ lock' \in Thread \cup {0}
    BY <1>0, <1>1, <1>2, <1>5
  <2>3. closing' \in BOOLEAN
    BY <1>0, <1>1, Zenon
  <2> QED BY <1>7, <1>8, <2>1, <2>2, <2>3 DEF TypeOK, ClientType
<1>10. LockHeld' /\ CandidateOK'
  <2>1. \A u \in Thread : u # 0 /\ th'[u].pc \notin Inside /\ th'[u].cand = 0
    BY <1>1, <1>3, <1>6, ThreadFacts DEF Inside
  <2> QED BY <1>0, <2>1 DEF LockHeld, CandidateOK, Inside
<1>11. OpenSockets'
  <2>1. \A d \in Conn : sock[d].cl \in {"open", "shut"} => d = c
    BY <1>1, <1>2, <1>3 DEF IInv, OpenSockets, c
  <2>2. fd' \in {0, c}
    BY <1>2, <1>5
  <2> QED BY <1>7, <2>1, <2>2 DEF OpenSockets
<1>12. PublishedOpen'
  BY <1>1, <1>2, <1>5 DEF PublishedOpen
<1>13. CloseOnItsWay'
  <2>1. closing' = closing
    BY <1>0
  <2>2. CASE closing = FALSE
    BY <2>1, <2>2 DEF CloseOnItsWay
  <2>3. CASE gen' = gen
    BY <1>0, <1>6, <2>1, <2>3 DEF IInv, CloseOnItsWay
  <2> QED BY <1>5, <2>2, <2>3
<1>14. Flow'
  <2>1. fd' # 0 => fd' \in Conn /\ Quiet(fd')
    BY <1>1, <1>2, <1>5
  <2> QED BY <1>8, <2>1 DEF Flow
<1>15. ObjectsOK'
  <2>1. \A u \in Thread : obj[u].gen <= gen /\ ~Opening(u)
    BY <1>3, <1>4 DEF IInv, ObjectsOK
  <2>2. \A u \in Thread : th'[u].pc \notin Inside
    BY <1>1, <1>3, <1>6 DEF Inside
  <2>3. CASE fd' = 0 /\ gen' = gen
    BY <1>0, <1>1, <2>1, <2>2, <2>3 DEF ObjectsOK, Opening, Inside
  <2>4. CASE gen' = gen + 1
    <3>1. \A u \in Thread : obj[u].gen # gen' /\ obj[u].gen <= gen'
      BY <1>1, <2>1, <2>4
    <3> QED BY <1>0, <1>1, <2>1, <2>2, <3>1 DEF ObjectsOK, Opening, Inside
  <2> QED BY <1>2, <1>5, <2>3, <2>4
<1> QED BY <1>8, <1>9, <1>10, <1>11, <1>12, <1>13, <1>14, <1>15 DEF IInv

\* A request joins a quiet connection: it is the only message under way.
LEMMA SendStep ==
    ASSUME IInv, NEW t \in Thread, NEW cmd \in Cmd, NEW h \in Nat, NEW arg \in Proc \cup Tid \cup Slot \cup {0},
           fd # 0 => ReqOK(wk[fd], Request(t, cmd, h, arg)),
           cmd = "arch" <=> th[t].pc = "opened", cmd = "open" => obj[t] = NoObj, send(t, cmd, h, arg)
    PROVE  IInv'
<1> DEFINE r == Request(t, cmd, h, arg)
           new == [Idle EXCEPT !.pc = "recv", !.cmd = cmd]
           e == [sock[fd] EXCEPT !.req = Append(@, r)]
<1>0. th[t].pc \in {"idle", "opened"} /\ lock \in {0, t} /\ fd # 0 /\ fd \in Conn
  BY PublishedMade DEF send
<1>1. CASE sock[fd].cl # "open"
  <2>1. retireConnection(t)
    BY <1>1 DEF send
  <2> QED BY <1>0, <2>1, RetireStep
<1>2. CASE sock[fd].cl = "open"
  <2>0. /\ lock' = t /\ th' = [th EXCEPT ![t] = new] /\ UNCHANGED <<fd, closing, gen, obj, svars, wk>>
        /\ sock' = [sock EXCEPT ![fd].req = Append(@, r)]
    BY <1>2 DEF send
  <2>1. /\ th \in [Thread -> Ctl] /\ obj \in [Thread -> [gen : Nat, h : Nat, p : Nat]] /\ gen \in Nat
        /\ closing \in BOOLEAN /\ sock \in [Conn -> Sock] /\ wk \in [Conn -> Worker] /\ 0 \notin Conn /\ t # 0
    BY ThreadFacts
  <2>2. new \in Ctl /\ new.pc = "recv" /\ new.cmd = cmd /\ new.cand = 0
    BY DEF Idle, Ctl, Inside
  <2>3. \A u \in Thread : u # t => th[u].pc \notin Inside /\ th[u].cand = 0 /\ ~Opening(u)
    <3>1. \A u \in Thread : u # 0
      BY ThreadFacts
    <3> QED BY <1>0, <3>1, NobodyInside
  <2>4. Quiet(fd)
    <3>1. ~(lock \in Thread /\ th[lock].pc = "recv")
      BY <1>0, <2>1, ThreadFacts
    <3> QED BY <1>0, <3>1 DEF IInv, Flow
  <2>5. r \in Req /\ r.by = t /\ r.cmd = cmd /\ ReqOK(wk[fd], r)
    BY <1>0 DEF ReqOK, Request
  <2>6. sock[fd] \in Sock /\ sock[fd].req = <<>> /\ sock[fd].rep = <<>>
    BY <1>0, <2>1, <2>4 DEF Quiet
  <2> HIDE DEF r, new
  <2>7. e \in Sock /\ e.req = <<r>> /\ e.rep = <<>> /\ e.cl = "open" /\ e.sv = sock[fd].sv
    <3>1. Append(sock[fd].req, r) = <<r>> /\ <<r>> \in Seq(Req)
      BY <2>5, <2>6
    <3> QED BY <1>2, <2>6, <3>1 DEF Sock
  <2>8. sock' = [sock EXCEPT ![fd] = e]
    BY <2>0, <2>1
  <2> HIDE DEF e
  <2>9. sock' \in [Conn -> Sock] /\ \A d \in Conn : sock'[d] = IF d = fd THEN e ELSE sock[d]
    BY <1>0, <2>1, <2>7, <2>8
  <2>10. /\ \A d \in Conn : sock'[d].cl = sock[d].cl /\ sock'[d].sv = sock[d].sv
         /\ \A d \in Conn : d # fd => sock'[d] = sock[d]
    BY <1>2, <2>7, <2>9
  <2>11. \A u \in Thread : th'[u] = IF u = t THEN new ELSE th[u]
    BY <2>0, <2>1
  <2>12. TypeOK'
    <3>1. th' \in [Thread -> Ctl] /\ obj' \in [Thread -> [gen : Nat, h : Nat, p : Nat]]
      BY <2>0, <2>1, <2>2
    <3>2. fd' \in Conn \cup {0} /\ gen' \in Nat /\ lock' \in Thread \cup {0}
      BY <1>0, <2>0, <2>1
    <3>3. closing' \in BOOLEAN
      BY <2>0, <2>1, Zenon
    <3>4. wk' \in [Conn -> Worker]
      BY <2>0, <2>1
    <3> QED BY <2>9, <3>1, <3>2, <3>3, <3>4 DEF TypeOK, ClientType
  <2>13. WorkersOK'
    BY <2>0 DEF IInv, WorkersOK
  <2>14. RequestsOK'
    <3> SUFFICES ASSUME NEW d \in Conn, NEW i \in 1 .. Len(sock'[d].req)
                 PROVE  ReqOK(wk'[d], sock'[d].req[i])
      BY DEF RequestsOK
    <3>1. CASE d # fd
      BY <2>0, <2>10, <3>1 DEF IInv, RequestsOK
    <3>2. CASE d = fd
      <4>1. sock'[d].req = <<r>>
        BY <2>7, <2>9, <3>2
      <4>2. Len(<<r>>) = 1 /\ <<r>>[1] = r
        OBVIOUS
      <4>3. i = 1
        BY <4>1, <4>2
      <4> QED BY <2>0, <2>5, <3>2, <4>1, <4>2, <4>3
    <3> QED BY <3>1, <3>2
  <2>15. LockHeld'
    BY <2>0, <2>2, <2>3, <2>11 DEF LockHeld, Inside
  <2>16. CandidateOK'
    BY <2>2, <2>3, <2>11 DEF CandidateOK, Inside
  <2>17. OpenSockets' /\ PublishedOpen'
    <3>1. th[t].cand = 0
      BY <1>0 DEF IInv, CandidateOK
    <3> QED BY <1>0, <2>0, <2>1, <2>3, <2>10, <3>1 DEF IInv, OpenSockets, PublishedOpen
  <2>18. CloseOnItsWay'
    BY <1>0, <2>0, <2>11 DEF IInv, CloseOnItsWay
  <2>19. LifeOK'
    <3>1. wk' = wk /\ apc' = apc /\ got' = got
      BY <2>0 DEF svars
    <3>2. \A d \in Conn : sock'[d].cl = "none" => d # fd /\ sock'[d] = sock[d]
      BY <1>2, <2>10
    <3>3. \A d \in Conn : d # fd /\ Quiet(d) => Quiet(d)'
      BY <2>10, <3>1 DEF Quiet
    <3> QED BY <2>10, <3>1, <3>2, <3>3 DEF IInv, LifeOK
  <2>20. Flow'
    <3>1. fd' = fd /\ lock' = t /\ th'[t] = new /\ wk' = wk /\ sock'[fd] = e
      BY <1>0, <2>0, <2>9, <2>11
    <3>2. Asked(fd)'
      <4>1. Len(e.req) = 1 /\ e.req[1] = r /\ wk[fd].pc # "wait"
        BY <2>4, <2>7 DEF Quiet
      <4> QED BY <2>2, <2>5, <2>7, <3>1, <4>1 DEF Asked
    <3> QED BY <2>2, <3>1, <3>2 DEF Flow
  <2>21. ObjectsOK'
    <3>1. /\ obj' = obj /\ fd' = fd /\ gen' = gen /\ wk' = wk
          /\ Opening(t) <=> th[t].pc = "opened"
      BY <1>0, <2>0 DEF IInv, ObjectsOK
    <3> QED BY <1>0, <2>2, <2>3, <2>11, <3>1 DEF IInv, ObjectsOK, Opening, Inside
  <2> QED BY <2>12, <2>13, <2>14, <2>15, <2>16, <2>17, <2>18, <2>19, <2>20, <2>21 DEF IInv
<1> QED BY <1>1, <1>2

\* The object remembers the generation of the connection it was opened on.
LEMMA ConstructStep ==
    ASSUME IInv, NEW t \in Thread, construct(t)
    PROVE  IInv'
<1>0. /\ th[t].pc = "construct" /\ obj' = [obj EXCEPT ![t].gen = gen] /\ lock' = 0
      /\ th' = [th EXCEPT ![t] = Idle] /\ UNCHANGED <<fd, closing, gen, sock, svars, wk>>
  BY DEF construct
<1>1. /\ th \in [Thread -> Ctl] /\ obj \in [Thread -> [gen : Nat, h : Nat, p : Nat]] /\ gen \in Nat
      /\ closing \in BOOLEAN /\ sock \in [Conn -> Sock] /\ wk \in [Conn -> Worker] /\ 0 \notin Conn
      /\ Idle \in Ctl /\ Idle.pc = "idle" /\ Idle.cand = 0 /\ fd \in Conn \cup {0}
  BY ThreadFacts
<1> DEFINE new == [obj[t] EXCEPT !.gen = gen]
<1>2. /\ new \in [gen : Nat, h : Nat, p : Nat] /\ new.gen = gen /\ new.h = obj[t].h /\ new.p = obj[t].p
      /\ obj' = [obj EXCEPT ![t] = new]
  BY <1>0, <1>1
<1> HIDE DEF new
<1>3. /\ \A u \in Thread : th'[u] = IF u = t THEN Idle ELSE th[u]
      /\ \A u \in Thread : obj'[u] = IF u = t THEN new ELSE obj[u]
  BY <1>0, <1>1, <1>2
<1>4. lock = t /\ Opening(t) /\ fd # 0 /\ gen > 0
  <2>1. lock = t /\ Opening(t) /\ fd # 0
    BY <1>0 DEF IInv, LockHeld, Inside, ObjectsOK
  <2> QED BY <2>1, PublishedMade
<1>5. \A u \in Thread : u # 0 /\ (u # t => th[u].pc \notin Inside /\ th[u].cand = 0 /\ ~Opening(u))
  BY <1>4, ThreadFacts, NobodyInside
<1>6. /\ wk' \in [Conn -> Worker] /\ WorkersOK' /\ RequestsOK' /\ LifeOK'
      /\ \A d \in Conn : Quiet(d) <=> Quiet(d)'
  BY <1>0, <1>1, NothingSent
<1>7. TypeOK'
  <2>1. th' \in [Thread -> Ctl] /\ obj' \in [Thread -> [gen : Nat, h : Nat, p : Nat]]
    BY <1>0, <1>1, <1>2
  <2>2. fd' \in Conn \cup {0} /\ gen' \in Nat /\ lock' \in Thread \cup {0}
    BY <1>0, <1>1
  <2>3. closing' \in BOOLEAN
    BY <1>0, <1>1, Zenon
  <2> QED BY <1>0, <1>1, <1>6, <2>1, <2>2, <2>3 DEF TypeOK, ClientType
<1>8. LockHeld' /\ CandidateOK'
  <2>1. \A u \in Thread : th'[u].pc \notin Inside /\ th'[u].cand = 0
    BY <1>1, <1>3, <1>5 DEF Inside
  <2> QED BY <1>0, <1>5, <2>1 DEF LockHeld, CandidateOK, Inside
<1>9. OpenSockets' /\ PublishedOpen' /\ CloseOnItsWay'
  <2>1. th[t].cand = 0
    BY <1>0 DEF IInv, CandidateOK
  <2>2. OpenSockets'
    BY <1>0, <1>1, <1>3, <2>1 DEF IInv, OpenSockets
  <2>3. PublishedOpen'
    BY <1>0 DEF IInv, PublishedOpen
  <2>4. CloseOnItsWay'
    BY <1>0, <1>3 DEF IInv, CloseOnItsWay
  <2> QED BY <2>2, <2>3, <2>4
<1>10. Flow'
  <2>1. Quiet(fd) /\ fd \in Conn
    BY <1>0, <1>1, <1>4 DEF IInv, Flow
  <2> QED BY <1>0, <1>6, <2>1 DEF Flow
<1>11. ObjectsOK'
  <2>1. Names(wk[fd], obj[t].h, obj[t].p)
    BY <1>4 DEF IInv, ObjectsOK, Opening
  <2>2. wk' = wk /\ fd' = fd /\ gen' = gen
    BY <1>0
  <2> QED BY <1>1, <1>2, <1>3, <1>4, <1>5, <2>1, <2>2 DEF IInv, ObjectsOK, Opening, Inside
<1> QED BY <1>6, <1>7, <1>8, <1>9, <1>10, <1>11 DEF IInv

\* An object of a connection that is gone is dropped.
LEMMA RemoteGoneStep ==
    ASSUME IInv, NEW t \in Thread, remoteGone(t)
    PROVE  IInv'
<1>0. /\ th[t].pc = "idle" /\ obj' = [obj EXCEPT ![t] = NoObj]
      /\ UNCHANGED <<fd, closing, gen, lock, th, sock, svars, wk>>
  BY DEF remoteGone
<1>1. /\ obj \in [Thread -> [gen : Nat, h : Nat, p : Nat]] /\ gen \in Nat /\ sock \in [Conn -> Sock]
      /\ NoObj \in [gen : Nat, h : Nat, p : Nat] /\ NoObj.h = 0 /\ NoObj.gen = 0
  BY ThreadFacts
<1>2. \A u \in Thread : obj'[u] = IF u = t THEN NoObj ELSE obj[u]
  BY <1>0, <1>1
<1>3. /\ wk' \in [Conn -> Worker] /\ WorkersOK' /\ RequestsOK' /\ LifeOK'
  BY <1>0, <1>1, NothingSent
<1>4. TypeOK'
  BY <1>0, <1>1, <1>3 DEF IInv, TypeOK, ClientType
<1>5. LockHeld' /\ CandidateOK' /\ OpenSockets' /\ PublishedOpen' /\ CloseOnItsWay'
  BY <1>0 DEF IInv, LockHeld, CandidateOK, OpenSockets, PublishedOpen, CloseOnItsWay, Quiet
<1>6. Flow'
  BY <1>0 DEF IInv, Flow, Quiet, Asked, Replied, Waiting
<1>7. ObjectsOK'
  <2>1. fd' = fd /\ gen' = gen /\ th' = th /\ wk' = wk
    BY <1>0
  <2> QED BY <1>0, <1>1, <1>2, <2>1 DEF IInv, ObjectsOK, Opening
<1> QED BY <1>3, <1>4, <1>5, <1>6, <1>7 DEF IInv

\* The reply to the thread's own request: what was opened is named by its
\* handle, and the connection is quiet again.
LEMMA RecvReplyStep ==
    ASSUME IInv, NEW t \in Thread, recvReply(t)
    PROVE  IInv'
<1> DEFINE r == Head(sock[fd].rep)
           cmd == th[t].cmd
           made == CASE cmd = "open" /\ r.res # 0 -> [NoObj EXCEPT !.h = r.res, !.p = r.p]
                     [] cmd = "closehandle"       -> NoObj
                     [] OTHER                     -> obj[t]
           next == CASE cmd = "open" /\ r.res # 0 -> "opened"
                     [] cmd = "arch"              -> "construct"
                     [] OTHER                     -> "idle"
           new == [Idle EXCEPT !.pc = next]
           e == [sock[fd] EXCEPT !.rep = Tail(@)]
<1>0. /\ th[t].pc = "recv" /\ sock[fd].rep # <<>> /\ sock' = [sock EXCEPT ![fd].rep = Tail(@)]
      /\ lock' = (IF next = "idle" THEN 0 ELSE t) /\ th' = [th EXCEPT ![t] = new]
      /\ UNCHANGED <<fd, closing, gen, svars, wk>>
  BY DEF recvReply
<1>1. /\ th \in [Thread -> Ctl] /\ obj \in [Thread -> [gen : Nat, h : Nat, p : Nat]] /\ gen \in Nat
      /\ closing \in BOOLEAN /\ sock \in [Conn -> Sock] /\ wk \in [Conn -> Worker] /\ 0 \notin Conn
      /\ Idle \in Ctl /\ Idle.pc = "idle" /\ Idle.cand = 0 /\ fd \in Conn \cup {0} /\ t # 0
      /\ NoObj \in [gen : Nat, h : Nat, p : Nat] /\ NoObj.h = 0 /\ NoObj.gen = 0
  BY ThreadFacts
<1>2. obj' = [obj EXCEPT ![t] = made]
  BY <1>1 DEF recvReply
<1>3. lock = t /\ fd # 0 /\ fd \in Conn
  <2>1. lock = t /\ fd # 0
    BY <1>0 DEF IInv, LockHeld, Inside, ObjectsOK
  <2> QED BY <1>1, <2>1
<1>4. Replied(fd)
  <2>1. ~Quiet(fd) /\ ~Asked(fd) /\ ~Waiting(fd)
    BY <1>0 DEF Quiet, Asked, Waiting
  <2> QED BY <1>3, <2>1 DEF IInv, Flow
<1>5. /\ sock[fd] \in Sock /\ sock[fd].req = <<>> /\ Len(sock[fd].rep) = 1 /\ wk[fd].pc # "wait"
      /\ sock[fd].rep \in Seq(Rep) /\ r = sock[fd].rep[1]
      /\ cmd = "open" /\ r.res # 0 => Names(wk[fd], r.res, r.p)
  <2>1. sock[fd] \in Sock /\ sock[fd].rep \in Seq(Rep) /\ r = sock[fd].rep[1]
    BY <1>0, <1>3, ConnFacts
  <2>2. /\ sock[fd].req = <<>> /\ Len(sock[fd].rep) = 1 /\ wk[fd].pc # "wait"
        /\ th[lock].cmd = "open" /\ sock[fd].rep[1].res # 0
             => Names(wk[fd], sock[fd].rep[1].res, sock[fd].rep[1].p)
    BY <1>4 DEF Replied
  <2> QED BY <1>3, <2>1, <2>2
<1>6. r \in Rep /\ Tail(sock[fd].rep) = <<>> /\ <<>> \in Seq(Rep)
  BY <1>5, OneElement
<1>7. r.res \in Nat /\ r.p \in Nat
  BY <1>6 DEF Rep
<1> HIDE DEF r
<1>8. /\ e \in Sock /\ e.req = <<>> /\ e.rep = <<>> /\ e.cl = sock[fd].cl /\ e.sv = sock[fd].sv
      /\ sock' = [sock EXCEPT ![fd] = e]
  BY <1>0, <1>1, <1>5, <1>6 DEF Sock
<1> HIDE DEF e
<1>9. /\ sock' \in [Conn -> Sock] /\ \A d \in Conn : sock'[d] = IF d = fd THEN e ELSE sock[d]
      /\ \A d \in Conn : sock'[d].cl = sock[d].cl /\ sock'[d].sv = sock[d].sv
  <2>1. sock' \in [Conn -> Sock] /\ \A d \in Conn : sock'[d] = IF d = fd THEN e ELSE sock[d]
    BY <1>1, <1>3, <1>8
  <2> QED BY <1>8, <2>1
<1>10. /\ ~Opening(t) \/ cmd = "arch"
       /\ cmd = "arch" => Opening(t)
       /\ cmd = "open" => obj[t] = NoObj
  BY <1>0 DEF IInv, ObjectsOK
<1>11. /\ made \in [gen : Nat, h : Nat, p : Nat]
       /\ next \in {"idle", "opened", "construct"}
       /\ (made.gen = 0 /\ made.h # 0) <=> next # "idle"
       /\ made.gen <= gen
       /\ made.h # 0 /\ made.gen \in {0, gen} => Names(wk[fd], made.h, made.p)
  <2>1. CASE cmd = "open" /\ r.res # 0
    <3>1. made = [NoObj EXCEPT !.h = r.res, !.p = r.p] /\ next = "opened"
      BY <2>1
    <3>2. made \in [gen : Nat, h : Nat, p : Nat] /\ made.gen = 0 /\ made.h = r.res /\ made.p = r.p
      BY <1>1, <1>7, <3>1 DEF NoObj
    <3> HIDE DEF made, next
    <3> QED BY <1>1, <1>5, <1>7, <2>1, <3>1, <3>2
  <2>2. CASE ~(cmd = "open" /\ r.res # 0)
    <3>1. obj[t].gen <= gen /\ (obj[t].h # 0 /\ obj[t].gen \in {0, gen} => Names(wk[fd], obj[t].h, obj[t].p))
      BY <1>3 DEF IInv, ObjectsOK
    <3>2. CASE cmd = "arch"
      <4>1. made = obj[t] /\ next = "construct"
        BY <2>2, <3>2
      <4> HIDE DEF made, next
      <4> QED BY <1>1, <1>10, <3>1, <3>2, <4>1 DEF Opening
    <3>3. CASE cmd # "arch"
      <4>1. next = "idle" /\ made \in {obj[t], NoObj}
        BY <2>2, <3>3
      <4>2. ~Opening(t)
        BY <1>10, <3>3
      <4> HIDE DEF made, next
      <4> QED BY <1>1, <3>1, <4>1, <4>2 DEF Opening
    <3> QED BY <3>2, <3>3
  <2> QED BY <2>1, <2>2
<1>12. new \in Ctl /\ new.pc = next /\ new.cand = 0
  <2> HIDE DEF next
  <2> QED BY <1>11 DEF Idle, Ctl, Inside
<1> HIDE DEF made, next, new
<1>13. /\ \A u \in Thread : th'[u] = IF u = t THEN new ELSE th[u]
       /\ \A u \in Thread : obj'[u] = IF u = t THEN made ELSE obj[u]
  BY <1>0, <1>1, <1>2
<1>14. \A u \in Thread : u # 0 /\ (u # t => th[u].pc \notin Inside /\ th[u].cand = 0 /\ ~Opening(u))
  BY <1>3, ThreadFacts, NobodyInside
<1>15. TypeOK'
  <2>1. th' \in [Thread -> Ctl] /\ obj' \in [Thread -> [gen : Nat, h : Nat, p : Nat]]
    BY <1>0, <1>1, <1>2, <1>11, <1>12
  <2>2. fd' \in Conn \cup {0} /\ gen' \in Nat /\ lock' \in Thread \cup {0}
    BY <1>0, <1>1
  <2>3. closing' \in BOOLEAN
    BY <1>0, <1>1, Zenon
  <2> QED BY <1>0, <1>1, <1>9, <2>1, <2>2, <2>3 DEF TypeOK, ClientType
<1>16. WorkersOK'
  BY <1>0 DEF IInv, WorkersOK
<1>17. RequestsOK'
  <2>1. \A d \in Conn : sock'[d].req = sock[d].req
    BY <1>5, <1>8, <1>9
  <2> QED BY <1>0, <2>1 DEF IInv, RequestsOK
<1>18. LockHeld'
  BY <1>0, <1>11, <1>12, <1>13, <1>14 DEF LockHeld, Inside
<1>19. CandidateOK'
  BY <1>11, <1>12, <1>13, <1>14 DEF CandidateOK, Inside
<1>20. OpenSockets' /\ PublishedOpen' /\ CloseOnItsWay'
  <2>1. th[t].cand = 0
    BY <1>0 DEF IInv, CandidateOK
  <2>2. OpenSockets'
    BY <1>0, <1>1, <1>9, <1>13, <2>1 DEF IInv, OpenSockets
  <2>3. PublishedOpen'
    BY <1>0, <1>3, <1>9 DEF IInv, PublishedOpen
  <2>4. CloseOnItsWay'
    BY <1>0, <1>13 DEF IInv, CloseOnItsWay
  <2> QED BY <2>2, <2>3, <2>4
<1>21. LifeOK'
  <2>1. wk' = wk /\ apc' = apc /\ got' = got
    BY <1>0 DEF svars
  <2>2. \A d \in Conn : Quiet(d) => Quiet(d)'
    BY <1>8, <1>9, <2>1 DEF Quiet
  <2> QED BY <1>9, <2>1, <2>2 DEF IInv, LifeOK
<1>22. Flow'
  <2>1. Quiet(fd)' /\ fd' = fd
    BY <1>0, <1>3, <1>5, <1>8, <1>9 DEF Quiet
  <2> QED BY <2>1 DEF Flow, Quiet
<1>23. ObjectsOK'
  <2>1. fd' = fd /\ gen' = gen /\ wk' = wk
    BY <1>0
  <2> QED BY <1>3, <1>11, <1>12, <1>13, <1>14, <2>1 DEF IInv, ObjectsOK, Opening, Inside
<1> QED BY <1>15, <1>16, <1>17, <1>18, <1>19, <1>20, <1>21, <1>22, <1>23 DEF IInv

\* A request through an object whose generation is current, or that is being
\* opened, names its process on the connection in use.
LEMMA ObjectRequestOK ==
    ASSUME IInv, NEW t \in Thread, fd # 0, obj[t].h # 0, obj[t].gen \in {0, gen},
           NEW cmd \in Cmd \ {"open", "entry"}, NEW arg \in Proc \cup Tid \cup Slot \cup {0},
           cmd \in {"setbp", "rmbp"} => arg \in Slot
    PROVE  ReqOK(wk[fd], Request(t, cmd, obj[t].h, arg))
<1> DEFINE r == Request(t, cmd, obj[t].h, arg)
<1>1. obj[t].h \in Nat /\ obj[t].p \in Nat
  BY ThreadFacts
<1>2. r \in Req /\ r.cmd = cmd /\ r.h = obj[t].h /\ r.p = obj[t].p /\ r.arg = arg
  BY <1>1 DEF Request, Req
<1>3. Names(wk[fd], obj[t].h, obj[t].p)
  BY DEF IInv, ObjectsOK
<1> HIDE DEF r
<1> QED BY <1>2, <1>3 DEF ReqOK, r

\* A request that needs no process.
LEMMA FreeRequestOK ==
    ASSUME IInv, NEW t \in Thread, fd # 0, NEW cmd \in Free, NEW h \in Nat,
           NEW arg \in Proc \cup {0}, cmd = "entry" => h \in Handle, cmd = "open" => arg \in Proc
    PROVE  ReqOK(wk[fd], Request(t, cmd, h, arg))
<1> DEFINE r == Request(t, cmd, h, arg)
<1>1. obj[t].p \in Nat
  BY ThreadFacts
<1>2. r \in Req /\ r.cmd = cmd /\ r.h = h /\ r.arg = arg
  BY <1>1 DEF Request, Req, Cmd
<1> HIDE DEF r
<1> QED BY <1>2 DEF ReqOK, r, Free

LEMMA ClientStepOK ==
    ASSUME IInv, NEW t \in Thread, ClientStep(t)
    PROVE  IInv'
<1>0. /\ obj[t] \in [gen : Nat, h : Nat, p : Nat] /\ obj[t].h \in Nat
      /\ lock = t <=> th[t].pc \in Inside
      /\ Opening(t) <=> th[t].pc \in {"opened", "construct"} \/ (th[t].pc = "recv" /\ th[t].cmd = "arch")
  BY ThreadFacts DEF IInv, LockHeld, ObjectsOK
<1>1. CASE closeCancel(t, "close") \/ closeCancel(t, "reconnect")
  BY <1>1, CloseCancelStep
<1>2. CASE closeFinish(t) \/ connectBegin(t) \/ connectPublish(t)
  BY <1>2, CloseFinishStep, ConnectBeginStep, ConnectPublishStep
<1>3. CASE openRemote(t)
  <2>1. CASE th[t].pc = "opened" /\ send(t, "arch", obj[t].h, 0)
    <3>1. fd # 0
      BY <2>1 DEF send
    <3>2. ReqOK(wk[fd], Request(t, "arch", obj[t].h, 0))
      BY <1>0, <2>1, <3>1, ObjectRequestOK DEF Opening, Cmd
    <3> QED BY <1>0, <2>1, <3>2, SendStep DEF Cmd
  <2>2. ASSUME obj[t] = NoObj, th[t].pc = "idle", NEW p \in Proc, send(t, "open", 0, p)
        PROVE  IInv'
    <3>1. fd # 0
      BY <2>2 DEF send
    <3>2. ReqOK(wk[fd], Request(t, "open", 0, p))
      BY <3>1, FreeRequestOK DEF Free
    <3> QED BY <2>2, <3>2, SendStep DEF Cmd, Free
  <2> QED BY <1>3, <2>1, <2>2 DEF openRemote
<1>4. CASE processOp(t)
  <2>1. PICK cmd \in uses.ops[t] \cap MemoryCmd : send(t, cmd, obj[t].h, 0)
    BY <1>4 DEF processOp
  <2>2. fd # 0 /\ obj[t].h # 0 /\ obj[t].gen = gen /\ th[t].pc = "idle"
    BY <1>4 DEF processOp, connectionValid, isConnected
  <2>3. cmd \in Cmd \ {"open", "entry", "arch", "setbp", "rmbp"}
    BY DEF MemoryCmd, Cmd
  <2>4. ReqOK(wk[fd], Request(t, cmd, obj[t].h, 0))
    BY <2>2, <2>3, ObjectRequestOK
  <2> QED BY <1>0, <2>1, <2>2, <2>3, <2>4, SendStep
<1>5. CASE debuggerOp(t)
  <2>1. PICK cmd \in uses.ops[t] \cap (DebugCmd \cup ContextCmd) :
          \E arg \in IF cmd = "cont" THEN Tid ELSE IF cmd \in {"setbp", "rmbp"} THEN Slot ELSE {0} :
            send(t, cmd, obj[t].h, arg)
    BY <1>5 DEF debuggerOp
  <2>2. PICK arg \in IF cmd = "cont" THEN Tid ELSE IF cmd \in {"setbp", "rmbp"} THEN Slot ELSE {0} :
          send(t, cmd, obj[t].h, arg)
    BY <2>1
  <2>3. fd # 0 /\ obj[t].h # 0 /\ obj[t].gen = gen /\ th[t].pc = "idle"
    BY <1>5 DEF debuggerOp, connectionValid, isConnected
  <2>4. cmd \in Cmd \ {"open", "entry", "arch"}
    BY DEF DebugCmd, ContextCmd, Cmd
  <2>5. arg \in Proc \cup Tid \cup Slot \cup {0} /\ (cmd \in {"setbp", "rmbp"} => arg \in Slot)
    BY <2>2
  <2>6. ReqOK(wk[fd], Request(t, cmd, obj[t].h, arg))
    BY <2>3, <2>4, <2>5, ObjectRequestOK
  <2> QED BY <1>0, <2>2, <2>3, <2>4, <2>5, <2>6, SendStep
<1>6. CASE clientCommand(t)
  <2>1. th[t].pc = "idle"
    BY <1>6 DEF clientCommand
  <2>2. ASSUME NEW cmd \in {"plain", "snap"}, send(t, cmd, 0, 0)
        PROVE  IInv'
    <3>1. fd # 0
      BY <2>2 DEF send
    <3>2. ReqOK(wk[fd], Request(t, cmd, 0, 0))
      BY <3>1, FreeRequestOK DEF Free
    <3> QED BY <2>1, <2>2, <3>2, SendStep DEF Cmd, Free
  <2>3. ASSUME NEW h \in Handle, send(t, "entry", h, 0)
        PROVE  IInv'
    <3>1. fd # 0 /\ h \in Nat
      BY <2>3 DEF send, Handle
    <3>2. ReqOK(wk[fd], Request(t, "entry", h, 0))
      BY <3>1, FreeRequestOK DEF Free
    <3> QED BY <2>1, <2>3, <3>1, <3>2, SendStep DEF Cmd, Free
  <2> QED BY <1>6, <2>2, <2>3 DEF clientCommand
<1>7. CASE construct(t) \/ remoteGone(t) \/ recvReply(t)
  BY <1>7, ConstructStep, RemoteGoneStep, RecvReplyStep
<1>8. CASE recvFails(t) \/ recvTimeout(t)
  <2>1. th[t].pc = "recv" /\ retireConnection(t)
    BY <1>8 DEF recvFails, recvTimeout
  <2>2. lock = t /\ fd # 0
    BY <1>0, <2>1 DEF Inside, IInv, ObjectsOK
  <2> QED BY <2>1, <2>2, RetireStep
<1> QED BY <1>1, <1>2, <1>3, <1>4, <1>5, <1>6, <1>7, <1>8 DEF ClientStep

\* At the start nothing is connected and no worker runs.
LEMMA InitIInv == Init => IInv
<1> SUFFICES ASSUME Init PROVE IInv
  OBVIOUS
<1> DEFINE fresh == [NewWorker EXCEPT !.pc = "none"]
<1>0. /\ fd = 0 /\ closing = FALSE /\ gen = 0 /\ lock = 0
      /\ th = [t \in Thread |-> Idle] /\ obj = [t \in Thread |-> NoObj] /\ apc = "off"
      /\ sock = [c \in Conn |-> [cl |-> "none", sv |-> "none", req |-> <<>>, rep |-> <<>>]]
      /\ wk = [c \in Conn |-> fresh]
  BY DEF Init
<1>1. WorkerOK(fresh) /\ fresh \in Worker /\ fresh.pc = "none"
  BY FreshOK DEF NewWorker, WorkerOK
<1>2. /\ Idle \in Ctl /\ Idle.pc = "idle" /\ Idle.cand = 0
      /\ NoObj \in [gen : Nat, h : Nat, p : Nat] /\ NoObj.h = 0 /\ NoObj.gen = 0
  BY DEF Idle, NoObj, Ctl
<1>3. [cl |-> "none", sv |-> "none", req |-> <<>>, rep |-> <<>>] \in Sock
  <2>1. <<>> \in Seq(Req) /\ <<>> \in Seq(Rep)
    OBVIOUS
  <2> QED BY <2>1 DEF Sock
<1> HIDE DEF fresh
<1>4. \A t \in Thread : t # 0
  BY CeserverAssumption
<1>5. TypeOK
  <2>1. closing \in BOOLEAN
    BY <1>0, Zenon
  <2> QED BY <1>0, <1>1, <1>2, <1>3, <2>1 DEF TypeOK, ClientType
<1>6. WorkersOK /\ RequestsOK
  BY <1>0, <1>1 DEF WorkersOK, RequestsOK
<1>7. LockHeld /\ CandidateOK /\ PublishedOpen /\ CloseOnItsWay /\ Flow /\ OpenSockets
  BY <1>0, <1>2, <1>4 DEF LockHeld, CandidateOK, PublishedOpen, CloseOnItsWay, Flow, OpenSockets, Inside
<1>8. LifeOK
  BY <1>0, <1>1 DEF LifeOK, Quiet
<1>9. ObjectsOK
  BY <1>0, <1>2 DEF ObjectsOK, Opening
<1> QED BY <1>5, <1>6, <1>7, <1>8, <1>9 DEF IInv

\* Every step keeps the inductive invariant.
LEMMA NextIInv == IInv /\ [Next]_vars => IInv'
<1> SUFFICES ASSUME IInv, [Next]_vars PROVE IInv'
  OBVIOUS
<1>1. CASE UNCHANGED vars
  BY <1>1 DEF vars, cvars, svars, IInv, TypeOK, ClientType, WorkersOK, RequestsOK, LockHeld, CandidateOK,
       OpenSockets, PublishedOpen, CloseOnItsWay, LifeOK, Flow, Quiet, Asked, Replied, Waiting, ObjectsOK, Opening
<1>2. ASSUME NEW t \in Thread, ClientStep(t) PROVE IInv'
  BY <1>2, ClientStepOK
<1>3. CASE ServerStep
  BY <1>3, ServerStepOK
<1>4. ASSUME NEW c \in Conn, WorkerStep(c) \/ waitTimeout(c) \/ targetStops(c) PROVE IInv'
  BY <1>4, ServeCommandStep, WaitBeginStep, WaitAnswerStep, LeaveStep, WorkerEndsStep, TargetStopsStep
     DEF WorkerStep, waitDone, waitTimeout
<1> QED BY <1>1, <1>2, <1>3, <1>4 DEF Next

(***************************************************************************)
(* The theorems.                                                           *)
(***************************************************************************)
\* Whatever the constants, every reachable state satisfies the invariant.
THEOREM CeserverInvariant == Spec => []IInv
BY InitIInv, NextIInv, PTL DEF Spec

\* Three sequences of at most one element between them.
LEMMA ThreeSequences ==
    ASSUME NEW S, NEW a \in Seq(S), NEW b \in Seq(S), NEW w \in Seq(S), Len(a) + Len(b) + Len(w) <= 1
    PROVE  /\ Len(a \o b \o w) = Len(a) + Len(b) + Len(w)
           /\ Len(a) = 1 => (a \o b \o w)[1] = a[1]
           /\ Len(b) = 1 => (a \o b \o w)[1] = b[1]
           /\ Len(w) = 1 => (a \o b \o w)[1] = w[1]
           /\ Len(a) + Len(b) + Len(w) = 0 => a \o b \o w = <<>>
<1>1. Len(a) \in Nat /\ Len(b) \in Nat /\ Len(w) \in Nat
  BY LenProperties
<1>2. /\ a \o b \in Seq(S) /\ Len(a \o b) = Len(a) + Len(b)
      /\ \A i \in 1 .. (Len(a) + Len(b)) : (a \o b)[i] = IF i <= Len(a) THEN a[i] ELSE b[i - Len(a)]
  BY ConcatProperties
<1>3. /\ (a \o b) \o w \in Seq(S) /\ Len((a \o b) \o w) = Len(a) + Len(b) + Len(w)
      /\ \A i \in 1 .. (Len(a) + Len(b) + Len(w)) :
           ((a \o b) \o w)[i] = IF i <= Len(a) + Len(b) THEN (a \o b)[i] ELSE w[i - (Len(a) + Len(b))]
  <2> DEFINE ab == a \o b
  <2>1. ab \in Seq(S) /\ Len(ab) = Len(a) + Len(b)
    BY <1>2
  <2> HIDE DEF ab
  <2>2. /\ ab \o w \in Seq(S) /\ Len(ab \o w) = Len(ab) + Len(w)
        /\ \A i \in 1 .. (Len(ab) + Len(w)) : (ab \o w)[i] = IF i <= Len(ab) THEN ab[i] ELSE w[i - Len(ab)]
    BY <2>1, ConcatProperties
  <2> QED BY <2>1, <2>2 DEF ab
<1>4. Len(a) + Len(b) + Len(w) = 0 => a \o b \o w = <<>>
  BY <1>3, EmptySeq
<1> QED BY <1>1, <1>2, <1>3, <1>4

\* A request to be served names the process its sender opened, or none.
LEMMA OwnProcessHolds == IInv => OwnProcess
<1> SUFFICES ASSUME IInv, NEW c \in Conn, NEW i \in DOMAIN sock[c].req,
                    sock[c].req[i].cmd \notin {"plain", "open", "snap", "entry"}
             PROVE  process(wk[c], sock[c].req[i].h) \in {0, sock[c].req[i].p}
  BY DEF OwnProcess
<1>1. i \in 1 .. Len(sock[c].req) /\ WorkerOK(wk[c])
  BY ConnFacts, LenProperties
<1>2. ReqOK(wk[c], sock[c].req[i])
  BY <1>1 DEF IInv, RequestsOK
<1>3. Names(wk[c], sock[c].req[i].h, sock[c].req[i].p)
  BY <1>2 DEF ReqOK, Free
<1>4. CASE wk[c].pc = "finished"
  <2>1. wk[c] = [NewWorker EXCEPT !.pc = "finished"]
    BY <1>1, <1>4 DEF WorkerOK
  <2>2. \A h \in Handle : wk[c].tab[h] = 0
    BY <2>1 DEF NewWorker
  <2> QED BY <2>2 DEF process
<1> QED BY <1>3, <1>4 DEF Names

\* On the connection in use one message is under way at most, its caller's.
LEMMA InStepHolds == IInv => InStep
<1> SUFFICES ASSUME IInv, NEW c \in Conn, fd = c, sock[c].cl = "open"
             PROVE  LET owners == [i \in DOMAIN sock[c].req |-> sock[c].req[i].by]
                                    \o [i \in DOMAIN sock[c].rep |-> sock[c].rep[i].to]
                                    \o (IF wk[c].pc = "wait" THEN <<wk[c].to>> ELSE <<>>)
                    IN  /\ Len(owners) <= 1
                        /\ owners # <<>> => lock = owners[1] /\ th[lock].pc = "recv"
  BY DEF InStep
<1> DEFINE a == [i \in DOMAIN sock[c].req |-> sock[c].req[i].by]
           b == [i \in DOMAIN sock[c].rep |-> sock[c].rep[i].to]
           w == IF wk[c].pc = "wait" THEN <<wk[c].to>> ELSE <<>>
<1>1. /\ sock[c].req \in Seq(Req) /\ sock[c].rep \in Seq(Rep) /\ WorkerOK(wk[c]) /\ c # 0
  BY ConnFacts
<1>2. a \in Seq(Thread) /\ Len(a) = Len(sock[c].req) /\ (Len(a) = 1 => a[1] = sock[c].req[1].by)
  <2>1. /\ DOMAIN sock[c].req = 1 .. Len(sock[c].req) /\ Len(sock[c].req) \in Nat
        /\ \A i \in 1 .. Len(sock[c].req) : sock[c].req[i] \in Req
    BY <1>1, LenProperties, ElementOfSeq
  <2>2. \A i \in 1 .. Len(sock[c].req) : sock[c].req[i].by \in Thread
    BY <2>1 DEF Req
  <2> QED BY <2>1, <2>2
<1>3. b \in Seq(Thread) /\ Len(b) = Len(sock[c].rep) /\ (Len(b) = 1 => b[1] = sock[c].rep[1].to)
  <2>1. /\ DOMAIN sock[c].rep = 1 .. Len(sock[c].rep) /\ Len(sock[c].rep) \in Nat
        /\ \A i \in 1 .. Len(sock[c].rep) : sock[c].rep[i] \in Rep
    BY <1>1, LenProperties, ElementOfSeq
  <2>2. \A i \in 1 .. Len(sock[c].rep) : sock[c].rep[i].to \in Thread
    BY <2>1 DEF Rep
  <2> QED BY <2>1, <2>2
<1>4. /\ w \in Seq(Thread) /\ Len(w) = IF wk[c].pc = "wait" THEN 1 ELSE 0
      /\ Len(w) = 1 => w[1] = wk[c].to
  BY <1>1 DEF WorkerOK
<1> HIDE DEF a, b, w
<1>5. CASE Quiet(c)
  <2>1. Len(a) = 0 /\ Len(b) = 0 /\ Len(w) = 0
    BY <1>2, <1>3, <1>4, <1>5 DEF Quiet
  <2>2. Len(a \o b \o w) = 0 /\ a \o b \o w = <<>>
    BY <1>2, <1>3, <1>4, <2>1, ThreeSequences
  <2> QED BY <2>2 DEF a, b, w
<1>6. CASE lock \in Thread /\ th[lock].pc = "recv" /\ (Asked(c) \/ Replied(c) \/ Waiting(c))
  <2>1. \/ Len(a) = 1 /\ Len(b) = 0 /\ Len(w) = 0 /\ a[1] = lock
        \/ Len(a) = 0 /\ Len(b) = 1 /\ Len(w) = 0 /\ b[1] = lock
        \/ Len(a) = 0 /\ Len(b) = 0 /\ Len(w) = 1 /\ w[1] = lock
    BY <1>2, <1>3, <1>4, <1>6 DEF Asked, Replied, Waiting
  <2>2. /\ Len(a \o b \o w) = 1 /\ (a \o b \o w)[1] = lock
    <3>1. CASE Len(a) = 1 /\ Len(b) = 0 /\ Len(w) = 0 /\ a[1] = lock
      BY <1>2, <1>3, <1>4, <3>1, ThreeSequences
    <3>2. CASE Len(a) = 0 /\ Len(b) = 1 /\ Len(w) = 0 /\ b[1] = lock
      BY <1>2, <1>3, <1>4, <3>2, ThreeSequences
    <3>3. CASE Len(a) = 0 /\ Len(b) = 0 /\ Len(w) = 1 /\ w[1] = lock
      BY <1>2, <1>3, <1>4, <3>3, ThreeSequences
    <3> QED BY <2>1, <3>1, <3>2, <3>3
  <2> QED BY <1>6, <2>2 DEF a, b, w
<1> QED BY <1>1, <1>5, <1>6 DEF IInv, Flow

\* Sockets and slots are owned once.
LEMMA OwnedOnceHolds == IInv => OwnedOnce
<1> SUFFICES ASSUME IInv PROVE OwnedOnce
  OBVIOUS
<1>1. {c \in Conn : sock[c].cl \in {"open", "shut"}} \subseteq {fd} \cup {th[t].cand : t \in Thread}
  BY DEF IInv, OpenSockets
<1>2. fd # 0 => sock[fd].cl # "closed"
  BY DEF IInv, PublishedOpen
<1>3. SocketsOwned
  BY <1>1, <1>2 DEF IInv, CloseOnItsWay, SocketsOwned
<1>4. SlotsOwned
  BY DEF IInv, WorkersOK, WorkerOK, SlotsOf, SlotsOwned
<1> QED BY <1>3, <1>4 DEF OwnedOnce

\* Neither a socket nor a debug register is ever lost or used twice, however
\* many threads cancel and reconnect under each other.
THEOREM SocketsAndSlots == Spec => []OwnedOnce
BY CeserverInvariant, OwnedOnceHolds, PTL

\* Every request reaches the process its sender opened or none, and every
\* answer the caller who asked.
THEOREM AnswersAreRight == Spec => []RightAnswer
<1>1. IInv => RightAnswer
  BY OwnProcessHolds, InStepHolds DEF RightAnswer
<1> QED BY <1>1, CeserverInvariant, PTL

\* No step lets a CONTINUE resume a stop that is still queued.
LEMMA SeenStep ==
    ASSUME IInv, [Next]_vars, NEW c \in Conn, sock[c].req # <<>>, Head(sock[c].req).cmd = "cont",
           wk[c].dbg = "stop", wk'[c].dbg = "run"
    PROVE  wk[c].q = <<>>
<1>0. wk \in [Conn -> Worker]
  BY ConnFacts
<1>1. CASE serveCommand(c)
  <2> DEFINE r == Head(sock[c].req)
  <2>1. /\ wk[c].pc = "recv" /\ r.cmd # "wait" /\ WorkerOK(wk[c]) /\ ReqOK(wk[c], r)
    BY <1>1, ConnFacts DEF serveCommand
  <2>2. PICK o \in Outcomes(wk[c], r) : wk'[c].dbg = o[1].dbg
    <3>1. PICK o \in Outcomes(wk[c], r) :
            Reply(c, o[1], Tail(sock[c].req), [to |-> r.by, res |-> o[2], p |-> IF r.cmd = "open" THEN r.arg ELSE 0])
      BY <1>1 DEF serveCommand
    <3>2. o[1] \in Worker
      <4> HIDE DEF r
      <4> QED BY <2>1, OutcomeOK DEF After, WorkerOK
    <3>3. wk'[c].dbg = o[1].dbg
      <4> DEFINE v == o[1]
      <4>1. PICK pc : wk' = [wk EXCEPT ![c] = [v EXCEPT !.pc = pc, !.wh = 0, !.to = 0]]
        BY <3>1 DEF Reply
      <4>2. v \in Worker
        BY <3>2
      <4> HIDE DEF v
      <4>3. wk'[c].dbg = v.dbg
        BY <1>0, <4>1, <4>2 DEF Worker
      <4> QED BY <4>3 DEF v
    <3> QED BY <3>3
  <2> HIDE DEF r
  <2> QED BY <2>1, <2>2, OutcomeOK DEF r
<1>2. CASE UNCHANGED wk
  BY <1>2
<1>3. ASSUME NEW d \in Conn, NEW v, d # c, wk' = [wk EXCEPT ![d] = v]
      PROVE  wk[c].q = <<>>
  BY <1>0, <1>3
<1>4. ASSUME NEW t \in Thread, ClientStep(t)
      PROVE  UNCHANGED wk
  BY <1>4 DEF ClientStep, closeCancel, closeFinish, connectBegin, connectPublish, openRemote, construct, processOp,
       debuggerOp, remoteGone, clientCommand, recvReply, recvFails, recvTimeout, send, retireConnection
<1>5. CASE ServerStep
  <2>1. CASE acceptRegister
    <3>1. wk'[c] \in {wk[c], NewWorker}
      BY <1>0, <2>1 DEF acceptRegister
    <3>2. NewWorker.dbg = "none"
      BY DEF NewWorker
    <3> QED BY <3>1, <3>2
  <2>2. CASE start \/ acceptReap \/ acceptOne \/ acceptLeave \/ stop \/ stopJoinAccept \/ stopJoinWorkers
    BY <1>2, <2>2 DEF start, acceptReap, acceptOne, acceptLeave, stop, stopJoinAccept, stopJoinWorkers
  <2> QED BY <1>5, <2>1, <2>2 DEF ServerStep
<1>6. ASSUME NEW d \in Conn, WorkerStep(d) \/ waitTimeout(d) \/ targetStops(d)
      PROVE  wk[c].q = <<>>
  <2>1. CASE d # c
    <3>1. \A e \in Conn \ {d} : wk'[e] = wk[e]
      BY <1>0, <1>6 DEF WorkerStep, serveCommand, waitBegin, waitDone, waitAnswer, waitPeerGone, recvEnds,
           workerEnds, waitTimeout, targetStops, Reply
    <3> QED BY <2>1, <3>1
  <2>2. CASE d = c
    <3>1. CASE waitBegin(c) \/ waitPeerGone(c) \/ recvEnds(c)
      <4>1. wk'[c].dbg = wk[c].dbg
        BY <1>0, <3>1 DEF waitBegin, waitPeerGone, recvEnds, Worker
      <4> QED BY <4>1
    <3>2. CASE waitAnswer(c)
      <4> DEFINE w == wk[c]
                 have == Debugging(w, w.wh) /\ w.q # <<>>
                 v == IF have THEN [w EXCEPT !.seen = Head(w.q), !.q = Tail(w.q)] ELSE w
      <4>1. PICK pc : wk' = [wk EXCEPT ![c] = [v EXCEPT !.pc = pc, !.wh = 0, !.to = 0]]
        BY <3>2 DEF waitAnswer, Reply
      <4>2. v.dbg = "stop"
        BY <1>0 DEF Worker
      <4>3. [v EXCEPT !.pc = pc, !.wh = 0, !.to = 0].dbg = v.dbg
        BY <1>0 DEF Worker
      <4> HIDE DEF v
      <4> QED BY <1>0, <4>1, <4>2, <4>3
    <3>3. CASE workerEnds(c)
      <4>1. wk'[c].dbg = "none"
        BY <1>0, <3>3 DEF workerEnds, NewWorker
      <4> QED BY <4>1
    <3>4. CASE targetStops(c)
      BY <3>4 DEF targetStops
    <3> QED BY <1>1, <1>6, <2>2, <3>1, <3>2, <3>3, <3>4 DEF WorkerStep, waitDone, waitTimeout
  <2> QED BY <2>1, <2>2
<1>7. CASE UNCHANGED vars
  BY <1>2, <1>7 DEF vars
<1> QED BY <1>2, <1>4, <1>5, <1>6, <1>7 DEF Next

\* A CONTINUE never resumes a stop the client has not been told of.
THEOREM StopsAreSeen == Spec => SeenStopsOnly
<1>1. IInv /\ [Next]_vars =>
        [\A c \in Conn :
           (sock[c].req # <<>> /\ Head(sock[c].req).cmd = "cont" /\ wk[c].dbg = "stop" /\ wk'[c].dbg = "run")
             => wk[c].q = <<>>]_vars
  BY SeenStep
<1> QED BY <1>1, CeserverInvariant, PTL DEF Spec, SeenStopsOnly
=============================================================================
