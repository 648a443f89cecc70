------------------------------ MODULE Ceserver ------------------------------
(***************************************************************************)
(* The network half of the debugger: CEServerClient and the remote process *)
(* and debugger objects built on it (ceserver_client.cpp,                  *)
(* ceserver_process.cpp, ceserver_debugger.cpp) talking to CeserverServer  *)
(* (ceserver_server.cpp) over stream sockets.                              *)
(*                                                                         *)
(* Several threads share one client.  A command is one transaction under   *)
(* the client's recursive lock; close() and connectTcp() first cancel what *)
(* is in flight and only then take the lock.  The server runs an accept    *)
(* thread and one worker per connection, each with its own handle table    *)
(* and debug session.  A socket is a pair of queues of whole messages with *)
(* an end that may be shut down or closed on either side.                  *)
(***************************************************************************)
EXTENDS Naturals, Sequences, FiniteSets

CONSTANTS
  Thread,     \* threads sharing the client
  Proc,       \* processes on the server's machine, positive numbers
  Scenarios,  \* what the threads may do: operations by thread, cancellations in all
  Tid,        \* threads that stop in a debugged process, positive numbers
  Slot,       \* breakpoint slots of a connection (debug registers)
  MaxConn,    \* bound: connections made
  MaxHandle,  \* kMaxHandle: the last handle a connection issues
  MaxOpen,    \* handles open at once on a connection (256 in the code)
  Entries,    \* entries of a toolhelp snapshot
  MaxStarts   \* bound: starts of the server

ASSUME CeserverAssumption ==
  /\ {MaxConn, MaxHandle, MaxOpen, Entries, MaxStarts} \subseteq Nat
  /\ Proc \subseteq 1 .. 9 /\ Tid \subseteq Nat \ {0} /\ 0 \notin Thread /\ IsFiniteSet(Slot)

VARIABLES
  uses,               \* the scenario, chosen at the start
  fd, closing, gen,   \* CEServerClient: fd_, closing_, generation_ (0: no socket)
  lock,               \* transactionMutex_: the thread holding it, or 0
  th,                 \* what each client thread is doing
  obj,                \* each thread's RemoteProcessHandle with its RemoteDebugger
  sock,               \* the sockets, by connection
  running, apc, got,  \* running_, the accept thread, the socket it just accepted
  stp, starts,        \* stop() in progress, starts made
  members,            \* clients_
  wk                  \* ClientState and the locals of serveClient, by connection

cvars == <<uses, fd, closing, gen, lock, th, obj>>
svars == <<running, apc, got, stp, starts, members>>
vars == <<cvars, svars, sock, wk>>

Conn == 1 .. MaxConn
Handle == 1 .. MaxHandle
BpId == 1 .. (Cardinality(Slot) + 1)
NoObj == [gen |-> 0, h |-> 0, p |-> 0]
Idle == [pc |-> "idle", cancel |-> 0, cand |-> 0, cmd |-> "none"]

(* A handle stands for a process, or for a snapshot with its read position. *)
Snap(k) == 10 + k
IsSnap(x) == x >= 10

NewWorker ==
  [pc |-> "recv", tab |-> [h \in Handle |-> 0], next |-> 1, wh |-> 0, to |-> 0,
   dh |-> 0, dbg |-> "none", dp |-> 0, q |-> <<>>, seen |-> 0,
   slot |-> [s \in Slot |-> 0], bps |-> {}]

Init ==
  /\ uses \in Scenarios
  /\ fd = 0 /\ closing = FALSE /\ gen = 0 /\ lock = 0
  /\ th = [t \in Thread |-> Idle]
  /\ obj = [t \in Thread |-> NoObj]
  /\ sock = [c \in Conn |-> [cl |-> "none", sv |-> "none", req |-> <<>>, rep |-> <<>>]]
  /\ running = FALSE /\ apc = "off" /\ got = 0 /\ stp = "idle" /\ starts = 0
  /\ members = {}
  /\ wk = [c \in Conn |-> [NewWorker EXCEPT !.pc = "none"]]

(***************************************************************************)
(* The client's connection.                                                *)
(***************************************************************************)
ClientShut(s, c) == IF c # 0 /\ s[c].cl = "open" THEN [s EXCEPT ![c].cl = "shut"] ELSE s
ClientClosed(s, c) == IF c # 0 THEN [s EXCEPT ![c].cl = "closed"] ELSE s

isConnected == fd # 0 /\ ~closing
(* As connectionValid, for any connection that is up. *)
connectionValid_AnyConnection(t) == obj[t].h # 0 /\ isConnected

connectionValid(t) == obj[t].h # 0 /\ isConnected /\ gen = obj[t].gen

retireConnection(t) ==
  /\ sock' = ClientClosed(sock, fd)
  /\ fd' = 0 /\ closing' = FALSE /\ gen' = gen + 1
  /\ lock' = 0 /\ th' = [th EXCEPT ![t] = Idle]
  /\ obj' = [obj EXCEPT ![t] = IF @.gen = 0 THEN NoObj ELSE @]   \* an open() in progress fails
  /\ UNCHANGED <<uses, svars, wk>>

(* close(), and connectTcp() which begins with it: cancel without the lock. *)
closeCancel(t, then) ==
  /\ th[t].pc = "idle" /\ gen < uses.cancels /\ then \in uses.ops[t]
  /\ closing' = TRUE /\ gen' = gen + 1
  /\ sock' = ClientShut(sock, fd)
  /\ th' = [th EXCEPT ![t] = [Idle EXCEPT !.pc = then, !.cancel = gen + 1]]
  /\ UNCHANGED <<uses, fd, lock, obj, svars, wk>>

(* Then with the lock, unless a newer close or connection has won it. *)
closeFinish(t) ==
  /\ th[t].pc \in {"close", "reconnect"} /\ lock = 0
  /\ IF gen # th[t].cancel
     THEN UNCHANGED <<sock, fd, closing>>
     ELSE sock' = ClientClosed(sock, fd) /\ fd' = 0 /\ closing' = FALSE
  /\ th' = [th EXCEPT ![t] = IF @.pc = "close" THEN Idle ELSE [Idle EXCEPT !.pc = "connect"]]
  /\ UNCHANGED <<uses, gen, lock, obj, svars, wk>>

(* connectTcp() with the lock: retire the old connection, try a candidate. *)
connectBegin(t) ==
  /\ th[t].pc = "connect" /\ lock = 0 /\ lock' = t
  /\ \E c \in Conn \cup {0} :
       /\ c # 0 => sock[c].cl = "none" /\ \A d \in 1 .. (c - 1) : sock[d].cl # "none"
       /\ c # 0 => running
       /\ sock' = LET s == ClientClosed(sock, fd)
                  IN  IF c = 0 THEN s ELSE [s EXCEPT ![c].cl = "open", ![c].sv = "backlog"]
       /\ th' = [th EXCEPT ![t] = [Idle EXCEPT !.pc = "publish", !.cancel = gen + 1, !.cand = c]]
  /\ fd' = 0 /\ closing' = FALSE /\ gen' = gen + 1
  /\ UNCHANGED <<uses, obj, svars, wk>>

(* As connectPublish below, without looking for a cancellation. *)
connectPublish_Cancelled(t) ==
  /\ th[t].pc = "publish"
  /\ fd' = th[t].cand /\ gen' = gen + 1 /\ UNCHANGED sock
  /\ lock' = 0 /\ th' = [th EXCEPT ![t] = Idle]
  /\ UNCHANGED <<uses, closing, obj, svars, wk>>

(* The candidate is published only if nobody cancelled meanwhile. *)
connectPublish(t) ==
  /\ th[t].pc = "publish"
  /\ IF th[t].cand # 0 /\ gen = th[t].cancel /\ ~closing
     THEN fd' = th[t].cand /\ gen' = gen + 1 /\ UNCHANGED sock
     ELSE sock' = ClientClosed(sock, th[t].cand) /\ UNCHANGED <<fd, gen>>
  /\ lock' = 0 /\ th' = [th EXCEPT ![t] = Idle]
  /\ UNCHANGED <<uses, closing, obj, svars, wk>>

(***************************************************************************)
(* A command: send the request, wait for the reply, all under the lock.    *)
(* Every failure in between retires the connection, so the stream never    *)
(* carries the reply of a request somebody gave up on.                     *)
(***************************************************************************)
MemoryCmd == {"access", "closehandle"}   \* read, write, query, allocate, free, protect; close
DebugCmd == {"start", "stop", "setbp", "rmbp", "wait", "cont"}
ContextCmd == {"refused"}                \* suspend, resume, contexts, speed, symbols: answered with 0

Request(t, cmd, h, arg) == [cmd |-> cmd, h |-> h, arg |-> arg, by |-> t, p |-> obj[t].p]

send(t, cmd, h, arg) ==
  /\ th[t].pc \in {"idle", "opened"} /\ lock \in {0, t} /\ fd # 0
  /\ IF sock[fd].cl # "open"
     THEN retireConnection(t)
     ELSE /\ lock' = t
          /\ th' = [th EXCEPT ![t] = [Idle EXCEPT !.pc = "recv", !.cmd = cmd]]
          /\ sock' = [sock EXCEPT ![fd].req = Append(@, Request(t, cmd, h, arg))]
          /\ UNCHANGED <<uses, fd, closing, gen, obj, svars, wk>>

(* RemoteProcessHandle::open: openProcess, then getArchitecture. *)
openRemote(t) ==
  \/ obj[t] = NoObj /\ th[t].pc = "idle" /\ "open" \in uses.ops[t] /\ \E p \in Proc : send(t, "open", 0, p)
  \/ th[t].pc = "opened" /\ send(t, "arch", obj[t].h, 0)

(* The object remembers the generation current when it is constructed. *)
construct(t) ==
  /\ th[t].pc = "construct"
  /\ obj' = [obj EXCEPT ![t].gen = gen]
  /\ lock' = 0 /\ th' = [th EXCEPT ![t] = Idle]
  /\ UNCHANGED <<uses, fd, closing, gen, sock, svars, wk>>

(* The operations of RemoteProcessHandle and RemoteDebugger: each checks
   connectionValid() under the lock first. *)
processOp(t) ==
  /\ th[t].pc = "idle" /\ lock = 0 /\ connectionValid(t)
  /\ \E cmd \in uses.ops[t] \cap MemoryCmd : send(t, cmd, obj[t].h, 0)

debuggerOp(t) ==
  /\ th[t].pc = "idle" /\ lock = 0 /\ connectionValid(t)
  /\ \E cmd \in uses.ops[t] \cap (DebugCmd \cup ContextCmd) :
     \E arg \in IF cmd = "cont" THEN Tid ELSE IF cmd \in {"setbp", "rmbp"} THEN Slot ELSE {0} :
       send(t, cmd, obj[t].h, arg)

(* An operation on a connection that is gone fails; the object is dropped. *)
remoteGone(t) ==
  /\ th[t].pc = "idle" /\ lock = 0 /\ obj[t] # NoObj /\ ~connectionValid(t)
  /\ obj' = [obj EXCEPT ![t] = NoObj]
  /\ UNCHANGED <<uses, fd, closing, gen, lock, th, sock, svars, wk>>

(* Commands that need no process, and the snapshots other clients read. *)
clientCommand(t) ==
  /\ th[t].pc = "idle" /\ lock = 0
  /\ \/ \E cmd \in uses.ops[t] \cap {"plain", "snap"} : send(t, cmd, 0, 0)
     \/ "entry" \in uses.ops[t] /\ \E h \in Handle : send(t, "entry", h, 0)

recvReply(t) ==
  /\ th[t].pc = "recv" /\ sock[fd].rep # <<>>
  /\ LET r == Head(sock[fd].rep)
         cmd == th[t].cmd
     IN /\ sock' = [sock EXCEPT ![fd].rep = Tail(@)]
        /\ obj' = [obj EXCEPT ![t] =
             CASE cmd = "open" /\ r.res # 0 -> [NoObj EXCEPT !.h = r.res, !.p = r.p]
               [] cmd = "closehandle"       -> NoObj
               [] OTHER                     -> @]
        /\ LET next == CASE cmd = "open" /\ r.res # 0     -> "opened"
                         [] cmd = "arch"                   -> "construct"
                         [] OTHER                          -> "idle"
           IN  /\ th' = [th EXCEPT ![t] = [Idle EXCEPT !.pc = next]]
               /\ lock' = IF next = "idle" THEN 0 ELSE t
  /\ UNCHANGED <<uses, fd, closing, gen, svars, wk>>

(* The peer is gone, this end was shut down by close(), or time is up. *)
PeerClosed(c) == sock[c].sv \in {"shut", "closed"} /\ sock[c].rep = <<>>

recvFails(t) ==
  /\ th[t].pc = "recv"
  /\ PeerClosed(fd) \/ sock[fd].cl = "shut"
  /\ retireConnection(t)

(* As recvTimeout, keeping the connection after a timeout. *)
recvTimeout_Kept(t) ==
  /\ th[t].pc = "recv" /\ lock' = 0 /\ th' = [th EXCEPT ![t] = Idle]
  /\ UNCHANGED <<uses, fd, closing, gen, obj, sock, svars, wk>>

recvTimeout(t) == th[t].pc = "recv" /\ retireConnection(t)

ClientStep(t) ==
  \/ closeCancel(t, "close") \/ closeCancel(t, "reconnect") \/ closeFinish(t)
  \/ connectBegin(t) \/ connectPublish(t)
  \/ openRemote(t) \/ construct(t) \/ processOp(t) \/ debuggerOp(t) \/ remoteGone(t) \/ clientCommand(t)
  \/ recvReply(t) \/ recvFails(t) \/ recvTimeout(t)

(***************************************************************************)
(* The server's life: start(), the accept thread, stop().                  *)
(***************************************************************************)
(* As Interrupted, waking the waits but leaving the sockets open. *)
Interrupted_WakeOnly(s) == s

Interrupted(s) ==
  [c \in Conn |-> IF c \in members /\ s[c].sv = "open" THEN [s[c] EXCEPT !.sv = "shut"] ELSE s[c]]

start ==
  /\ stp = "idle" /\ ~running /\ apc = "off" /\ starts < MaxStarts
  /\ running' = TRUE /\ apc' = "poll" /\ starts' = starts + 1
  /\ UNCHANGED <<cvars, got, stp, members, sock, wk>>

acceptReap ==
  /\ apc = "poll" /\ \E c \in members : wk[c].pc = "finished"
  /\ members' = {c \in members : wk[c].pc # "finished"}
  /\ UNCHANGED <<cvars, running, apc, got, stp, starts, sock, wk>>

acceptOne ==
  /\ apc = "poll" /\ running
  /\ \E c \in Conn : /\ sock[c].sv = "backlog"
                     /\ got' = c /\ apc' = "accepted"
  /\ UNCHANGED <<cvars, running, stp, starts, members, sock, wk>>

(* After the owner check, with the socket mutex: register and serve, refuse
   another user's program or a thread that cannot be made, or give up. *)
acceptRegister ==
  /\ apc = "accepted"
  /\ \/ /\ running
        /\ members' = members \cup {got}
        /\ wk' = [wk EXCEPT ![got] = NewWorker]
        /\ sock' = [sock EXCEPT ![got].sv = "open"]
        /\ apc' = "poll"
     \/ /\ sock' = [sock EXCEPT ![got].sv = "closed"]
        /\ apc' = IF running THEN "poll" ELSE "leave"
        /\ UNCHANGED <<members, wk>>
  /\ got' = 0
  /\ UNCHANGED <<cvars, running, stp, starts>>

(* The loop ends when stop() cleared running_, or poll() failed. *)
acceptLeave ==
  /\ apc = "leave" \/ apc = "poll"
  /\ running' = FALSE /\ apc' = "done"
  /\ sock' = Interrupted(sock)
  /\ UNCHANGED <<cvars, got, stp, starts, members, wk>>

stop ==
  /\ stp = "idle" /\ (running \/ apc # "off")
  /\ running' = FALSE /\ stp' = "joinAccept"
  /\ sock' = Interrupted(sock)
  /\ UNCHANGED <<cvars, apc, got, starts, members, wk>>

stopJoinAccept ==
  /\ stp = "joinAccept" /\ apc = "done" /\ stp' = "joinWorkers"
  /\ UNCHANGED <<cvars, running, apc, got, starts, members, sock, wk>>

(* Every worker joined: the listener is closed with what is in its backlog. *)
stopJoinWorkers ==
  /\ stp = "joinWorkers" /\ \A c \in members : wk[c].pc = "finished"
  /\ members' = {} /\ stp' = "idle" /\ apc' = "off"
  /\ sock' = [c \in Conn |-> IF sock[c].sv = "backlog" THEN [sock[c] EXCEPT !.sv = "closed"] ELSE sock[c]]
  /\ UNCHANGED <<cvars, running, got, starts, wk>>

(***************************************************************************)
(* serveClient: one worker.                                                *)
(***************************************************************************)
SessionEnded(w) ==
  [w EXCEPT !.dbg = "none", !.dp = 0, !.dh = 0, !.q = <<>>, !.seen = 0,
            !.slot = [s \in Slot |-> 0], !.bps = {}]

OpenHandles(w) == {h \in Handle : w.tab[h] # 0}
takeHandle(w) == IF w.next > MaxHandle \/ Cardinality(OpenHandles(w)) >= MaxOpen THEN 0 ELSE w.next
Taken(w, what) ==
  IF takeHandle(w) = 0 THEN w ELSE [w EXCEPT !.tab[w.next] = what, !.next = @ + 1]
process(w, h) == IF h \in Handle /\ w.tab[h] # 0 /\ ~IsSnap(w.tab[h]) THEN w.tab[h] ELSE 0
Debugging(w, h) == w.dbg # "none" /\ h = w.dh

(* No other tracer holds the process: the kernel allows one. *)
Traced == {wk[c].dp : c \in {d \in Conn : wk[d].dbg # "none"}}

(* As removeSlot, forgetting a breakpoint the session refused to remove. *)
removeSlot_Forgetful(w, s) ==
  {[w EXCEPT !.slot[s] = 0], [w EXCEPT !.bps = @ \ {w.slot[s]}, !.slot[s] = 0]}

(* removeSlot: the session may refuse, then the slot keeps its breakpoint. *)
removeSlot(w, s) ==
  {w, [w EXCEPT !.bps = @ \ {w.slot[s]}, !.slot[s] = 0]}

Freed(w, s) == IF w.slot[s] = 0 THEN {w} ELSE removeSlot(w, s)
Planted(w, s, i) == [w EXCEPT !.slot[s] = i, !.bps = @ \cup {i}]

SetBreakpoint(w, s) ==
  Freed(w, s) \cup {Planted(v, s, i) : v \in {u \in Freed(w, s) : u.slot[s] = 0}, i \in BpId \ w.bps}

(* As ContinueStop, keeping the acknowledged stop. *)
ContinueStop_Kept(w, h, tid) ==
  IF Debugging(w, h) /\ w.seen # 0 /\ w.seen = tid THEN [w EXCEPT !.dbg = "run"] ELSE w

(* CONTINUE acknowledges exactly the stop handed out and not yet continued. *)
ContinueStop(w, h, tid) ==
  IF Debugging(w, h) /\ w.seen # 0 /\ w.seen = tid
  THEN [w EXCEPT !.seen = 0, !.dbg = "run"] ELSE w

(* What a command may do to its worker, with the reply's result. *)
OpenProcess(w, p) == {<<w, 0>>, <<Taken(w, p), takeHandle(w)>>}

CloseHandle(w, h) ==
  LET v == IF h = w.dh THEN SessionEnded(w) ELSE w
  IN  {<<[v EXCEPT !.tab[h] = 0], IF w.tab[h] # 0 THEN 1 ELSE 0>>}

(* FIRST starts over, NEXT goes on; past the last entry both answer 0. *)
SnapshotEntry(w, h) ==
  IF ~IsSnap(w.tab[h]) THEN {<<w, 0>>}
  ELSE {IF k < Entries THEN <<[w EXCEPT !.tab[h] = Snap(k + 1)], 1>> ELSE <<w, 0>> :
          k \in {0, w.tab[h] - 10}}

(* The old session always ends; then the process must be there and untraced. *)
StartDebug(w, h) ==
  LET v == SessionEnded(w)
      p == process(w, h)
  IN  {<<v, 0>>} \cup
      {<<[v EXCEPT !.dbg = "run", !.dp = p, !.dh = h], 1>> :
         ok \in {TRUE} \cap {p \notin {0} \cup (Traced \ {w.dp})}}

StopDebug(w, h) == IF Debugging(w, h) THEN {<<SessionEnded(w), 1>>} ELSE {<<w, 0>>}

RemoveBreakpoint(w, h, s) ==
  IF Debugging(w, h) /\ w.slot[s] # 0 THEN {<<v, 1>> : v \in removeSlot(w, s)} ELSE {<<w, 0>>}

(* Reads, writes, queries, allocations: on the handle's process or on none. *)
AccessProcess(w, h) == {<<w, process(w, h)>>}
Answered(w) == {<<w, 1>>}     \* version, ABI, options, names
Refused(w) == {<<w, 0>>}      \* recognised, not provided: read whole, answered with failure

Outcomes(w, r) ==
  CASE r.cmd = "plain"       -> Answered(w)
    [] r.cmd = "refused"     -> Refused(w)
    [] r.cmd = "open"        -> OpenProcess(w, r.arg)
    [] r.cmd = "closehandle" -> CloseHandle(w, r.h)
    [] r.cmd = "snap"        -> {<<Taken(w, Snap(0)), takeHandle(w)>>}
    [] r.cmd = "entry"       -> SnapshotEntry(w, r.h)
    [] r.cmd \in {"arch", "access"} -> AccessProcess(w, r.h)
    [] r.cmd = "start"       -> StartDebug(w, r.h)
    [] r.cmd = "stop"        -> StopDebug(w, r.h)
    [] r.cmd = "setbp"       ->
         IF Debugging(w, r.h) THEN {<<v, 1>> : v \in SetBreakpoint(w, r.arg)} ELSE {<<w, 0>>}
    [] r.cmd = "rmbp"        -> RemoveBreakpoint(w, r.h, r.arg)
    [] r.cmd = "cont"        -> {<<ContinueStop(w, r.h, r.arg), 1>>}

(* The reply goes out unless this end was shut down or the peer is gone;
   then, and when running_ was cleared, the worker returns. *)
Reply(c, w, r, res) ==
  LET gone == sock[c].sv # "open" \/ sock[c].cl = "closed"
  IN  /\ wk' = [wk EXCEPT ![c] = [w EXCEPT !.pc = IF gone \/ ~running THEN "leave" ELSE "recv",
                                           !.wh = 0, !.to = 0]]
      /\ sock' = [sock EXCEPT ![c].req = r,
                              ![c].rep = IF gone THEN @ ELSE Append(@, res)]

serveCommand(c) ==
  /\ wk[c].pc = "recv" /\ sock[c].req # <<>>
  /\ LET r == Head(sock[c].req)
     IN  /\ r.cmd # "wait"
         /\ \E o \in Outcomes(wk[c], r) :
              Reply(c, o[1], Tail(sock[c].req),
                    [to |-> r.by, res |-> o[2], p |-> IF r.cmd = "open" THEN r.arg ELSE 0])
  /\ UNCHANGED <<cvars, svars>>

(* WAITFORDEBUGEVENT blocks in slices, looking at the socket in between. *)
waitBegin(c) ==
  /\ wk[c].pc = "recv" /\ sock[c].req # <<>> /\ Head(sock[c].req).cmd = "wait"
  /\ LET r == Head(sock[c].req)
     IN  wk' = [wk EXCEPT ![c].pc = "wait", ![c].wh = r.h, ![c].to = r.by]
  /\ sock' = [sock EXCEPT ![c].req = Tail(@)]
  /\ UNCHANGED <<cvars, svars>>

WaitReady(w) == ~Debugging(w, w.wh) \/ w.q # <<>> \/ ~running

waitAnswer(c) ==
  /\ wk[c].pc = "wait"
  /\ LET w == wk[c]
         have == Debugging(w, w.wh) /\ w.q # <<>>
         v == IF have THEN [w EXCEPT !.seen = Head(w.q), !.q = Tail(w.q)] ELSE w
     IN  Reply(c, v, sock[c].req, [to |-> w.to, res |-> IF have THEN 1 ELSE 0, p |-> 0])
  /\ UNCHANGED <<cvars, svars>>

waitDone(c) == WaitReady(wk[c]) /\ waitAnswer(c)
waitTimeout(c) == ~WaitReady(wk[c]) /\ waitAnswer(c)

(* As peerGone, seeing only an error of this end. *)
peerGone_Local(c) == sock[c].sv # "open"

peerGone(c) == sock[c].cl \in {"shut", "closed"} \/ sock[c].sv # "open"

waitPeerGone(c) ==
  /\ wk[c].pc = "wait" /\ ~WaitReady(wk[c]) /\ peerGone(c)
  /\ wk' = [wk EXCEPT ![c].pc = "leave"]
  /\ UNCHANGED <<cvars, svars, sock>>

(* recv() fails: end of stream or a shut socket; CLOSECONNECTION, an unknown
   command or a size beyond its limit end the connection the same way. *)
recvEnds(c) ==
  /\ wk[c].pc = "recv"
  /\ (sock[c].req = <<>> /\ peerGone(c)) \/ sock[c].sv # "open"
  /\ wk' = [wk EXCEPT ![c].pc = "leave"]
  /\ UNCHANGED <<cvars, svars, sock>>

(* The worker ends its session, closes its socket and says so. *)
workerEnds(c) ==
  /\ wk[c].pc = "leave"
  /\ wk' = [wk EXCEPT ![c] = [NewWorker EXCEPT !.pc = "finished"]]
  /\ sock' = [sock EXCEPT ![c].sv = "closed"]
  /\ UNCHANGED <<cvars, svars>>

(* The session's tracer thread reports a stop of the debugged process. *)
targetStops(c) ==
  /\ wk[c].dbg = "run"
  /\ \E tid \in Tid : wk' = [wk EXCEPT ![c].dbg = "stop", ![c].q = Append(@, tid)]
  /\ UNCHANGED <<cvars, svars, sock>>

WorkerStep(c) ==
  serveCommand(c) \/ waitBegin(c) \/ waitDone(c) \/ waitPeerGone(c) \/ recvEnds(c) \/ workerEnds(c)

ServerStep ==
  start \/ acceptReap \/ acceptOne \/ acceptRegister \/ acceptLeave
        \/ stop \/ stopJoinAccept \/ stopJoinWorkers

Next ==
  \/ \E t \in Thread : ClientStep(t)
  \/ ServerStep
  \/ \E c \in Conn : WorkerStep(c) \/ waitTimeout(c) \/ targetStops(c)

(* The server's threads keep running; how long a wait may take, and what the
   clients and the debugged processes do, is up to them. *)
Spec ==
  /\ Init /\ [][Next]_vars
  /\ \A c \in Conn : WF_vars(WorkerStep(c))
  /\ WF_vars(acceptRegister) /\ WF_vars(~running /\ acceptLeave)
  /\ WF_vars(stopJoinAccept) /\ WF_vars(stopJoinWorkers)
(***************************************************************************)
(* Properties.                                                             *)
(***************************************************************************)
(* A request that is still to be served names, in its own connection's
   handle table, the process its sender opened or nothing at all: handles are
   small numbers issued per connection, and only the generation check keeps
   an object of an old connection from naming another process on a new one. *)
OwnProcess ==
  \A c \in Conn : \A i \in DOMAIN sock[c].req :
    LET r == sock[c].req[i]
    IN  r.cmd \notin {"plain", "open", "snap", "entry"} => process(wk[c], r.h) \in {0, r.p}

(* On the connection in use at most one message is under way, in the hands of
   the thread whose transaction it is: nobody ever takes another's reply. *)
InStep ==
  \A c \in Conn : fd = c /\ sock[c].cl = "open" =>
    LET owners == [i \in DOMAIN sock[c].req |-> sock[c].req[i].by]
                    \o [i \in DOMAIN sock[c].rep |-> sock[c].rep[i].to]
                    \o (IF wk[c].pc = "wait" THEN <<wk[c].to>> ELSE <<>>)
    IN  /\ Len(owners) <= 1
        /\ owners # <<>> => lock = owners[1] /\ th[lock].pc = "recv"

(* The sockets the client holds are the published one and the candidates of
   connections being made; the published one is never a closed descriptor,
   and a cancellation is pending only while its close() is on its way. *)
SocketsOwned ==
  /\ {c \in Conn : sock[c].cl \in {"open", "shut"}} \subseteq {fd} \cup {th[t].cand : t \in Thread}
  /\ fd # 0 => sock[fd].cl # "closed"
  /\ closing => \E t \in Thread : th[t].pc \in {"close", "reconnect"} /\ th[t].cancel = gen

(* The breakpoints set in a session are exactly those its slots remember: a
   slot that is reused or refused never leaves one nobody can remove. *)
SlotsOwned ==
  \A c \in Conn :
    /\ wk[c].bps = {wk[c].slot[s] : s \in Slot} \ {0}
    /\ \A s, r \in Slot : s # r /\ wk[c].slot[s] # 0 => wk[c].slot[s] # wk[c].slot[r]

(* A CONTINUE never resumes a stop the client has not been told of, however
   often it is repeated and whatever stops meanwhile. *)
SeenStopsOnly ==
  [][\A c \in Conn :
       (sock[c].req # <<>> /\ Head(sock[c].req).cmd = "cont" /\ wk[c].dbg = "stop" /\ wk'[c].dbg = "run")
         => wk[c].q = <<>>]_vars

(* stop() returns, whatever the connections wait for. *)
StopReturns == stp = "joinAccept" ~> stp = "idle"

(* A client that is gone does not keep its process traced, not even in the
   middle of a long wait for a debug event. *)
GoneReleased ==
  \A c \in Conn : (wk[c].dbg # "none" /\ sock[c].cl = "closed") ~> wk[c].dbg = "none"

(* Every request reaches the process it was made for, and every answer the
   caller who asked. *)
RightAnswer == OwnProcess /\ InStep

(* Neither a socket nor a debug register is lost or used twice. *)
OwnedOnce == SocketsOwned /\ SlotsOwned

(* stop() returns, and a client that is gone lets its process go. *)
NobodyHeld == StopReturns /\ GoneReleased
=============================================================================
