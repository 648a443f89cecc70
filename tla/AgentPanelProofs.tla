-------------------------- MODULE AgentPanelProofs --------------------------
(***************************************************************************)
(* Machine-checked proofs about the assistant's session, panel and MCP     *)
(* server, for any processes, replies, limits and number of steps.         *)
(*                                                                         *)
(* None of the three invariants the run checks is inductive.  What carries *)
(* them is the way one turn passes between the two threads (the window     *)
(* hands it over, the worker runs it and hands it back, so only one of the *)
(* two queues and the worker holds it), the order in which the panel sees  *)
(* a question and its end, the conversation as it was before the turn, and *)
(* the processes that the window has left and the session still has to.    *)
(***************************************************************************)
EXTENDS AgentPanel, SequenceTheorems, TLAPS

(***************************************************************************)
(* Types.                                                                  *)
(***************************************************************************)
Target == Pids \cup {None}
CallType == [tool : Tools, arg : Nat, id : Nat \ {0}]
QuestionType == [tool : Tools \cup {"none"}, arg : Nat, id : Nat, pid : Nat, grant : Target]
Message == [role : {"user", "assistant", "tool"}, texts : SUBSET Nat, n : Nat]

Waiting == {"asked", "locked", "asleep"}
Calling == {"call", "ask", "run", "working"} \cup Waiting
TurnPc == {"send", "round", "posted", "finish"} \cup Calling
McpPc == {"mcp", "mcpwork"}

Record == [frozen : BOOLEAN, val : Nat, of : Target]
Game == [alive : BOOLEAN, patches : SUBSET Nat, val : Nat, trap : Nat]
Session ==
  [proc : Target, records : Seq(Record), scripts : Seq(Nat), result : Target, undo : Target, paths : Target,
   allow : BOOLEAN, stopping : BOOLEAN]

SessionType ==
  /\ sess \in Session
  /\ game \in [Pids -> Game]
  /\ stuck \in SUBSET Nat

Ui ==
  [target : Target, left : SUBSET Pids, busy : BOOLEAN, sending : BOOLEAN, turnPid : Target,
   allowPid : Target, shown : QuestionType, closing : {"no", "waiting", "closed"}, settings : BOOLEAN, refused : BOOLEAN]

Approval == [waiting : BOOLEAN, answer : {"none", "yes", "no"}, grant : Target, stopping : BOOLEAN]
TalkType ==
  [on : BOOLEAN, msgs : Seq(Message), cancelled : BOOLEAN, turn : Nat, start : Seq(Message),
   acted : BOOLEAN, round : Nat, done : Nat]
Work ==
  [pc : {"idle"} \cup TurnPc \cup McpPc, pid : Target, calls : Seq(CallType), i : Nat \ {0},
   q : QuestionType, ok : BOOLEAN]
Event == [event : {"show", "hide", "finish"}, q : QuestionType]
Job == [job : {"sync", "turn"}, left : SUBSET Pids, pid : Target]

PanelType ==
  /\ ui \in Ui /\ ask \in Approval /\ chat \in TalkType /\ work \in Work
  /\ uiq \in Seq(Event) /\ wq \in Seq(Job)

TypeOK ==
  /\ scen \in Scenarios /\ SessionType /\ PanelType
  /\ calls \in Nat /\ left \in Budgets
  /\ grant \in SUBSET Pids /\ gone \in SUBSET Pids /\ said \in SUBSET Nat

(***************************************************************************)
(* Where a turn is.  A busy panel is between a click on Send and the       *)
(* worker's last message, and the turn is in exactly one place.            *)
(***************************************************************************)
Handed == \E k \in 1 .. Len(wq) : wq[k].job = "turn"
Returned == \E k \in 1 .. Len(uiq) : uiq[k].event = "finish"

TurnsOK ==
  /\ work.pc \in TurnPc => Panel /\ ui.busy /\ ~ui.sending /\ ~Handed /\ ~Returned
  /\ work.pc \in McpPc => ~Panel
  /\ Handed => ui.busy /\ ~ui.sending /\ work.pc = "idle" /\ ~Returned
  /\ Returned => ui.busy /\ ~ui.sending /\ work.pc = "idle" /\ uiq[Len(uiq)].event = "finish"
  /\ ~ui.busy \/ ui.sending => uiq = <<>> /\ ui.shown = NoQuestion
  /\ ~Panel => wq = <<>> /\ uiq = <<>> /\ gone = {}
  /\ \A j, k \in 1 .. Len(wq) : wq[j].job = "turn" /\ wq[k].job = "turn" => j = k
  /\ \A j, k \in 1 .. Len(uiq) : uiq[j].event = "finish" /\ uiq[k].event = "finish" => j = k
  /\ ui.sending => ui.busy

(***************************************************************************)
(* What the panel shows is what the worker asks.                           *)
(***************************************************************************)
Shows == {k \in 1 .. Len(uiq) : uiq[k].event = "show"}
Cleared == ui.shown = NoQuestion /\ Shows = {}

QuestionsOK ==
  /\ ask.waiting <=> work.pc \in Waiting
  /\ ask.waiting => ask.grant = work.q.grant
  /\ ask.waiting => ui.shown \in {NoQuestion, work.q} /\ \A k \in Shows : uiq[k].q = work.q
  /\ \A j, k \in Shows : j = k
  /\ ask.waiting /\ ui.shown # NoQuestion => Shows = {}
  /\ ask.waiting /\ ask.answer # "none" => Cleared
  /\ ~ask.waiting /\ ~ask.stopping => Cleared

(***************************************************************************)
(* What the user allowed: the question is about the call, in the process   *)
(* the session is attached to, and a call that runs was allowed.           *)
(***************************************************************************)
InCalls == Calling \ {"call"}

ConsentOK ==
  /\ work.pc \in InCalls \cup {"mcpwork"} => work.i <= Len(work.calls)
  /\ work.pc \in {"ask"} \cup Waiting => NeedsApproval(Current) /\ work.q = Question(Current)
  /\ work.pc \in Waiting /\ ask.answer = "yes" => <<work.q.pid, work.q.id>> \in consent
  /\ work.pc = "run" /\ NeedsApproval(Current) /\ Current.tool # "attach" => <<sess.proc, Current.id>> \in consent
  /\ work.pc \in {"working", "mcpwork"} => sess.proc # None
  /\ ui.allowPid # None => ui.allowPid \in grant
  /\ sess.allow = scen.allow
  /\ \A k \in 1 .. Len(work.calls) : work.calls[k].tool = "attach" => work.calls[k].arg \in Pids
  /\ \A k \in 1 .. Len(sess.records) : sess.records[k].frozen => Mandate(sess.proc, sess.records[k].val)

(***************************************************************************)
(* What the session keeps is of its process, and it will leave a process   *)
(* that the window has left.                                               *)
(***************************************************************************)
KeptOK ==
  /\ \A p \in Pids : game[p].patches \subseteq stuck \cup IF sess.proc = p THEN ScriptIds ELSE {}
  /\ \A k \in 1 .. Len(sess.records) : sess.records[k].of = sess.proc
  /\ {sess.result, sess.undo, sess.paths} \subseteq {None, sess.proc}

ToLeave(p) == \E k \in 1 .. Len(wq) : wq[k].job = "sync" /\ p \in wq[k].left /\ wq[k].pid # p

LeavingOK ==
  /\ ui.target \notin gone
  /\ sess.proc \in gone => sess.proc \in ui.left \/ ToLeave(sess.proc)
  /\ \A k \in 1 .. Len(wq) : wq[k].job = "turn" /\ wq[k].pid \in gone => wq[k].pid \in ui.left
  /\ ui.left # {} => ui.busy \/ ui.refused

(***************************************************************************)
(* The conversation, and what it falls back to.                            *)
(***************************************************************************)
EndsWithUser(m) == m # <<>> /\ (Anthropic => m[Len(m)].role = "user")

TalkOK ==
  /\ \A t \in said : t <= chat.done
  /\ work.pc \notin Calling => Conversation(chat.msgs, said)
  /\ work.pc \in {"round", "posted"} \cup Calling => Conversation(chat.start, said \ {chat.turn})
  /\ work.pc \in {"round", "posted"} => EndsWithUser(chat.msgs)
  /\ work.pc \in Calling => \E m \in Seq(Message) : /\ chat.msgs = Append(m, AssistantMsg(Len(work.calls)))
                                                    /\ Conversation(m, said) /\ EndsWithUser(m)

IInv == TypeOK /\ TurnsOK /\ QuestionsOK /\ ConsentOK /\ KeptOK /\ LeavingOK /\ TalkOK

(***************************************************************************)
(* The session's operations: what each keeps and what it does to a game.   *)
(***************************************************************************)
\* A script taken off the list leaves the others on it.
LEMMA Remaining ==
  ASSUME NEW s \in Seq(Nat), NEW i \in 1 .. Len(s)
  PROVE  /\ RemoveAt(s, i) \in Seq(Nat)
         /\ Range(s) \ {s[i]} \subseteq Range(RemoveAt(s, i))
<1> DEFINE a == SubSeq(s, 1, i - 1)
           b == SubSeq(s, i + 1, Len(s))
           r == a \o b
<1>1. /\ a \in Seq(Nat) /\ Len(a) = i - 1 /\ \A k \in 1 .. (i - 1) : a[k] = s[k]
  OBVIOUS
<1>2. /\ b \in Seq(Nat) /\ Len(b) = Len(s) - i /\ \A k \in 1 .. (Len(s) - i) : b[k] = s[i + k]
  OBVIOUS
<1> HIDE DEF a, b
<1>3. /\ r \in Seq(Nat) /\ Len(r) = Len(s) - 1
      /\ \A k \in 1 .. Len(r) : r[k] = IF k <= Len(a) THEN a[k] ELSE b[k - Len(a)]
  <2>1. /\ r \in Seq(Nat) /\ Len(r) = Len(a) + Len(b)
        /\ \A k \in 1 .. (Len(a) + Len(b)) : r[k] = IF k <= Len(a) THEN a[k] ELSE b[k - Len(a)]
    BY <1>1, <1>2, ConcatProperties
  <2>2. Len(a) + Len(b) = Len(s) - 1
    BY <1>1, <1>2
  <2> QED BY <2>1, <2>2
<1>4. ASSUME NEW k \in 1 .. Len(s), k # i
      PROVE  \E j \in 1 .. Len(r) : r[j] = s[k]
  <2>1. CASE k < i
    <3>1. k \in 1 .. (i - 1) /\ k \in 1 .. Len(r) /\ r[k] = a[k]
      BY <2>1, <1>1, <1>2, <1>3
    <3> QED BY <3>1, <1>1
  <2>2. CASE k > i
    <3>1. /\ k - i \in 1 .. (Len(s) - i) /\ k - 1 \in 1 .. Len(r) /\ i + (k - i) = k
          /\ ~(k - 1 <= Len(a)) /\ (k - 1) - Len(a) = k - i
      BY <2>2, <1>1, <1>2, <1>3
    <3>2. r[k - 1] = b[k - i]
      BY <3>1, <1>3
    <3> QED BY <3>1, <3>2, <1>2
  <2> QED BY <2>1, <2>2, <1>4
<1>5. RemoveAt(s, i) = r
  BY DEF RemoveAt, a, b
<1> HIDE DEF r
<1>6. Range(s) \ {s[i]} \subseteq Range(r)
  <2>1. DOMAIN s = 1 .. Len(s) /\ DOMAIN r = 1 .. Len(r)
    BY <1>3
  <2> QED BY <2>1, <1>4 DEF Range
<1> QED BY <1>3, <1>5, <1>6

LEMMA Appended ==
  ASSUME NEW s \in Seq(Nat), NEW x \in Nat
  PROVE  Range(s) \cup {x} \subseteq Range(Append(s, x))
<1> DEFINE r == Append(s, x)
<1>1. /\ DOMAIN s = 1 .. Len(s) /\ DOMAIN r = 1 .. (Len(s) + 1)
      /\ r[Len(s) + 1] = x /\ \A k \in 1 .. Len(s) : r[k] = s[k]
  OBVIOUS
<1> HIDE DEF r
<1>2. x \in Range(r)
  BY <1>1 DEF Range
<1>3. \A k \in 1 .. Len(s) : s[k] \in Range(r)
  BY <1>1 DEF Range
<1>4. Range(s) \subseteq Range(r)
  BY <1>1, <1>3 DEF Range
<1> QED BY <1>2, <1>4 DEF r

\* Nothing is written, no code is added, and code is restored only by
\* undoing every script.
Undoes ==
  /\ \A p \in Pids : /\ game'[p].val = game[p].val /\ game'[p].trap = game[p].trap
                     /\ game'[p].patches \subseteq game[p].patches
  /\ game' = game \/ sess'.scripts = <<>>

\* Leaving a process: its scripts are undone or known to be stuck.
LEMMA PatchesSet ==
  ASSUME NEW g \in [Pids -> Game], NEW p \in Pids, NEW S \in SUBSET Nat, NEW h, h = [g EXCEPT ![p].patches = S]
  PROVE  /\ h \in [Pids -> Game]
         /\ h[p].patches = S /\ h[p].val = g[p].val /\ h[p].trap = g[p].trap /\ h[p].alive = g[p].alive
         /\ \A q \in Pids \ {p} : h[q] = g[q]
<1>1. h[p] = [g[p] EXCEPT !.patches = S] /\ h = [g EXCEPT ![p] = [g[p] EXCEPT !.patches = S]]
  OBVIOUS
<1>2. [g[p] EXCEPT !.patches = S] \in Game
  BY DEF Game
<1> QED BY <1>1, <1>2 DEF Game

LEMMA LeaveProcess ==
  ASSUME SessionType, KeptOK, NEW undone \in SUBSET ScriptIds, DisableAll(undone),
         game' = Restored(game, undone)
  PROVE  /\ game' \in [Pids -> Game]
         /\ stuck' \in SUBSET Nat
         /\ \A p \in Pids : /\ game'[p].val = game[p].val /\ game'[p].trap = game[p].trap
                            /\ game'[p].patches \subseteq game[p].patches
                            /\ game'[p].patches \subseteq stuck'
<1>1. ScriptIds \subseteq Nat
  BY DEF SessionType, Session, ScriptIds, Range
<1>2. stuck' = stuck \cup (ScriptIds \ undone)
  BY DEF DisableAll
<1>3. CASE sess.proc = None
  BY <1>1, <1>2, <1>3, AgentAssumption DEF SessionType, KeptOK, Restored, DisableAll
<1>4. CASE sess.proc # None
  <2>1. sess.proc \in Pids
    BY <1>4 DEF SessionType, Session, Target
  <2>2. game' = [game EXCEPT ![sess.proc].patches = @ \ undone]
    BY <1>4 DEF Restored
  <2>3. /\ game' \in [Pids -> Game]
        /\ \A p \in Pids : /\ game'[p].val = game[p].val /\ game'[p].trap = game[p].trap
                           /\ game'[p].patches = IF p = sess.proc THEN game[p].patches \ undone ELSE game[p].patches
    <3>1. game[sess.proc].patches \ undone \in SUBSET Nat /\ game \in [Pids -> Game]
      BY <2>1 DEF SessionType, Game
    <3> DEFINE S == game[sess.proc].patches \ undone
    <3>2. S \in SUBSET Nat /\ game' = [game EXCEPT ![sess.proc].patches = S]
      BY <2>2, <3>1
    <3> HIDE DEF S
    <3>3. /\ game' \in [Pids -> Game]
          /\ game'[sess.proc].patches = S /\ game'[sess.proc].val = game[sess.proc].val
          /\ game'[sess.proc].trap = game[sess.proc].trap
          /\ \A q \in Pids \ {sess.proc} : game'[q] = game[q]
      BY <2>1, <3>1, <3>2, PatchesSet
    <3> QED BY <3>3 DEF S
  <2>4. ASSUME NEW p \in Pids PROVE game'[p].patches \subseteq stuck'
    <3>1. game[p].patches \subseteq stuck \cup (IF sess.proc = p THEN ScriptIds ELSE {})
      BY DEF KeptOK
    <3>2. CASE p = sess.proc
      BY <1>2, <2>3, <3>1, <3>2
    <3>3. CASE p # sess.proc
      BY <1>2, <2>3, <3>1, <3>3
    <3> QED BY <3>2, <3>3
  <2>5. stuck' \in SUBSET Nat
    BY <1>1, <1>2 DEF SessionType
  <2> QED BY <2>3, <2>4, <2>5
<1> QED BY <1>3, <1>4

LEMMA AttachKeeps ==
  ASSUME SessionType, KeptOK, NEW p \in Pids, Attach(p)
  PROVE  /\ SessionType' /\ KeptOK' /\ Undoes
         /\ sess'.allow = sess.allow /\ sess'.proc \in {sess.proc, p}
         /\ \/ sess'.proc = sess.proc /\ sess'.records = sess.records
            \/ sess'.records = <<>>
<1>1. CASE UNCHANGED sessionVars
  BY <1>1 DEF sessionVars, SessionType, KeptOK, Undoes, ScriptIds
<1>2. CASE /\ \E undone \in SUBSET ScriptIds : DisableAll(undone) /\ game' = Restored(game, undone)
           /\ sess' = Adopted(p)
  <2>1. PICK undone \in SUBSET ScriptIds : DisableAll(undone) /\ game' = Restored(game, undone)
    BY <1>2
  <2>2. /\ game' \in [Pids -> Game]
        /\ stuck' \in SUBSET Nat
        /\ \A q \in Pids : /\ game'[q].val = game[q].val /\ game'[q].trap = game[q].trap
                           /\ game'[q].patches \subseteq game[q].patches
                           /\ game'[q].patches \subseteq stuck'
    BY <2>1, LeaveProcess
  <2>3. /\ sess'.proc = p /\ sess'.scripts = <<>> /\ sess'.result = None /\ sess'.undo = None
        /\ sess'.records = (IF sess.proc = p THEN sess.records ELSE <<>>)
        /\ sess'.paths = (IF sess.proc = p THEN sess.paths ELSE None)
        /\ sess'.allow = sess.allow /\ sess'.stopping = sess.stopping
    BY <1>2 DEF Adopted, SessionType, Session
  <2>4. SessionType'
    <3>1. <<>> \in Seq(Record) /\ <<>> \in Seq(Nat) /\ None \in Target /\ p \in Target
      BY DEF Target
    <3>2. sess' \in Session
      BY <1>2, <3>1 DEF Adopted, SessionType, Session
    <3> QED BY <2>2, <3>2 DEF SessionType
  <2>5. KeptOK'
    BY <2>2, <2>3 DEF KeptOK
  <2> QED BY <2>2, <2>3, <2>4, <2>5 DEF Undoes
<1> QED BY <1>1, <1>2 DEF Attach

LEMMA DetachKeeps ==
  ASSUME SessionType, KeptOK, Detach
  PROVE  SessionType' /\ KeptOK' /\ Undoes /\ sess'.allow = sess.allow /\ sess'.proc = None /\ sess'.records = <<>>
<1>1. PICK undone \in SUBSET ScriptIds : DisableAll(undone) /\ game' = Restored(game, undone)
  BY DEF Detach
<1>2. /\ game' \in [Pids -> Game]
      /\ stuck' \in SUBSET Nat
      /\ \A q \in Pids : /\ game'[q].val = game[q].val /\ game'[q].trap = game[q].trap
                         /\ game'[q].patches \subseteq game[q].patches
                         /\ game'[q].patches \subseteq stuck'
  BY <1>1, LeaveProcess
<1>3. /\ sess'.proc = None /\ sess'.scripts = <<>> /\ sess'.result = None /\ sess'.undo = None
      /\ sess'.records = <<>> /\ sess'.paths = None /\ sess'.allow = sess.allow
  BY DEF Detach, EmptySession, SessionType, Session
<1>4. SessionType'
  <2>1. <<>> \in Seq(Record) /\ <<>> \in Seq(Nat) /\ None \in Target
    BY DEF Target
  <2>2. sess' \in Session
    BY <2>1 DEF Detach, EmptySession, SessionType, Session
  <2> QED BY <1>2, <2>2 DEF SessionType
<1>5. KeptOK'
  BY <1>2, <1>3 DEF KeptOK
<1> QED BY <1>2, <1>3, <1>4, <1>5 DEF Undoes

LEMMA EndKeeps ==
  ASSUME SessionType, KeptOK, EndSession
  PROVE  /\ SessionType' /\ KeptOK' /\ Undoes
         /\ sess'.allow = sess.allow /\ sess'.proc = sess.proc /\ sess'.records = sess.records
<1>1. PICK undone \in SUBSET ScriptIds : DisableAll(undone) /\ game' = Restored(game, undone)
  BY DEF EndSession
<1>2. /\ game' \in [Pids -> Game]
      /\ stuck' \in SUBSET Nat
      /\ \A q \in Pids : /\ game'[q].val = game[q].val /\ game'[q].trap = game[q].trap
                         /\ game'[q].patches \subseteq game[q].patches
                         /\ game'[q].patches \subseteq stuck'
  BY <1>1, LeaveProcess
<1>3. /\ sess'.proc = sess.proc /\ sess'.scripts = <<>> /\ sess'.result = sess.result /\ sess'.undo = sess.undo
      /\ sess'.records = sess.records /\ sess'.paths = sess.paths /\ sess'.allow = sess.allow
  BY DEF EndSession, SessionType, Session
<1>4. SessionType'
  <2>1. <<>> \in Seq(Nat)
    OBVIOUS
  <2>2. sess' \in Session
    BY <2>1 DEF EndSession, SessionType, Session
  <2> QED BY <1>2, <2>2 DEF SessionType
<1>5. KeptOK'
  BY <1>2, <1>3 DEF KeptOK
<1> QED BY <1>2, <1>3, <1>4, <1>5 DEF Undoes

\* A tool that may change a game.
MayChange(c) == sess.allow /\ NeedsApproval(c) /\ c.tool # "attach"

\* Call c changes only the session's process, in its own name, and a tool
\* that may not change a game only takes its breakpoint away.
Changes(c) ==
  \A p \in Pids :
    game'[p] # game[p] =>
      /\ p = sess.proc
      /\ \/ /\ MayChange(c)
            /\ game'[p].val \in {game[p].val, c.id} /\ game'[p].trap \in {game[p].trap, None, c.id}
            /\ game'[p].patches \subseteq game[p].patches \cup {c.id}
         \/ game'[p].val = game[p].val /\ game'[p].patches = game[p].patches /\ game'[p].trap = None

\* A record that is frozen was, with its value, or is frozen by c.
Freezes(c) ==
  \A k \in 1 .. Len(sess'.records) :
    sess'.records[k].frozen =>
      \/ \E j \in 1 .. Len(sess.records) : sess.records[j].frozen /\ sess.records[j].val = sess'.records[k].val
      \/ MayChange(c) /\ sess'.records[k].val = c.id

Stays == sess'.proc = sess.proc /\ sess'.allow = sess.allow

LEMMA ValSet ==
  ASSUME NEW g \in [Pids -> Game], NEW p \in Pids, NEW v \in Nat, NEW h, h = [g EXCEPT ![p].val = v]
  PROVE  /\ h \in [Pids -> Game]
         /\ h[p].val = v /\ h[p].patches = g[p].patches /\ h[p].trap = g[p].trap /\ h[p].alive = g[p].alive
         /\ \A q \in Pids \ {p} : h[q] = g[q]
<1>1. h[p] = [g[p] EXCEPT !.val = v] /\ h = [g EXCEPT ![p] = [g[p] EXCEPT !.val = v]]
  OBVIOUS
<1>2. [g[p] EXCEPT !.val = v] \in Game
  BY DEF Game
<1> QED BY <1>1, <1>2 DEF Game

LEMMA TrapSet ==
  ASSUME NEW g \in [Pids -> Game], NEW p \in Pids, NEW v \in Nat, NEW h, h = [g EXCEPT ![p].trap = v]
  PROVE  /\ h \in [Pids -> Game]
         /\ h[p].trap = v /\ h[p].patches = g[p].patches /\ h[p].val = g[p].val /\ h[p].alive = g[p].alive
         /\ \A q \in Pids \ {p} : h[q] = g[q]
<1>1. h[p] = [g[p] EXCEPT !.trap = v] /\ h = [g EXCEPT ![p] = [g[p] EXCEPT !.trap = v]]
  OBVIOUS
<1>2. [g[p] EXCEPT !.trap = v] \in Game
  BY DEF Game
<1> QED BY <1>1, <1>2 DEF Game

\* Writing the value v to the session's process.
LEMMA PutKeeps ==
  ASSUME SessionType, AlivePid(sess.proc), NEW v \in Nat, game' = Put(sess.proc, v)
  PROVE  /\ sess.proc \in Pids /\ game' \in [Pids -> Game]
         /\ \A p \in Pids : game'[p].patches = game[p].patches /\ game'[p].trap = game[p].trap
         /\ game'[sess.proc].val = v
         /\ \A p \in Pids \ {sess.proc} : game'[p] = game[p]
<1>1. sess.proc \in Pids /\ game \in [Pids -> Game]
  BY DEF AlivePid, SessionType, Session, Target
<1>2. game' = [game EXCEPT ![sess.proc].val = v]
  BY DEF Put
<1> QED BY <1>1, <1>2, ValSet

LEMMA QuickKeeps ==
  ASSUME SessionType, KeptOK, NEW c \in CallType, Quick(c)
  PROVE  SessionType' /\ KeptOK' /\ Changes(c) /\ Freezes(c) /\ Stays
<1>0. c.id \in Nat /\ sess \in Session /\ game \in [Pids -> Game] /\ stuck \in SUBSET Nat
  BY DEF CallType, SessionType
<1>1. CASE Inspect
  BY <1>1 DEF Inspect, sessionVars, SessionType, KeptOK, ScriptIds, Changes, Freezes, Stays
<1>2. CASE c.tool = "write" /\ Write(c)
  <2>1. /\ sess.proc \in Pids /\ game' \in [Pids -> Game]
        /\ \A p \in Pids : game'[p].patches = game[p].patches /\ game'[p].trap = game[p].trap
        /\ game'[sess.proc].val = c.id
        /\ \A p \in Pids \ {sess.proc} : game'[p] = game[p]
        /\ UNCHANGED <<sess, stuck>> /\ sess.allow
    BY <1>0, <1>2, PutKeeps DEF Write
  <2>2. KeptOK'
    BY <2>1 DEF KeptOK, ScriptIds
  <2>3. Changes(c)
    BY <1>2, <2>1 DEF Changes, MayChange, NeedsApproval
  <2> QED BY <1>0, <2>1, <2>2, <2>3 DEF SessionType, Freezes, Stays
<1>3. CASE c.tool = "enable" /\ Enable(c)
  <2>1. sess.proc \in Pids /\ sess.allow
    BY <1>0, <1>3 DEF Enable, AlivePid, Session, Target
  <2> DEFINE S == game[sess.proc].patches \cup {c.id}
  <2>2. S \in SUBSET Nat /\ game' = [game EXCEPT ![sess.proc].patches = S]
    BY <1>0, <1>3, <2>1 DEF Enable, Game
  <2> HIDE DEF S
  <2>3. /\ game' \in [Pids -> Game]
        /\ game'[sess.proc].patches = S /\ game'[sess.proc].val = game[sess.proc].val
        /\ game'[sess.proc].trap = game[sess.proc].trap
        /\ \A q \in Pids \ {sess.proc} : game'[q] = game[q]
    BY <1>0, <2>1, <2>2, PatchesSet
  <2>4. /\ sess' = [sess EXCEPT !.scripts = Append(@, c.id)] /\ stuck' = stuck
    BY <1>3 DEF Enable
  <2>5. sess' \in Session
    <3>1. sess.scripts \in Seq(Nat) /\ Append(sess.scripts, c.id) \in Seq(Nat)
      BY <1>0 DEF Session
    <3> QED BY <1>0, <2>4, <3>1 DEF Session
  <2>6. /\ sess'.proc = sess.proc /\ sess'.records = sess.records /\ sess'.result = sess.result
        /\ sess'.undo = sess.undo /\ sess'.paths = sess.paths /\ sess'.allow = sess.allow
        /\ sess'.scripts = Append(sess.scripts, c.id)
    BY <1>0, <2>4 DEF Session
  <2>7. Range(sess.scripts) \cup {c.id} \subseteq Range(sess'.scripts)
    BY <1>0, <2>6, Appended DEF Session
  <2>8. KeptOK'
    <3>1. ASSUME NEW p \in Pids
          PROVE  game'[p].patches \subseteq stuck' \cup IF sess'.proc = p THEN Range(sess'.scripts) ELSE {}
      <4>1. game[p].patches \subseteq stuck \cup IF sess.proc = p THEN Range(sess.scripts) ELSE {}
        BY DEF KeptOK, ScriptIds
      <4>2. CASE p = sess.proc
        BY <2>3, <2>4, <2>6, <2>7, <4>1, <4>2 DEF S
      <4>3. CASE p # sess.proc
        BY <2>3, <2>4, <2>6, <4>1, <4>3
      <4> QED BY <4>2, <4>3
    <3> QED BY <2>6, <3>1 DEF KeptOK, ScriptIds
  <2>9. Changes(c)
    BY <1>3, <2>1, <2>3 DEF Changes, MayChange, NeedsApproval, S
  <2> QED BY <1>0, <2>3, <2>4, <2>5, <2>6, <2>8, <2>9 DEF SessionType, Freezes, Stays
<1>4. CASE c.tool = "disable" /\ Disable(c)
  <2>1. /\ sess.proc \in Pids /\ sess.allow /\ sess.scripts \in Seq(Nat)
        /\ c.arg \in 1 .. Len(sess.scripts) /\ sess.scripts[c.arg] \in Nat
    BY <1>0, <1>4 DEF Disable, AlivePid, Session, Target
  <2> DEFINE S == game[sess.proc].patches \ {sess.scripts[c.arg]}
             R == RemoveAt(sess.scripts, c.arg)
  <2>2. S \in SUBSET Nat /\ game' = [game EXCEPT ![sess.proc].patches = S]
    BY <1>0, <1>4, <2>1 DEF Disable, Game
  <2>3. R \in Seq(Nat) /\ Range(sess.scripts) \ {sess.scripts[c.arg]} \subseteq Range(R)
    BY <2>1, Remaining
  <2>4. sess' = [sess EXCEPT !.scripts = R] /\ stuck' = stuck
    BY <1>4 DEF Disable
  <2> HIDE DEF S, R
  <2>5. /\ game' \in [Pids -> Game]
        /\ game'[sess.proc].patches = S /\ game'[sess.proc].val = game[sess.proc].val
        /\ game'[sess.proc].trap = game[sess.proc].trap
        /\ \A q \in Pids \ {sess.proc} : game'[q] = game[q]
    <3>1. sess.proc \in Pids /\ game \in [Pids -> Game] /\ S \in SUBSET Nat
      BY <1>0, <2>1, <2>2
    <3>2. game' = [game EXCEPT ![sess.proc].patches = S]
      BY <2>2
    <3> QED BY <3>1, <3>2, PatchesSet
  <2>6. /\ sess' \in Session
        /\ sess'.proc = sess.proc /\ sess'.records = sess.records /\ sess'.result = sess.result
        /\ sess'.undo = sess.undo /\ sess'.paths = sess.paths /\ sess'.allow = sess.allow
        /\ sess'.scripts = R
    BY <1>0, <2>3, <2>4 DEF Session
  <2>8. KeptOK'
    <3>1. ASSUME NEW p \in Pids
          PROVE  game'[p].patches \subseteq stuck' \cup IF sess'.proc = p THEN Range(sess'.scripts) ELSE {}
      <4>1. game[p].patches \subseteq stuck \cup IF sess.proc = p THEN Range(sess.scripts) ELSE {}
        BY DEF KeptOK, ScriptIds
      <4>2. CASE p = sess.proc
        BY <2>3, <2>4, <2>5, <2>6, <4>1, <4>2 DEF S
      <4>3. CASE p # sess.proc
        BY <2>4, <2>5, <2>6, <4>1, <4>3
      <4> QED BY <4>2, <4>3
    <3> QED BY <2>6, <3>1 DEF KeptOK, ScriptIds
  <2>9. Changes(c)
    BY <1>4, <2>1, <2>5 DEF Changes, MayChange, NeedsApproval, S
  <2> QED BY <1>0, <2>4, <2>5, <2>6, <2>8, <2>9 DEF SessionType, Freezes, Stays
<1>5. CASE c.tool = "record" /\ AddRecord
  <2> DEFINE new == [frozen |-> FALSE, val |-> 0, of |-> sess.proc]
  <2>1. sess.records \in Seq(Record) /\ new \in Record
    BY <1>0 DEF Session, Record
  <2>2. sess' = [sess EXCEPT !.records = Append(@, new)] /\ UNCHANGED <<game, stuck>>
    BY <1>5 DEF AddRecord
  <2>3. ~new.frozen /\ new.of = sess.proc
    OBVIOUS
  <2> HIDE DEF new
  <2>4. Append(sess.records, new) \in Seq(Record)
    BY <2>1
  <2>5. /\ sess' \in Session
        /\ sess'.proc = sess.proc /\ sess'.records = Append(sess.records, new) /\ sess'.result = sess.result
        /\ sess'.undo = sess.undo /\ sess'.paths = sess.paths /\ sess'.allow = sess.allow
        /\ sess'.scripts = sess.scripts
    BY <1>0, <2>2, <2>4 DEF Session
  <2>6. ASSUME NEW k \in 1 .. Len(sess'.records)
        PROVE  sess'.records[k] = new \/ (k \in 1 .. Len(sess.records) /\ sess'.records[k] = sess.records[k])
    BY <2>1, <2>5
  <2>7. KeptOK'
    BY <2>2, <2>3, <2>5, <2>6 DEF KeptOK, ScriptIds
  <2>8. Freezes(c)
    BY <2>3, <2>6 DEF Freezes
  <2> QED BY <1>0, <2>2, <2>5, <2>7, <2>8 DEF SessionType, Changes, Stays
<1>6. CASE c.tool = "freeze" /\ Freeze(c)
  <2>1. /\ sess.proc \in Pids /\ game' \in [Pids -> Game]
        /\ \A p \in Pids : game'[p].patches = game[p].patches /\ game'[p].trap = game[p].trap
        /\ game'[sess.proc].val = c.id
        /\ \A p \in Pids \ {sess.proc} : game'[p] = game[p]
        /\ stuck' = stuck /\ sess.allow
    BY <1>0, <1>6, PutKeeps DEF Freeze
  <2>2. sess.records \in Seq(Record) /\ c.arg \in 1 .. Len(sess.records)
    BY <1>0, <1>6 DEF Session, Freeze
  <2> DEFINE R == [sess.records EXCEPT ![c.arg] = [sess.records[c.arg] EXCEPT !.frozen = TRUE, !.val = c.id]]
  <2>3. sess' = [sess EXCEPT !.records = R]
    BY <1>0, <1>6, <2>2 DEF Freeze, Session, Record
  <2>4. /\ R \in Seq(Record) /\ Len(R) = Len(sess.records)
        /\ R[c.arg].val = c.id /\ R[c.arg].of = sess.records[c.arg].of
        /\ \A k \in 1 .. Len(R) : k # c.arg => R[k] = sess.records[k]
    <3>1. sess.records[c.arg] \in Record
      BY <2>2
    <3>2. [sess.records[c.arg] EXCEPT !.frozen = TRUE, !.val = c.id] \in Record
      BY <1>0, <3>1 DEF Record
    <3> QED BY <2>2, <3>1, <3>2 DEF Record
  <2> HIDE DEF R
  <2>5. /\ sess' \in Session
        /\ sess'.proc = sess.proc /\ sess'.records = R /\ sess'.result = sess.result
        /\ sess'.undo = sess.undo /\ sess'.paths = sess.paths /\ sess'.allow = sess.allow
        /\ sess'.scripts = sess.scripts
    BY <1>0, <2>3, <2>4 DEF Session
  <2>6. KeptOK'
    BY <2>1, <2>2, <2>4, <2>5 DEF KeptOK, ScriptIds
  <2>7. Changes(c)
    BY <1>6, <2>1 DEF Changes, MayChange, NeedsApproval
  <2>8. Freezes(c)
    BY <1>6, <2>1, <2>2, <2>4, <2>5 DEF Freezes, MayChange, NeedsApproval
  <2> QED BY <1>0, <2>1, <2>5, <2>6, <2>7, <2>8 DEF SessionType, Stays
<1>7. CASE c.tool = "unfreeze" /\ Unfreeze(c)
  <2>2. sess.records \in Seq(Record) /\ c.arg \in 1 .. Len(sess.records) /\ UNCHANGED <<game, stuck>>
    BY <1>0, <1>7 DEF Session, Unfreeze
  <2> DEFINE R == [sess.records EXCEPT ![c.arg] = [sess.records[c.arg] EXCEPT !.frozen = FALSE]]
  <2>3. sess' = [sess EXCEPT !.records = R]
    BY <1>0, <1>7, <2>2 DEF Unfreeze, Session, Record
  <2>4. /\ R \in Seq(Record) /\ Len(R) = Len(sess.records)
        /\ R[c.arg].frozen = FALSE /\ R[c.arg].of = sess.records[c.arg].of
        /\ \A k \in 1 .. Len(R) : k # c.arg => R[k] = sess.records[k]
    <3>1. sess.records[c.arg] \in Record
      BY <2>2
    <3>2. [sess.records[c.arg] EXCEPT !.frozen = FALSE] \in Record
      BY <1>0, <3>1 DEF Record
    <3> QED BY <2>2, <3>1, <3>2 DEF Record
  <2> HIDE DEF R
  <2>5. /\ sess' \in Session
        /\ sess'.proc = sess.proc /\ sess'.records = R /\ sess'.result = sess.result
        /\ sess'.undo = sess.undo /\ sess'.paths = sess.paths /\ sess'.allow = sess.allow
        /\ sess'.scripts = sess.scripts
    BY <1>0, <2>3, <2>4 DEF Session
  <2>6. KeptOK'
    BY <2>2, <2>4, <2>5 DEF KeptOK, ScriptIds
  <2>8. Freezes(c)
    BY <2>2, <2>4, <2>5 DEF Freezes
  <2> QED BY <1>0, <2>2, <2>5, <2>6, <2>8 DEF SessionType, Changes, Stays
<1>8. CASE c.tool = "undo" /\ UndoScan
  <2>1. /\ sess' \in Session
        /\ sess'.proc = sess.proc /\ sess'.records = sess.records /\ sess'.result = sess.undo
        /\ sess'.undo = None /\ sess'.paths = sess.paths /\ sess'.allow = sess.allow
        /\ sess'.scripts = sess.scripts /\ UNCHANGED <<game, stuck>>
    BY <1>0, <1>8 DEF UndoScan, Session, Target
  <2>2. KeptOK'
    BY <2>1 DEF KeptOK, ScriptIds
  <2> QED BY <1>0, <2>1, <2>2 DEF SessionType, Changes, Freezes, Stays
<1> QED BY <1>1, <1>2, <1>3, <1>4, <1>5, <1>6, <1>7, <1>8 DEF Quick

\* The tools that release the mutex: their start, and their end in the same
\* process.
LEMMA StartKeeps ==
  ASSUME SessionType, KeptOK, NEW c \in CallType, StartWork(c)
  PROVE  SessionType' /\ KeptOK' /\ Changes(c) /\ sess' = sess /\ sess.proc # None
<1>0. c.id \in Nat /\ sess \in Session /\ game \in [Pids -> Game] /\ stuck \in SUBSET Nat
  BY DEF CallType, SessionType
<1>1. UNCHANGED <<sess, stuck>> /\ sess.proc # None /\ sess.proc \in Pids
  BY <1>0 DEF StartWork, CanWork, Session, Target
<1>2. CASE c.tool = "watch"
  <2>1. game' = [game EXCEPT ![sess.proc].trap = c.id] /\ sess.allow
    BY <1>2 DEF StartWork, CanWork
  <2>2. /\ game' \in [Pids -> Game]
        /\ game'[sess.proc].trap = c.id /\ game'[sess.proc].patches = game[sess.proc].patches
        /\ game'[sess.proc].val = game[sess.proc].val
        /\ \A q \in Pids \ {sess.proc} : game'[q] = game[q]
    BY <1>0, <1>1, <2>1, TrapSet
  <2>3. KeptOK'
    BY <1>1, <2>2 DEF KeptOK, ScriptIds
  <2>4. Changes(c)
    BY <1>2, <2>1, <2>2 DEF Changes, MayChange, NeedsApproval
  <2> QED BY <1>0, <1>1, <2>2, <2>3, <2>4 DEF SessionType
<1>3. CASE c.tool # "watch"
  <2>1. game' = game
    BY <1>3 DEF StartWork
  <2> QED BY <1>0, <1>1, <2>1 DEF SessionType, KeptOK, ScriptIds, Changes
<1> QED BY <1>2, <1>3

LEMMA EndWorkKeeps ==
  ASSUME SessionType, KeptOK, NEW c \in CallType, EndWork(c), sess.proc # None
  PROVE  SessionType' /\ KeptOK' /\ Changes(c) /\ Stays /\ sess'.records = sess.records
<1>0. c.id \in Nat /\ sess \in Session /\ game \in [Pids -> Game] /\ stuck \in SUBSET Nat /\ sess.proc \in Pids
  BY DEF CallType, SessionType, Session, Target
<1>1. stuck' = stuck
  BY DEF EndWork
<1>2. /\ game' \in [Pids -> Game]
      /\ game'[sess.proc].patches = game[sess.proc].patches
      /\ game'[sess.proc].val = game[sess.proc].val
      /\ game'[sess.proc].trap \in {None, game[sess.proc].trap}
      /\ \A q \in Pids \ {sess.proc} : game'[q] = game[q]
      /\ game' # game => game'[sess.proc].trap = None
  <2>1. CASE c.tool = "watch"
    <3>1. game' = [game EXCEPT ![sess.proc].trap = 0]
      BY <2>1 DEF EndWork, None
    <3> QED BY <1>0, <3>1, TrapSet DEF None
  <2>2. CASE c.tool # "watch"
    BY <1>0, <2>2 DEF EndWork
  <2> QED BY <2>1, <2>2
<1>3. /\ sess' \in Session
      /\ sess'.proc = sess.proc /\ sess'.records = sess.records /\ sess'.allow = sess.allow
      /\ sess'.scripts = sess.scripts
      /\ sess'.result \in {sess.result, sess.proc} /\ sess'.undo \in {sess.undo, None, sess.result}
      /\ sess'.paths \in {sess.paths, sess.proc}
  <2>1. CASE UNCHANGED sess
    BY <1>0, <2>1
  <2>2. CASE KeepScan(c)
    BY <1>0, <2>2 DEF KeepScan, Session, Target
  <2>3. CASE KeepPaths(c)
    BY <1>0, <2>3 DEF KeepPaths, Session
  <2> QED BY <2>1, <2>2, <2>3 DEF EndWork
<1>4. KeptOK'
  BY <1>1, <1>2, <1>3 DEF KeptOK, ScriptIds
<1>5. Changes(c)
  <2>1. ASSUME NEW p \in Pids, game'[p] # game[p]
        PROVE  p = sess.proc /\ game'[p].trap = None
    BY <1>2, <2>1
  <2> QED BY <1>2, <2>1 DEF Changes
<1> QED BY <1>0, <1>1, <1>2, <1>3, <1>4, <1>5 DEF SessionType, Stays

LEMMA FreezerKeeps ==
  ASSUME SessionType, KeptOK, Freezer
  PROVE  /\ SessionType' /\ KeptOK' /\ sess' = sess
         /\ \E k \in 1 .. Len(sess.records) :
              /\ sess.records[k].frozen
              /\ \A p \in Pids : game'[p] # game[p] =>
                   /\ p = sess.proc /\ game'[p].val = sess.records[k].val
                   /\ game'[p].patches = game[p].patches /\ game'[p].trap = game[p].trap
<1>1. PICK k \in FrozenIn : game' = Put(sess.proc, sess.records[k].val)
  BY DEF Freezer
<1>2. UNCHANGED <<sess, stuck>> /\ AlivePid(sess.proc)
  BY DEF Freezer
<1>3. k \in 1 .. Len(sess.records) /\ sess.records[k].frozen /\ sess.records[k].val \in Nat
  <2>1. sess.records \in Seq(Record)
    BY DEF SessionType, Session
  <2>2. k \in 1 .. Len(sess.records) /\ sess.records[k].frozen
    BY <1>1, <2>1 DEF FrozenIn
  <2>3. sess.records[k] \in Record
    BY <2>1, <2>2
  <2> QED BY <2>2, <2>3 DEF Record
<1>4. /\ sess.proc \in Pids /\ game' \in [Pids -> Game]
      /\ \A p \in Pids : game'[p].patches = game[p].patches /\ game'[p].trap = game[p].trap
      /\ game'[sess.proc].val = sess.records[k].val
      /\ \A p \in Pids \ {sess.proc} : game'[p] = game[p]
  BY <1>1, <1>2, <1>3, PutKeeps
<1>5. KeptOK'
  BY <1>2, <1>4 DEF KeptOK, ScriptIds
<1> QED BY <1>2, <1>3, <1>4, <1>5 DEF SessionType

LEMMA WorldKeeps ==
  ASSUME SessionType, KeptOK, NEW p \in Pids, GameRuns(p) \/ GameExits(p)
  PROVE  /\ SessionType' /\ KeptOK' /\ sess' = sess
         /\ \A q \in Pids : game'[q] # game[q] =>
              /\ game'[q].val = 0 /\ game'[q].trap \in {None, game[q].trap}
              /\ game'[q].patches = game[q].patches \/ (game'[q].patches = {} /\ ~game'[q].alive)
<1>0. game \in [Pids -> Game] /\ UNCHANGED <<sess, stuck>>
  BY DEF SessionType, GameRuns, GameExits
<1>1. CASE GameRuns(p)
  <2>1. game' = [game EXCEPT ![p].val = 0]
    BY <1>1 DEF GameRuns, Put
  <2>2. /\ game' \in [Pids -> Game]
        /\ game'[p].val = 0 /\ game'[p].patches = game[p].patches /\ game'[p].trap = game[p].trap
        /\ \A q \in Pids \ {p} : game'[q] = game[q]
    BY <1>0, <2>1, ValSet
  <2>3. KeptOK'
    BY <1>0, <2>2 DEF KeptOK, ScriptIds
  <2> QED BY <1>0, <2>2, <2>3 DEF SessionType
<1>2. CASE GameExits(p)
  <2> DEFINE dead == [alive |-> FALSE, patches |-> {}, val |-> 0, trap |-> None]
  <2>1. game' = [game EXCEPT ![p] = dead]
    BY <1>2 DEF GameExits
  <2>2. dead \in Game /\ dead.val = 0 /\ dead.trap = None /\ dead.patches = {} /\ ~dead.alive
    BY DEF Game, None
  <2> HIDE DEF dead
  <2>3. game' \in [Pids -> Game] /\ game'[p] = dead /\ \A q \in Pids \ {p} : game'[q] = game[q]
    BY <1>0, <2>1, <2>2
  <2>4. KeptOK'
    <3>1. ASSUME NEW q \in Pids
          PROVE  game'[q].patches \subseteq stuck' \cup IF sess'.proc = q THEN Range(sess'.scripts) ELSE {}
      <4>1. game[q].patches \subseteq stuck \cup IF sess.proc = q THEN Range(sess.scripts) ELSE {}
        BY DEF KeptOK, ScriptIds
      <4>2. game'[q].patches \subseteq game[q].patches
        BY <2>2, <2>3
      <4> QED BY <1>0, <4>1, <4>2
    <3> QED BY <1>0, <3>1 DEF KeptOK, ScriptIds
  <2> QED BY <1>0, <2>2, <2>3, <2>4 DEF SessionType
<1> QED BY <1>1, <1>2

(***************************************************************************)
(* Types of the panel's state.                                             *)
(***************************************************************************)
GhostType == calls \in Nat /\ left \in Budgets /\ grant \in SUBSET Pids /\ gone \in SUBSET Pids /\ said \in SUBSET Nat

LEMMA SpendType == ASSUME left \in Budgets, NEW k \in DOMAIN left, Spend(k) PROVE left' \in Budgets
<1>1. left[k] \in Nat /\ left[k] > 0
  BY DEF Spend, Budgets
<1>2. left[k] - 1 \in Nat
  BY <1>1
<1> QED BY <1>2 DEF Spend, Budgets

LEMMA CurrentType ==
  ASSUME work \in Work, work.i <= Len(work.calls)
  PROVE  Current \in CallType
BY DEF Work, Current

LEMMA Constants1 ==
  /\ None \in Target /\ NoQuestion \in QuestionType /\ <<>> \in Seq(Message) /\ <<>> \in Seq(CallType)
  /\ NoChat \in TalkType
  /\ \A t \in Target : t \in Nat
<1>1. None \in Target /\ \A t \in Target : t \in Nat
  BY AgentAssumption DEF Target, None
<1>2. NoQuestion \in QuestionType
  <2>1. None \in Nat
    BY DEF None
  <2> QED BY <1>1, <2>1 DEF NoQuestion, QuestionType
<1> QED BY <1>1, <1>2 DEF NoChat, TalkType

LEMMA SyncedType ==
  ASSUME NEW u \in Ui, NEW queue \in Seq(Job)
  PROVE  Synced(u) \in Ui /\ Sync(u, queue) \in Seq(Job)
<1>1. Synced(u) \in Ui
  BY DEF Synced, Ui
<1>2. [job |-> "sync", left |-> u.left, pid |-> u.target] \in Job
  BY DEF Job, Ui
<1> QED BY <1>1, <1>2 DEF Sync

LEMMA SetTargetType ==
  ASSUME TypeOK, NEW p \in Target, SetTarget(p)
  PROVE  PanelType' /\ GhostType'
<1> DEFINE u == [ui EXCEPT !.target = p, !.allowPid = None,
                           !.left = IF ui.target = None THEN @ ELSE @ \cup {ui.target}]
<1>1. ui \in Ui /\ wq \in Seq(Job) /\ left \in Budgets /\ gone \in SUBSET Pids
  BY DEF TypeOK, PanelType
<1>2. u \in Ui
  <2>1. ui.target # None => ui.target \in Pids
    BY <1>1 DEF Ui, Target
  <2>2. (IF ui.target = None THEN ui.left ELSE ui.left \cup {ui.target}) \in SUBSET Pids
    BY <1>1, <2>1 DEF Ui
  <2> QED BY <1>1, <2>2, Constants1 DEF Ui
<1>3. ui' = Synced(u) /\ wq' = Sync(u, wq)
  BY DEF SetTarget
<1> HIDE DEF u
<1>4. ui' \in Ui /\ wq' \in Seq(Job)
  BY <1>1, <1>2, <1>3, SyncedType
<1>5. left' \in Budgets
  BY <1>1, SpendType DEF SetTarget, Budgets
<1>6. gone' \in SUBSET Pids
  <2>1. {ui.target} \ {None} \subseteq Pids
    BY <1>1 DEF Ui, Target
  <2> QED BY <1>1, <2>1 DEF SetTarget
<1>7. UNCHANGED <<ask, chat, work, uiq, calls, said>> /\ grant' = {}
  BY DEF SetTarget
<1> QED BY <1>4, <1>5, <1>6, <1>7 DEF TypeOK, PanelType, GhostType

LEMMA UserType ==
  ASSUME TypeOK,
         \/ Send \/ SendRefused \/ SendStart \/ Stop \/ NewChat \/ ChangeSettings \/ Close \/ CloseSession \/ McpQuit
  PROVE  PanelType' /\ GhostType'
<1>1. /\ ui \in Ui /\ ask \in Approval /\ chat \in TalkType /\ work \in Work /\ uiq \in Seq(Event)
      /\ wq \in Seq(Job) /\ GhostType
  BY DEF TypeOK, PanelType, GhostType
<1> USE Constants1
<1>s. ASSUME NEW k \in {"window", "send", "stop", "chat", "close", "game", "exit"}, Spend(k)
      PROVE  left' \in Budgets
  BY <1>1, <1>s, SpendType DEF GhostType, Budgets
<1>w. Woken \in Work
  BY <1>1 DEF Woken, Work, TurnPc, Calling, Waiting
<1>1a. CASE Send
  <2>1. ui' \in Ui
    BY <1>1, <1>1a DEF Send, Ui
  <2>2. chat' \in TalkType /\ said' \in SUBSET Nat /\ grant' \in SUBSET Pids
    BY <1>1, <1>1a DEF Send, GhostType
  <2> QED BY <1>1, <1>1a, <1>s, <2>1, <2>2 DEF Send, PanelType, GhostType
<1>2. CASE SendRefused
  <2>1. ui' \in Ui
    BY <1>1, <1>2 DEF SendRefused, Ui
  <2> QED BY <1>1, <1>2, <2>1 DEF SendRefused, PanelType, GhostType
<1>3. CASE SendStart
  <2>1. ui' \in Ui /\ ui.target \in Target
    BY <1>1, <1>3 DEF SendStart, Ui
  <2>2. chat' \in TalkType /\ ask' \in Approval
    BY <1>1, <1>3 DEF SendStart, TalkType, Approval
  <2>3. [job |-> "turn", left |-> {}, pid |-> ui.target] \in Job
    BY <2>1 DEF Job
  <2>4. wq' \in Seq(Job)
    BY <1>1, <1>3, <2>3 DEF SendStart
  <2> QED BY <1>1, <1>3, <2>1, <2>2, <2>4 DEF SendStart, PanelType, GhostType
<1>4. CASE Stop
  <2>1. chat' \in TalkType /\ ask' \in Approval /\ work' \in Work
    BY <1>1, <1>4, <1>w DEF Stop, StopTurn, TalkType, Approval
  <2> QED BY <1>1, <1>4, <1>s, <2>1 DEF Stop, PanelType, GhostType
<1>5. CASE NewChat
  <2>1. ui' \in Ui
    BY <1>1, <1>5 DEF NewChat, Ui
  <2> QED BY <1>1, <1>5, <1>s, <2>1 DEF NewChat, PanelType, GhostType
<1>6. CASE ChangeSettings
  <2>1. ui' \in Ui
    BY <1>1, <1>6 DEF ChangeSettings, Ui
  <2> QED BY <1>1, <1>6, <1>s, <2>1 DEF ChangeSettings, PanelType, GhostType
<1>7. CASE Close
  <2>1. chat' \in TalkType /\ ask' \in Approval /\ work' \in Work
    BY <1>1, <1>7, <1>w DEF Close, StopTurn, TalkType, Approval
  <2>2. ui' \in Ui
    BY <1>1, <1>7 DEF Close, Ui
  <2> QED BY <1>1, <1>7, <1>s, <2>1, <2>2 DEF Close, PanelType, GhostType
<1>8. CASE CloseSession
  <2>1. ui' \in Ui
    BY <1>1, <1>8 DEF CloseSession, Ui
  <2> QED BY <1>1, <1>8, <2>1 DEF CloseSession, PanelType, GhostType
<1>9. CASE McpQuit
  <2>1. ui' \in Ui
    BY <1>1, <1>9 DEF McpQuit, Ui
  <2> QED BY <1>1, <1>9, <2>1 DEF McpQuit, PanelType, GhostType
<1> QED BY <1>1a, <1>2, <1>3, <1>4, <1>5, <1>6, <1>7, <1>8, <1>9

LEMMA AnswerType ==
  ASSUME TypeOK, NEW allow \in BOOLEAN, NEW forChat \in BOOLEAN, Answer(allow, forChat)
  PROVE  PanelType' /\ GhostType'
<1>1. /\ ui \in Ui /\ ask \in Approval /\ work \in Work /\ GhostType
  BY DEF TypeOK, PanelType, GhostType
<1>2. ask' \in Approval
  BY <1>1 DEF Answer, AnswerApproval, Approval
<1>3. ui' \in Ui
  BY <1>1, Constants1 DEF Answer, AnswerApproval, Ui, Approval
<1>4. work' \in Work
  BY <1>1 DEF Answer, Woken, Work, TurnPc, Calling, Waiting
<1>5. grant' \in SUBSET Pids
  <2>1. ui.shown.grant \in Target /\ grant \in SUBSET Pids
    BY <1>1 DEF Ui, QuestionType, GhostType
  <2>2. forChat => ui.shown.grant \in Pids
    BY <2>1 DEF Answer, Target
  <2> QED BY <2>1, <2>2 DEF Answer
<1> QED BY <1>1, <1>2, <1>3, <1>4, <1>5 DEF Answer, PanelType, GhostType, TypeOK

LEMMA UiEventType ==
  ASSUME TypeOK, UiEvent
  PROVE  PanelType' /\ GhostType'
<1> DEFINE e == Head(uiq)
           u == CASE e.event = "show" -> [ui EXCEPT !.shown = e.q]
                  [] e.event = "hide" -> [ui EXCEPT !.shown = NoQuestion]
                  [] e.event = "finish" -> [ui EXCEPT !.busy = FALSE, !.shown = NoQuestion]
<1>1. /\ ui \in Ui /\ uiq \in Seq(Event) /\ wq \in Seq(Job) /\ GhostType /\ uiq # <<>>
  BY DEF TypeOK, PanelType, GhostType, UiEvent
<1>2. e \in Event /\ Tail(uiq) \in Seq(Event)
  BY <1>1
<1>3. u \in Ui
  <2>1. e.event \in {"show", "hide", "finish"} /\ e.q \in QuestionType
    BY <1>2 DEF Event
  <2> HIDE DEF e
  <2> QED BY <1>1, <2>1, Constants1 DEF Ui
<1>4. ui' = Synced(u) /\ wq' = Sync(u, wq) /\ uiq' = Tail(uiq)
  BY DEF UiEvent
<1> HIDE DEF u, e
<1>5. ui' \in Ui /\ wq' \in Seq(Job)
  BY <1>1, <1>3, <1>4, SyncedType
<1> QED BY <1>1, <1>2, <1>4, <1>5 DEF UiEvent, PanelType, GhostType, TypeOK

LEMMA MessagesType ==
  ASSUME NEW msgs \in Seq(Message)
  PROVE  /\ \A t \in Nat : WithText(msgs, t) \in Seq(Message)
         /\ \A n \in Nat : WithResults(msgs, n) \in Seq(Message) /\ Append(msgs, AssistantMsg(n)) \in Seq(Message)
<1>1. /\ \A t \in Nat : UserMsg({t}, 0) \in Message
      /\ \A n \in Nat : UserMsg({}, n) \in Message /\ AssistantMsg(n) \in Message
      /\ ToolMsg \in Message
  BY DEF UserMsg, AssistantMsg, ToolMsg, Message
<1>2. ASSUME NEW t \in Nat PROVE WithText(msgs, t) \in Seq(Message)
  <2>1. CASE Anthropic /\ msgs # <<>> /\ Last(msgs).role = "user"
    <3>1. Len(msgs) \in 1 .. Len(msgs) /\ msgs[Len(msgs)] \in Message
      BY <2>1
    <3>2. [msgs[Len(msgs)] EXCEPT !.texts = @ \cup {t}] \in Message
      BY <3>1 DEF Message
    <3>3. WithText(msgs, t) = [msgs EXCEPT ![Len(msgs)] = [msgs[Len(msgs)] EXCEPT !.texts = @ \cup {t}]]
      BY <2>1, <3>1 DEF WithText
    <3> QED BY <3>1, <3>2, <3>3
  <2>2. CASE ~(Anthropic /\ msgs # <<>> /\ Last(msgs).role = "user")
    BY <1>1, <2>2 DEF WithText
  <2> QED BY <2>1, <2>2
<1>3. ASSUME NEW n \in Nat PROVE WithResults(msgs, n) \in Seq(Message)
  <2>1. [k \in 1 .. n |-> ToolMsg] \in Seq(Message)
    BY <1>1
  <2> QED BY <1>1, <2>1 DEF WithResults
<1>4. ASSUME NEW n \in Nat PROVE Append(msgs, AssistantMsg(n)) \in Seq(Message)
  BY <1>1
<1> QED BY <1>2, <1>3, <1>4

LEMMA TurnType ==
  ASSUME TypeOK,
         \/ WorkerSync \/ TurnStart \/ TurnSend \/ Round \/ ReplyFails \/ CallsDone \/ CallSkipped
         \/ WaitTest \/ WaitSleep \/ CallRun \/ CallEnds \/ TurnFinish \/ Ask
  PROVE  PanelType' /\ (CallRun \/ GhostType')
<1>1. /\ ui \in Ui /\ ask \in Approval /\ chat \in TalkType /\ work \in Work /\ uiq \in Seq(Event)
      /\ wq \in Seq(Job) /\ GhostType
  BY DEF TypeOK, PanelType, GhostType
<1>n. NextCall \in Work
  <2>1. work.i + 1 \in Nat \ {0}
    BY <1>1 DEF Work
  <2> QED BY <1>1, <2>1 DEF NextCall, Work, TurnPc, Calling
<1>p. ASSUME NEW pc \in TurnPc PROVE [work EXCEPT !.pc = pc] \in Work
  BY <1>1 DEF Work
<1>q. Tail(wq) \in Seq(Job) \/ wq = <<>>
  BY <1>1
<1>f. ASSUME FailTurn PROVE chat' \in TalkType /\ work' \in Work /\ said' \in SUBSET Nat
  <2>1. Failed(chat.msgs, chat) \in Seq(Message)
    BY <1>1 DEF Failed, TalkType
  <2> QED BY <1>1, <1>f, <2>1 DEF FailTurn, EndTurn, TalkType, Work, TurnPc, GhostType
<1>2. CASE WorkerSync
  BY <1>1, <1>2, <1>q DEF WorkerSync, WorkerRuns, PanelType, GhostType
<1>3. CASE TurnStart
  <2>1. work' \in Work
    BY <1>3, <1>p DEF TurnStart, TurnPc
  <2> QED BY <1>1, <1>3, <1>q, <2>1 DEF TurnStart, WorkerRuns, PanelType, GhostType
<1>4. CASE TurnSend
  <2>1. CASE ask.stopping
    BY <1>1, <1>4, <2>1 DEF TurnSend, PanelType, GhostType, Work, TurnPc
  <2>2. CASE ~ask.stopping
    <3> DEFINE t == chat.done + 1
    <3>1. t \in Nat /\ chat.msgs \in Seq(Message)
      BY <1>1 DEF TalkType
    <3>2. /\ chat' = [chat EXCEPT !.msgs = WithText(@, t), !.start = chat.msgs, !.acted = FALSE,
                                  !.round = 1, !.turn = t, !.done = t]
          /\ said' = said \cup {t} /\ work' = [work EXCEPT !.pc = "round"]
      BY <1>4, <2>2 DEF TurnSend
    <3>3. WithText(chat.msgs, t) \in Seq(Message)
      BY <3>1, MessagesType
    <3> HIDE DEF t
    <3>4. chat' \in TalkType /\ said' \in SUBSET Nat
      BY <1>1, <3>1, <3>2, <3>3 DEF TalkType, GhostType
    <3>5. work' \in Work
      BY <1>p, <3>2 DEF TurnPc
    <3> QED BY <1>1, <1>4, <3>4, <3>5 DEF TurnSend, PanelType, GhostType
  <2> QED BY <2>1, <2>2
<1>5. CASE Round
  <2>1. CASE chat.cancelled /\ FailTurn
    BY <1>1, <1>5, <1>f, <2>1 DEF Round, PanelType, GhostType
  <2>2. CASE EndTurn(chat.msgs, FALSE) /\ UNCHANGED said
    BY <1>1, <1>5, <2>2 DEF Round, PanelType, GhostType, EndTurn, TalkType, Work, TurnPc
  <2>3. CASE work' = [work EXCEPT !.pc = "posted"] /\ UNCHANGED <<chat, said>>
    <3>1. work' \in Work
      BY <1>p, <2>3 DEF TurnPc
    <3> QED BY <1>1, <1>5, <2>3, <3>1 DEF Round, PanelType, GhostType
  <2> QED BY <1>5, <2>1, <2>2, <2>3 DEF Round
<1>6. CASE ReplyFails
  BY <1>1, <1>6, <1>f DEF ReplyFails, PanelType, GhostType
<1>7. CASE CallsDone
  <2> DEFINE m == WithResults(chat.msgs, Len(work.calls))
  <2>1. m \in Seq(Message)
    BY <1>1, MessagesType DEF Work, TalkType
  <2>2. \/ EndTurn(m, FALSE)
        \/ chat' = [chat EXCEPT !.msgs = m, !.acted = TRUE, !.round = @ + 1] /\ work' = [work EXCEPT !.pc = "round"]
    BY <1>7 DEF CallsDone
  <2> HIDE DEF m
  <2>3. chat' \in TalkType
    <3>1. chat.round + 1 \in Nat
      BY <1>1 DEF TalkType
    <3>2. CASE EndTurn(m, FALSE)
      BY <1>1, <2>1, <3>2 DEF EndTurn, TalkType
    <3>3. CASE chat' = [chat EXCEPT !.msgs = m, !.acted = TRUE, !.round = @ + 1]
      BY <1>1, <2>1, <3>1, <3>3 DEF TalkType
    <3> QED BY <2>2, <3>2, <3>3
  <2>4. work' \in Work
    BY <1>1, <2>2 DEF EndTurn, Work, TurnPc
  <2> QED BY <1>1, <1>7, <2>3, <2>4 DEF CallsDone, PanelType, GhostType
<1>8. CASE CallSkipped
  BY <1>1, <1>8, <1>n DEF CallSkipped, PanelType, GhostType
<1>9. CASE WaitTest
  <2>1. [event |-> "hide", q |-> NoQuestion] \in Event
    BY Constants1 DEF Event
  <2>2. ask' \in Approval
    BY <1>1, <1>9, Constants1 DEF WaitTest, Approval
  <2>3. work' \in Work
    BY <1>1, <1>9, <1>n, <1>p DEF WaitTest, TurnPc, Calling, Waiting
  <2>4. uiq' \in Seq(Event)
    BY <1>1, <1>9, <2>1 DEF WaitTest, ToUi
  <2> QED BY <1>1, <1>9, <2>2, <2>3, <2>4 DEF WaitTest, PanelType, GhostType
<1>10. CASE WaitSleep
  <2>3. work' \in Work
    BY <1>1, <1>10, <1>p DEF WaitSleep, TurnPc, Calling, Waiting
  <2> QED BY <1>1, <1>10, <2>3 DEF WaitSleep, PanelType, GhostType
<1>11. CASE CallRun
  <2>3. work' \in Work
    BY <1>1, <1>11, <1>p, <1>n DEF CallRun, TurnPc, Calling
  <2> QED BY <1>1, <1>11, <2>3 DEF CallRun, PanelType
<1>12. CASE CallEnds
  BY <1>1, <1>12, <1>n DEF CallEnds, PanelType, GhostType
<1>13. CASE TurnFinish
  <2>1. [event |-> "finish", q |-> NoQuestion] \in Event
    BY Constants1 DEF Event
  <2>2. uiq' \in Seq(Event)
    BY <1>1, <1>13, <2>1 DEF TurnFinish, ToUi
  <2>3. work' \in Work
    <3>1. <<>> \in Seq(CallType) /\ NoQuestion \in QuestionType /\ 1 \in Nat \ {0}
      BY Constants1
    <3>2. work' = [work EXCEPT !.pc = "idle", !.calls = <<>>, !.i = 1, !.q = NoQuestion]
      BY <1>13 DEF TurnFinish
    <3> QED BY <1>1, <3>1, <3>2 DEF Work
  <2> QED BY <1>1, <1>13, <2>2, <2>3 DEF TurnFinish, PanelType, GhostType
<1>14. CASE Ask
  <2>1. [event |-> "show", q |-> work.q] \in Event /\ work.q.grant \in Target
    BY <1>1 DEF Event, Work, QuestionType
  <2>2. uiq' \in Seq(Event)
    BY <1>1, <1>14, <2>1 DEF Ask, ToUi
  <2>3. work' \in Work
    BY <1>1, <1>14, <1>n, <1>p DEF Ask, TurnPc, Calling, Waiting
  <2>4. ask' \in Approval
    BY <1>1, <1>14, <2>1 DEF Ask, Approval
  <2> QED BY <1>1, <1>14, <2>2, <2>3, <2>4 DEF Ask, PanelType, GhostType
<1> QED BY <1>2, <1>3, <1>4, <1>5, <1>6, <1>7, <1>8, <1>9, <1>10, <1>11, <1>12, <1>13, <1>14

\* The numbered calls of a reply, in which an attach names a process.
LEMMA NumberedType ==
  ASSUME NEW reply \in Replies, calls \in Nat
  PROVE  /\ Numbered(reply) \in Seq(CallType) /\ Len(Numbered(reply)) = Len(reply)
         /\ \A k \in 1 .. Len(Numbered(reply)) :
              Numbered(reply)[k].tool = "attach" => Numbered(reply)[k].arg \in Pids
<1>1. reply \in Seq(Asked) /\ DOMAIN reply = 1 .. Len(reply)
  BY DEF Replies
<1>2. ASSUME NEW k \in 1 .. Len(reply)
      PROVE  /\ Call(reply[k].tool, reply[k].arg, calls + k) \in CallType
             /\ Call(reply[k].tool, reply[k].arg, calls + k).tool = reply[k].tool
             /\ Call(reply[k].tool, reply[k].arg, calls + k).arg = reply[k].arg
             /\ reply[k].tool = "attach" => reply[k].arg \in Pids
  <2>0. calls + k \in Nat \ {0}
    OBVIOUS
  <2>1. reply[k] \in Asked
    BY <1>1
  <2> QED BY <1>1, <2>0, <2>1 DEF Call, CallType, Replies, Asked
<1>3. Numbered(reply) = [k \in 1 .. Len(reply) |-> Call(reply[k].tool, reply[k].arg, calls + k)]
  BY <1>1 DEF Numbered
<1>4. Numbered(reply) \in Seq(CallType)
  BY <1>1, <1>2, <1>3
<1>5. Len(Numbered(reply)) = Len(reply)
  BY <1>1, <1>3
<1> QED BY <1>2, <1>3, <1>4, <1>5

LEMMA ReplyOfScenario == ASSUME scen \in Scenarios, NEW reply \in scen.replies PROVE reply \in Replies
BY AgentAssumption

LEMMA ReplyType ==
  ASSUME TypeOK, Reply \/ McpCall
  PROVE  PanelType' /\ GhostType'
<1>1. /\ ui \in Ui /\ ask \in Approval /\ chat \in TalkType /\ work \in Work /\ uiq \in Seq(Event)
      /\ wq \in Seq(Job) /\ GhostType /\ calls \in Nat /\ scen \in Scenarios
  BY DEF TypeOK, PanelType, GhostType
<1>2. ASSUME NEW reply \in scen.replies, NEW pc \in TurnPc \cup McpPc
      PROVE  /\ [work EXCEPT !.pc = pc, !.calls = Numbered(reply), !.i = 1] \in Work
             /\ calls + Len(reply) \in Nat /\ Len(reply) \in Nat
  <2>1. Numbered(reply) \in Seq(CallType) /\ reply \in Seq(Asked) /\ 1 \in Nat \ {0}
    <3>1. reply \in Replies
      BY <1>1, ReplyOfScenario
    <3>2. Numbered(reply) \in Seq(CallType)
      BY <1>1, <3>1, NumberedType
    <3> QED BY <3>1, <3>2 DEF Replies
  <2>2. [work EXCEPT !.pc = pc, !.calls = Numbered(reply), !.i = 1] \in Work
    BY <1>1, <2>1 DEF Work
  <2>3. Len(reply) \in Nat
    BY <2>1
  <2> QED BY <1>1, <2>2, <2>3
<1>3. CASE Reply
  <2>1. CASE \E empty \in BOOLEAN :
               /\ EndTurn(IF empty /\ Anthropic THEN chat.msgs ELSE Append(chat.msgs, AssistantMsg(0)), TRUE)
               /\ UNCHANGED calls
    <3>1. PICK m \in Seq(Message) : EndTurn(m, TRUE) /\ UNCHANGED calls
      BY <1>1, <2>1, MessagesType DEF TalkType
    <3>2. chat' \in TalkType /\ work' \in Work
      BY <1>1, <3>1 DEF EndTurn, TalkType, Work, TurnPc
    <3> QED BY <1>1, <1>3, <3>1, <3>2 DEF Reply, PanelType, GhostType
  <2>2. CASE \E reply \in scen.replies :
               /\ chat' = [chat EXCEPT !.msgs = Append(@, AssistantMsg(Len(reply)))]
               /\ work' = [work EXCEPT !.pc = "call", !.calls = Numbered(reply), !.i = 1]
               /\ calls' = calls + Len(reply)
    <3>1. PICK reply \in scen.replies :
               /\ chat' = [chat EXCEPT !.msgs = Append(@, AssistantMsg(Len(reply)))]
               /\ work' = [work EXCEPT !.pc = "call", !.calls = Numbered(reply), !.i = 1]
               /\ calls' = calls + Len(reply)
      BY <2>2
    <3>2. work' \in Work /\ calls' \in Nat /\ Len(reply) \in Nat
      BY <1>2, <3>1 DEF TurnPc, Calling
    <3>3. Append(chat.msgs, AssistantMsg(Len(reply))) \in Seq(Message)
      BY <1>1, <3>2, MessagesType DEF TalkType
    <3>4. chat' \in TalkType
      BY <1>1, <3>1, <3>3 DEF TalkType
    <3> QED BY <1>1, <1>3, <3>2, <3>4 DEF Reply, PanelType, GhostType
  <2> QED BY <1>3, <2>1, <2>2 DEF Reply
<1>4. CASE McpCall
  <2>1. PICK reply \in scen.replies :
           /\ work' = [work EXCEPT !.pc = "mcp", !.calls = Numbered(reply), !.i = 1]
           /\ calls' = calls + Len(reply)
    BY <1>4 DEF McpCall
  <2>2. work' \in Work /\ calls' \in Nat
    BY <1>2, <2>1 DEF McpPc
  <2> QED BY <1>1, <1>4, <2>2 DEF McpCall, PanelType, GhostType
<1> QED BY <1>3, <1>4

LEMMA CallType1 ==
  ASSUME TypeOK, CallStart \/ McpRun \/ McpEnds \/ FreezerStep \/ World
  PROVE  PanelType' /\ GhostType'
<1>1. /\ ui \in Ui /\ ask \in Approval /\ chat \in TalkType /\ work \in Work /\ uiq \in Seq(Event)
      /\ wq \in Seq(Job) /\ GhostType /\ sess \in Session
  BY DEF TypeOK, PanelType, GhostType, SessionType
<1>i. work.i + 1 \in Nat \ {0}
  BY <1>1 DEF Work
<1>2. CASE CallStart
  <2>1. Current \in CallType
    BY <1>1, <1>2, CurrentType DEF CallStart
  <2>2. Question(Current) \in QuestionType
    <3>1. /\ Current.tool \in Tools /\ Current.arg \in Nat /\ Current.id \in Nat
          /\ sess.proc \in Target /\ sess.proc \in Nat
      BY <1>1, <2>1, Constants1 DEF CallType, Session
    <3>2. GrantFor(Current) \in Target
      BY <3>1, Constants1 DEF GrantFor
    <3> QED BY <3>1, <3>2 DEF Question, QuestionType
  <2>3. work' \in Work
    BY <1>1, <1>2, <2>2 DEF CallStart, Work, TurnPc, Calling
  <2> QED BY <1>1, <1>2, <2>3 DEF CallStart, PanelType, GhostType
<1>3. CASE McpRun
  <2>1. work' \in Work
    <3>1. CASE work' = [work EXCEPT !.pc = "idle", !.calls = <<>>, !.i = 1]
      <4>1. <<>> \in Seq(CallType) /\ 1 \in Nat \ {0}
        OBVIOUS
      <4> QED BY <1>1, <3>1, <4>1 DEF Work
    <3>2. CASE work' = [work EXCEPT !.i = @ + 1]
      BY <1>1, <1>i, <3>2 DEF Work
    <3>3. CASE work' = [work EXCEPT !.pc = "mcpwork"]
      BY <1>1, <3>3 DEF Work, McpPc
    <3> QED BY <1>3, <3>1, <3>2, <3>3 DEF McpRun
  <2> QED BY <1>1, <1>3, <2>1 DEF McpRun, PanelType, GhostType
<1>4. CASE McpEnds
  <2>1. work' \in Work
    BY <1>1, <1>4, <1>i DEF McpEnds, Work, McpPc
  <2> QED BY <1>1, <1>4, <2>1 DEF McpEnds, PanelType, GhostType
<1>5. CASE FreezerStep
  BY <1>1, <1>5 DEF FreezerStep, panelVars, PanelType, GhostType
<1>6. CASE World
  <2>1. left' \in Budgets
    BY <1>1, <1>6, SpendType DEF World, GhostType, Budgets
  <2> QED BY <1>1, <1>6, <2>1 DEF World, PanelType, GhostType
<1> QED BY <1>2, <1>3, <1>4, <1>5, <1>6

(***************************************************************************)
(* What a step does to the session.                                        *)
(***************************************************************************)
SessionSteps ==
  \/ WorkerSync \/ TurnStart \/ CallRun \/ CallEnds \/ McpRun \/ McpEnds
  \/ CloseSession \/ McpQuit \/ FreezerStep \/ World

LEMMA OthersKeepSession ==
  ASSUME Next
  PROVE  SessionSteps \/ UNCHANGED sessionVars
<1>1. CASE User \/ SendStart \/ UiEvent
  BY <1>1 DEF User, SendStart, UiEvent, SetTarget, Send, SendRefused, Stop, NewChat, ChangeSettings, Close, Answer
<1>2. CASE Worker
  BY <1>2 DEF Worker, SessionSteps, TurnSend, Round, ReplyFails, Reply, CallsDone, CallSkipped, CallStart, Ask,
              WaitTest, WaitSleep, TurnFinish
<1>3. CASE CloseSession \/ McpCall \/ McpRun \/ McpEnds \/ McpQuit \/ FreezerStep \/ World
  BY <1>3 DEF SessionSteps, McpCall
<1> QED BY <1>1, <1>2, <1>3 DEF Next

\* The call that runs, of which the session's step is a part.
LEMMA RunsOne ==
  ASSUME TypeOK, ConsentOK, CallRun \/ (McpRun /\ ~UNCHANGED sessionVars) \/ CallEnds \/ McpEnds
  PROVE  work.i <= Len(work.calls) /\ Current \in CallType /\ (Current.tool = "attach" => Current.arg \in Pids)
<1>1. work \in Work
  BY DEF TypeOK, PanelType
<1>2. work.i <= Len(work.calls)
  <2>1. CASE CallRun \/ CallEnds \/ McpEnds
    BY <2>1 DEF CallRun, CallEnds, McpEnds, ConsentOK, InCalls, Calling
  <2>2. CASE McpRun /\ ~UNCHANGED sessionVars
    BY <2>2 DEF McpRun
  <2> QED BY <2>1, <2>2
<1>3. Current \in CallType
  BY <1>1, <1>2, CurrentType
<1>4. work.i \in 1 .. Len(work.calls)
  BY <1>1, <1>2 DEF Work
<1> QED BY <1>2, <1>3, <1>4 DEF ConsentOK, Current

LEMMA SessionStep ==
  ASSUME TypeOK, ConsentOK, KeptOK, Next
  PROVE  SessionType' /\ KeptOK'
<1>0. SessionType /\ PanelType
  BY DEF TypeOK
<1>u. CASE UNCHANGED sessionVars
  BY <1>0, <1>u DEF sessionVars, SessionType, KeptOK, ScriptIds
<1>1. CASE WorkerSync
  BY <1>0, <1>1, <1>u, DetachKeeps DEF WorkerSync
<1>2. CASE TurnStart
  <2>1. CASE ~UNCHANGED sessionVars
    <3>1. Head(wq).pid # None /\ Attach(Head(wq).pid) /\ wq # <<>>
      BY <1>2, <2>1 DEF TurnStart, WorkerRuns
    <3>2. Head(wq).pid \in Pids
      <4>1. Head(wq) \in Job
        BY <1>0, <3>1 DEF PanelType
      <4> QED BY <3>1, <4>1 DEF Job, Target
    <3> QED BY <1>0, <3>1, <3>2, AttachKeeps
  <2> QED BY <1>u, <2>1
<1>3. CASE CallRun \/ (McpRun /\ ~UNCHANGED sessionVars)
  <2>1. Current \in CallType /\ (Current.tool = "attach" => Current.arg \in Pids)
    BY <1>3, RunsOne
  <2>2. CASE Current.tool = "attach" /\ Attach(Current.arg)
    BY <1>0, <2>1, <2>2, AttachKeeps
  <2>3. CASE Quick(Current)
    BY <1>0, <2>1, <2>3, QuickKeeps
  <2>4. CASE StartWork(Current)
    BY <1>0, <2>1, <2>4, StartKeeps
  <2> QED BY <1>3, <2>2, <2>3, <2>4 DEF CallRun, McpRun
<1>4. CASE CallEnds \/ McpEnds
  <2>1. Current \in CallType /\ EndWork(Current) /\ sess.proc # None
    BY <1>4, RunsOne DEF CallEnds, McpEnds, ConsentOK
  <2> QED BY <1>0, <2>1, EndWorkKeeps
<1>5. CASE CloseSession \/ McpQuit
  BY <1>0, <1>5, EndKeeps DEF CloseSession, McpQuit
<1>6. CASE FreezerStep
  BY <1>0, <1>6, FreezerKeeps DEF FreezerStep
<1>7. CASE World
  BY <1>0, <1>7, WorldKeeps DEF World
<1> QED BY <1>u, <1>1, <1>2, <1>3, <1>4, <1>5, <1>6, <1>7, OthersKeepSession DEF SessionSteps

LEMMA TypeStep ==
  ASSUME TypeOK, ConsentOK, KeptOK, Next
  PROVE  TypeOK'
<1>1. SessionType'
  BY SessionStep
<1>2. PanelType' /\ GhostType'
  <2>1. CASE User
    BY <2>1, SetTargetType, UserType, AnswerType DEF User, Target
  <2>2. CASE SendStart \/ UiEvent \/ CloseSession \/ McpQuit
    BY <2>2, UserType, UiEventType
  <2>3. CASE CallRun
    <3>1. PanelType'
      BY <2>3, TurnType
    <3>2. GhostType'
      <4>1. gone' \subseteq gone
        BY <2>3 DEF CallRun
      <4> QED BY <2>3, <4>1 DEF CallRun, GhostType, TypeOK
    <3> QED BY <3>1, <3>2
  <2>4. CASE Worker /\ ~CallRun
    BY <2>4, TurnType, ReplyType, CallType1 DEF Worker
  <2>5. CASE McpCall \/ McpRun \/ McpEnds \/ FreezerStep \/ World
    BY <2>5, ReplyType, CallType1
  <2> QED BY <2>1, <2>2, <2>3, <2>4, <2>5 DEF Next, Worker
<1>3. scen' = scen
  <2>1. CASE User \/ SendStart \/ UiEvent \/ CloseSession
    BY <2>1 DEF User, SendStart, UiEvent, SetTarget, Send, SendRefused, Stop, NewChat, ChangeSettings, Close, Answer,
                CloseSession
  <2>2. CASE Worker
    BY <2>2 DEF Worker, TurnSend, Round, ReplyFails, Reply, CallsDone, CallSkipped, CallStart, Ask,
                WaitTest, WaitSleep, TurnFinish, WorkerSync, TurnStart, CallRun, CallEnds
  <2>3. CASE McpCall \/ McpRun \/ McpEnds \/ McpQuit \/ FreezerStep \/ World
    BY <2>3 DEF McpCall, McpRun, McpEnds, McpQuit, FreezerStep, World
  <2> QED BY <2>1, <2>2, <2>3 DEF Next
<1> QED BY <1>1, <1>2, <1>3 DEF TypeOK, GhostType

(***************************************************************************)
(* The queues.                                                             *)
(***************************************************************************)
LEMMA TailFacts ==
  ASSUME NEW S, NEW s \in Seq(S), s # <<>>
  PROVE  /\ Head(s) = s[1] /\ 1 \in 1 .. Len(s) /\ Len(Tail(s)) = Len(s) - 1
         /\ \A k \in 1 .. Len(Tail(s)) : k + 1 \in 1 .. Len(s) /\ Tail(s)[k] = s[k + 1]
         /\ \A k \in 2 .. Len(s) : k - 1 \in 1 .. Len(Tail(s)) /\ Tail(s)[k - 1] = s[k]
OBVIOUS

LEMMA AppendFacts ==
  ASSUME NEW S, NEW s \in Seq(S), NEW x \in S
  PROVE  /\ Len(Append(s, x)) = Len(s) + 1 /\ Append(s, x)[Len(s) + 1] = x
         /\ \A k \in 1 .. Len(s) : k \in 1 .. Len(Append(s, x)) /\ Append(s, x)[k] = s[k]
         /\ \A k \in 1 .. Len(Append(s, x)) : k \in 1 .. Len(s) \/ k = Len(s) + 1
OBVIOUS

\* A sync adds no turn, and what it adds is to leave u.left.
LEMMA SyncAdds ==
  ASSUME NEW u \in Ui, NEW queue \in Seq(Job), NEW r, r = Sync(u, queue)
  PROVE  /\ \A k \in 1 .. Len(queue) : k \in 1 .. Len(r) /\ r[k] = queue[k]
         /\ \A k \in 1 .. Len(r) : r[k].job = "turn" => k \in 1 .. Len(queue)
         /\ u.busy => r = queue
         /\ ~u.busy /\ u.left # {} =>
              \E k \in 1 .. Len(r) : r[k].job = "sync" /\ r[k].left = u.left /\ r[k].pid = u.target
<1>1. CASE u.busy \/ u.left = {}
  BY <1>1 DEF Sync
<1>2. CASE ~(u.busy \/ u.left = {})
  <2> DEFINE j == [job |-> "sync", left |-> u.left, pid |-> u.target]
  <2>1. j \in Job /\ j.job = "sync" /\ j.left = u.left /\ j.pid = u.target
    BY DEF Job, Ui
  <2>2. r = Append(queue, j)
    BY <1>2 DEF Sync
  <2> HIDE DEF j
  <2>3. /\ Len(r) = Len(queue) + 1 /\ r[Len(queue) + 1] = j
        /\ \A k \in 1 .. Len(queue) : k \in 1 .. Len(r) /\ r[k] = queue[k]
        /\ \A k \in 1 .. Len(r) : k \in 1 .. Len(queue) \/ k = Len(queue) + 1
    BY <2>1, <2>2, AppendFacts
  <2>4. Len(queue) + 1 \in 1 .. Len(r)
    BY <2>3
  <2> QED BY <1>2, <2>1, <2>3, <2>4
<1> QED BY <1>1, <1>2

(***************************************************************************)
(* One turn at a time.                                                     *)
(***************************************************************************)
LEMMA PcType == ASSUME TypeOK PROVE work.pc \in {"idle"} \cup TurnPc \cup McpPc
BY DEF TypeOK, PanelType, Work

LEMMA PcSets == "idle" \notin TurnPc /\ TurnPc \cap McpPc = {} /\ "idle" \notin McpPc /\ Waiting \subseteq TurnPc
BY DEF TurnPc, Calling, Waiting, McpPc

LEMMA TurnsFrame ==
  ASSUME TurnsOK, scen' = scen, uiq' = uiq, ui'.busy = ui.busy, ui'.sending = ui.sending,
         ui'.shown \in {ui.shown, NoQuestion}, wq' = wq, Panel \/ gone' = gone,
         \/ work'.pc = work.pc
         \/ work.pc \in TurnPc /\ work'.pc \in TurnPc
         \/ ~Panel /\ work'.pc \in McpPc \cup {"idle"}
  PROVE  TurnsOK'
<1>1. Handed' = Handed /\ Returned' = Returned /\ Panel' = Panel
  BY DEF Handed, Returned, Panel
<1>2. ~Panel => ~Handed /\ ~Returned
  BY DEF TurnsOK, Handed, Returned
<1> QED BY <1>1, <1>2, PcSets DEF TurnsOK

LEMMA TurnsUser ==
  ASSUME TypeOK, TurnsOK, User \/ SendStart \/ CloseSession
  PROVE  TurnsOK'
<1>1. /\ ui \in Ui /\ work \in Work /\ uiq \in Seq(Event) /\ wq \in Seq(Job) /\ work.pc \in {"idle"} \cup TurnPc \cup McpPc
  BY PcType DEF TypeOK, PanelType
<1>w. /\ Woken.pc = work.pc \/ (work.pc \in TurnPc /\ Woken.pc \in TurnPc)
  BY <1>1 DEF Woken, Work, TurnPc, Calling, Waiting
<1>2. ASSUME NEW p \in Target, SetTarget(p) PROVE TurnsOK'
  <2> DEFINE u == [ui EXCEPT !.target = p, !.allowPid = None,
                             !.left = IF ui.target = None THEN @ ELSE @ \cup {ui.target}]
  <2>1. /\ u \in Ui /\ u.busy = ui.busy /\ u.sending = ui.sending /\ u.shown = ui.shown
    <3>1. ui.target # None => ui.target \in Pids
      BY <1>1 DEF Ui, Target
    <3>2. (IF ui.target = None THEN ui.left ELSE ui.left \cup {ui.target}) \in SUBSET Pids
      BY <1>1, <3>1 DEF Ui
    <3> QED BY <1>1, <3>2, Constants1 DEF Ui
  <2>2. ui' = Synced(u) /\ wq' = Sync(u, wq) /\ Panel /\ UNCHANGED <<scen, uiq, work>>
    BY <1>2 DEF SetTarget, UiRuns
  <2> HIDE DEF u
  <2>3. ui'.busy = ui.busy /\ ui'.sending = ui.sending /\ ui'.shown = ui.shown
    BY <2>1, <2>2 DEF Synced, Ui
  <2>4. /\ \A k \in 1 .. Len(wq) : k \in 1 .. Len(wq') /\ wq'[k] = wq[k]
        /\ \A k \in 1 .. Len(wq') : wq'[k].job = "turn" => k \in 1 .. Len(wq)
    BY <1>1, <2>1, <2>2, SyncAdds
  <2>5. Handed' = Handed /\ Returned' = Returned /\ Panel'
    BY <2>2, <2>4 DEF Handed, Returned, Panel
  <2> QED BY <2>2, <2>3, <2>4, <2>5 DEF TurnsOK
<1>3. CASE Send
  <2>1. /\ ~ui.busy /\ ui'.busy /\ ui'.sending /\ ui'.shown = ui.shown /\ UNCHANGED <<scen, work, uiq, wq, gone>> /\ Panel
    BY <1>1, <1>3 DEF Send, UiRuns, Ui
  <2>2. Handed' = Handed /\ Returned' = Returned /\ Panel'
    BY <2>1 DEF Handed, Returned, Panel
  <2> QED BY <2>1, <2>2 DEF TurnsOK
<1>4. CASE SendRefused
  <2>1. /\ ui.sending /\ ~ui'.busy /\ ~ui'.sending /\ ui'.shown = ui.shown /\ UNCHANGED <<scen, work, uiq, wq, gone>> /\ Panel
    BY <1>1, <1>4 DEF SendRefused, UiRuns, Ui
  <2>2. Handed' = Handed /\ Returned' = Returned /\ Panel'
    BY <2>1 DEF Handed, Returned, Panel
  <2> QED BY <2>1, <2>2 DEF TurnsOK
<1>5. CASE SendStart
  <2> DEFINE j == [job |-> "turn", left |-> {}, pid |-> ui.target]
  <2>1. /\ ui.sending /\ ui'.busy = ui.busy /\ ~ui'.sending /\ ui'.shown = ui.shown
        /\ UNCHANGED <<scen, work, uiq, gone>> /\ Panel /\ wq' = Append(wq, j)
    BY <1>1, <1>5 DEF SendStart, UiRuns, Ui
  <2>2. j \in Job /\ j.job = "turn"
    BY <1>1 DEF Job, Ui
  <2> HIDE DEF j
  <2>3. /\ Len(wq') = Len(wq) + 1 /\ wq'[Len(wq) + 1] = j
        /\ \A k \in 1 .. Len(wq) : k \in 1 .. Len(wq') /\ wq'[k] = wq[k]
        /\ \A k \in 1 .. Len(wq') : k \in 1 .. Len(wq) \/ k = Len(wq) + 1
    BY <1>1, <2>1, <2>2, AppendFacts
  <2>4. ui.busy /\ ~Handed /\ ~Returned /\ work.pc = "idle" /\ uiq = <<>>
    BY <1>1, <2>1 DEF TurnsOK
  <2>5. ~Returned' /\ Panel'
    BY <2>1, <2>4 DEF Returned, Panel
  <2>6. \A k \in 1 .. Len(wq') : wq'[k].job = "turn" => k = Len(wq) + 1
    BY <2>3, <2>4 DEF Handed
  <2> QED BY <2>1, <2>4, <2>5, <2>6, PcSets DEF TurnsOK
<1>6. CASE Stop \/ Close
  <2>1. /\ UNCHANGED <<scen, uiq, wq, gone>> /\ work' = Woken
        /\ ui'.busy = ui.busy /\ ui'.sending = ui.sending /\ ui'.shown = ui.shown
    BY <1>1, <1>6 DEF Stop, Close, StopTurn, Ui
  <2> QED BY <1>w, <2>1, TurnsFrame
<1>7. CASE NewChat \/ ChangeSettings \/ CloseSession
  <2>1. /\ UNCHANGED <<scen, uiq, wq, gone, work>>
        /\ ui'.busy = ui.busy /\ ui'.sending = ui.sending /\ ui'.shown = ui.shown
    BY <1>1, <1>7 DEF NewChat, ChangeSettings, CloseSession, Ui
  <2> QED BY <2>1, TurnsFrame
<1>8. ASSUME NEW allow \in BOOLEAN, NEW forChat \in BOOLEAN, Answer(allow, forChat) PROVE TurnsOK'
  <2>1. /\ UNCHANGED <<scen, uiq, wq, gone>> /\ work' \in {work, Woken}
        /\ ui'.busy = ui.busy /\ ui'.sending = ui.sending /\ ui'.shown \in {ui.shown, NoQuestion}
    BY <1>1, <1>8 DEF Answer, AnswerApproval, Ui
  <2> QED BY <1>w, <2>1, TurnsFrame
<1> QED BY <1>2, <1>3, <1>4, <1>5, <1>6, <1>7, <1>8 DEF User, Target

LEMMA TurnsEvent ==
  ASSUME TypeOK, TurnsOK, UiEvent
  PROVE  TurnsOK'
<1> DEFINE e == Head(uiq)
           u == CASE e.event = "show" -> [ui EXCEPT !.shown = e.q]
                  [] e.event = "hide" -> [ui EXCEPT !.shown = NoQuestion]
                  [] e.event = "finish" -> [ui EXCEPT !.busy = FALSE, !.shown = NoQuestion]
<1>1. /\ ui \in Ui /\ uiq \in Seq(Event) /\ wq \in Seq(Job) /\ uiq # <<>>
  BY DEF TypeOK, PanelType, UiEvent
<1>2. e.event \in {"show", "hide", "finish"} /\ e.q \in QuestionType /\ e = uiq[1] /\ 1 \in 1 .. Len(uiq)
  <2>1. e \in Event /\ e = uiq[1] /\ 1 \in 1 .. Len(uiq)
    BY <1>1
  <2> QED BY <2>1 DEF Event
<1>3. /\ ui' = Synced(u) /\ wq' = Sync(u, wq) /\ uiq' = Tail(uiq) /\ Panel /\ UNCHANGED <<scen, work, gone>>
  BY DEF UiEvent, UiRuns
<1> HIDE DEF e
<1>4. /\ u \in Ui /\ u.sending = ui.sending
      /\ e.event = "finish" => ~u.busy /\ u.shown = NoQuestion
      /\ e.event # "finish" => u.busy = ui.busy
  BY <1>1, <1>2, Constants1 DEF Ui
<1> HIDE DEF u
<1>5. ui'.busy = u.busy /\ ui'.sending = u.sending /\ ui'.shown = u.shown
  BY <1>3, <1>4 DEF Synced, Ui
<1>6. /\ \A k \in 1 .. Len(wq) : k \in 1 .. Len(wq') /\ wq'[k] = wq[k]
      /\ \A k \in 1 .. Len(wq') : wq'[k].job = "turn" => k \in 1 .. Len(wq)
  BY <1>1, <1>3, <1>4, SyncAdds
<1>7. /\ Len(uiq') = Len(uiq) - 1
      /\ \A k \in 1 .. Len(uiq') : k + 1 \in 1 .. Len(uiq) /\ uiq'[k] = uiq[k + 1]
      /\ \A k \in 2 .. Len(uiq) : k - 1 \in 1 .. Len(uiq') /\ uiq'[k - 1] = uiq[k]
  BY <1>1, <1>3, TailFacts
<1>8. Handed' = Handed /\ Panel' = Panel
  BY <1>3, <1>6 DEF Handed, Panel
<1>9. ui.busy /\ ~ui.sending
  BY <1>1 DEF TurnsOK
<1>10. CASE e.event = "finish"
  <2>1. Returned /\ work.pc = "idle" /\ ~Handed
    BY <1>2, <1>10 DEF Returned, TurnsOK
  <2>2. Len(uiq) = 1
    <3>1. uiq[Len(uiq)].event = "finish" /\ Len(uiq) \in 1 .. Len(uiq)
      BY <1>1, <2>1 DEF TurnsOK
    <3> QED BY <1>2, <1>10, <3>1 DEF TurnsOK
  <2>3. uiq' = <<>> /\ ~Returned'
    <3>1. uiq' \in Seq(Event) /\ Len(uiq') = 0
      BY <1>1, <1>3, <1>7, <2>2
    <3> QED BY <3>1 DEF Returned
  <2> QED BY <1>3, <1>4, <1>5, <1>6, <1>8, <1>9, <1>10, <2>1, <2>3, PcSets DEF TurnsOK
<1>11. CASE e.event # "finish"
  <2>1. ui'.busy /\ ~ui'.sending
    BY <1>4, <1>5, <1>9, <1>11
  <2>2. Returned' => Returned
    BY <1>7 DEF Returned
  <2>3. Returned' => uiq'[Len(uiq')].event = "finish"
    <3>1. ASSUME Returned' PROVE Len(uiq) \in 2 .. Len(uiq) /\ Len(uiq) - 1 = Len(uiq')
      BY <1>7, <3>1 DEF Returned
    <3> QED BY <1>7, <2>2, <3>1 DEF TurnsOK
  <2>4. \A j, k \in 1 .. Len(uiq') : uiq'[j].event = "finish" /\ uiq'[k].event = "finish" => j = k
    <3> SUFFICES ASSUME NEW j \in 1 .. Len(uiq'), NEW k \in 1 .. Len(uiq'),
                        uiq'[j].event = "finish", uiq'[k].event = "finish"
                 PROVE  j = k
      OBVIOUS
    <3>1. j + 1 = k + 1
      BY <1>7 DEF TurnsOK
    <3> QED BY <3>1
  <2>5. \A j, k \in 1 .. Len(wq') : wq'[j].job = "turn" /\ wq'[k].job = "turn" => j = k
    BY <1>6 DEF TurnsOK
  <2>6. Panel' /\ work'.pc = work.pc /\ (work.pc \in TurnPc => ~Handed' /\ ~Returned') /\ (work.pc \in McpPc => ~Panel)
    BY <1>3, <1>8, <2>2 DEF TurnsOK
  <2>7. (Handed' => work.pc = "idle" /\ ~Returned') /\ (Returned' => work.pc = "idle")
    BY <1>8, <2>2 DEF TurnsOK
  <2> QED BY <1>3, <2>1, <2>3, <2>4, <2>5, <2>6, <2>7 DEF TurnsOK
<1> QED BY <1>10, <1>11

LEMMA TurnsWorker ==
  ASSUME TypeOK, TurnsOK, Worker
  PROVE  TurnsOK'
<1>1. /\ ui \in Ui /\ work \in Work /\ uiq \in Seq(Event) /\ wq \in Seq(Job) /\ work.pc \in {"idle"} \cup TurnPc \cup McpPc
  BY PcType DEF TypeOK, PanelType
<1>n. NextCall.pc = "call" /\ \A pc \in TurnPc : [work EXCEPT !.pc = pc].pc = pc
  BY <1>1 DEF NextCall, Work
<1>q. ASSUME wq # <<>>, wq' = Tail(wq)
      PROVE  /\ Handed' => Handed
             /\ wq[1].job = "turn" /\ Handed => ~Handed'
             /\ \A j, k \in 1 .. Len(wq') : wq'[j].job = "turn" /\ wq'[k].job = "turn" => j = k
  <2>1. /\ 1 \in 1 .. Len(wq) /\ \A k \in 1 .. Len(wq') : k + 1 \in 1 .. Len(wq) /\ wq'[k] = wq[k + 1]
    BY <1>1, <1>q, TailFacts
  <2>2. ASSUME NEW j \in 1 .. Len(wq'), NEW k \in 1 .. Len(wq'), wq'[j].job = "turn", wq'[k].job = "turn"
        PROVE  j = k
    <3>1. j + 1 = k + 1
      BY <2>1, <2>2 DEF TurnsOK
    <3> QED BY <3>1
  <2>3. ASSUME wq[1].job = "turn", NEW k \in 1 .. Len(wq'), wq'[k].job = "turn" PROVE FALSE
    <3>1. k + 1 = 1
      BY <2>1, <2>3 DEF TurnsOK
    <3> QED BY <3>1
  <2> QED BY <2>1, <2>2, <2>3 DEF Handed
<1>2. CASE WorkerSync
  <2>1. wq # <<>> /\ wq' = Tail(wq) /\ UNCHANGED <<scen, ui, work, uiq, gone>>
    BY <1>2 DEF WorkerSync, WorkerRuns
  <2>2. Returned' = Returned /\ Panel' = Panel /\ Panel
    BY <2>1 DEF Returned, Panel, TurnsOK
  <2> QED BY <1>q, <2>1, <2>2 DEF TurnsOK
<1>3. CASE TurnStart
  <2>1. /\ wq # <<>> /\ wq' = Tail(wq) /\ Head(wq).job = "turn" /\ work.pc = "idle"
        /\ work' = [work EXCEPT !.pc = "send"] /\ UNCHANGED <<scen, ui, uiq, gone>>
    BY <1>3 DEF TurnStart, WorkerRuns
  <2>2. work'.pc = "send" /\ Returned' = Returned /\ Panel' = Panel /\ Panel /\ wq[1].job = "turn" /\ Handed
    <3>1. wq[1].job = "turn" /\ 1 \in 1 .. Len(wq)
      BY <1>1, <2>1, TailFacts
    <3> QED BY <1>1, <2>1, <3>1 DEF Returned, Panel, TurnsOK, Work, Handed
  <2>3. "send" \in TurnPc
    BY DEF TurnPc
  <2> QED BY <1>q, <2>1, <2>2, <2>3, PcSets DEF TurnsOK
<1>4. CASE TurnSend \/ Round \/ ReplyFails \/ Reply \/ CallsDone \/ CallSkipped \/ CallStart \/ WaitSleep \/ CallRun \/ CallEnds
  <2>1. UNCHANGED <<scen, ui, uiq, wq>> /\ work.pc \in TurnPc
    BY <1>4 DEF TurnSend, Round, ReplyFails, Reply, CallsDone, CallSkipped, CallStart, WaitSleep, CallRun, CallEnds,
                TurnPc, Calling, Waiting
  <2>2. CASE TurnSend \/ Round \/ ReplyFails \/ Reply \/ CallsDone
    <3>1. work'.pc \in TurnPc
      BY <1>1, <2>2 DEF TurnSend, Round, ReplyFails, Reply, CallsDone, FailTurn, EndTurn, Work, TurnPc, Calling
    <3> QED BY <2>1, <3>1, TurnsFrame DEF TurnsOK
  <2>3. CASE CallSkipped \/ CallStart \/ WaitSleep \/ CallRun \/ CallEnds
    <3>1. work'.pc \in TurnPc
      BY <1>1, <2>3 DEF CallSkipped, CallStart, WaitSleep, CallRun, CallEnds, NextCall, Work, TurnPc, Calling, Waiting
    <3> QED BY <2>1, <3>1, TurnsFrame DEF TurnsOK
  <2> QED BY <1>4, <2>2, <2>3
<1>5. ASSUME NEW e \in Event, uiq' = Append(uiq, e) PROVE
         /\ Len(uiq') = Len(uiq) + 1 /\ uiq'[Len(uiq) + 1] = e /\ Len(uiq) + 1 \in 1 .. Len(uiq')
         /\ \A k \in 1 .. Len(uiq) : k \in 1 .. Len(uiq') /\ uiq'[k] = uiq[k]
         /\ \A k \in 1 .. Len(uiq') : k \in 1 .. Len(uiq) \/ k = Len(uiq) + 1
  <2>1. /\ Len(uiq') = Len(uiq) + 1 /\ uiq'[Len(uiq) + 1] = e
        /\ \A k \in 1 .. Len(uiq) : k \in 1 .. Len(uiq') /\ uiq'[k] = uiq[k]
        /\ \A k \in 1 .. Len(uiq') : k \in 1 .. Len(uiq) \/ k = Len(uiq) + 1
    BY <1>1, <1>5, AppendFacts
  <2> QED BY <2>1
<1>6. CASE Ask \/ WaitTest
  <2>1. /\ UNCHANGED <<scen, ui, wq, gone>> /\ work.pc \in TurnPc
    BY <1>6 DEF Ask, WaitTest, TurnPc, Calling, Waiting
  <2>2. work'.pc \in TurnPc
    BY <1>1, <1>6 DEF Ask, WaitTest, NextCall, Work, TurnPc, Calling, Waiting
  <2>3. CASE uiq' = uiq
    BY <2>1, <2>2, <2>3, TurnsFrame
  <2>4. CASE uiq' # uiq
    <3>1. PICK e \in Event : e.event # "finish" /\ uiq' = Append(uiq, e)
      <4>1. [event |-> "hide", q |-> NoQuestion] \in Event /\ [event |-> "show", q |-> work.q] \in Event
        BY <1>1, Constants1 DEF Event, Work
      <4> QED BY <1>6, <2>4, <4>1 DEF Ask, WaitTest, ToUi
    <3>2. ~Returned /\ ~Handed /\ Panel /\ ui.busy /\ ~ui.sending
      BY <2>1 DEF TurnsOK
    <3>3. ~Returned' /\ Handed' = Handed /\ Panel'
      BY <1>5, <2>1, <3>1, <3>2 DEF Returned, Handed, Panel
    <3>4. \A k \in 1 .. Len(uiq') : uiq'[k].event # "finish"
      BY <3>3 DEF Returned
    <3> QED BY <2>1, <2>2, <3>2, <3>3, <3>4, PcSets DEF TurnsOK
  <2> QED BY <2>3, <2>4
<1>7. CASE TurnFinish
  <2> DEFINE e == [event |-> "finish", q |-> NoQuestion]
  <2>1. /\ UNCHANGED <<scen, ui, wq, gone>> /\ work.pc = "finish" /\ work'.pc = "idle" /\ uiq' = Append(uiq, e)
        /\ e \in Event /\ e.event = "finish"
    BY <1>1, <1>7, Constants1 DEF TurnFinish, ToUi, Work, Event
  <2> HIDE DEF e
  <2>2. /\ Len(uiq') = Len(uiq) + 1 /\ uiq'[Len(uiq) + 1] = e /\ Len(uiq) + 1 \in 1 .. Len(uiq')
        /\ \A k \in 1 .. Len(uiq) : k \in 1 .. Len(uiq') /\ uiq'[k] = uiq[k]
        /\ \A k \in 1 .. Len(uiq') : k \in 1 .. Len(uiq) \/ k = Len(uiq) + 1
    BY <1>5, <2>1
  <2>3. ~Returned /\ ~Handed /\ Panel /\ ui.busy /\ ~ui.sending
    BY <2>1 DEF TurnsOK, TurnPc
  <2>4. Handed' = Handed /\ Panel' /\ uiq'[Len(uiq')].event = "finish"
    BY <2>1, <2>2, <2>3 DEF Handed, Panel
  <2>5. \A k \in 1 .. Len(uiq') : uiq'[k].event = "finish" => k = Len(uiq) + 1
    BY <2>2, <2>3 DEF Returned
  <2> QED BY <2>1, <2>3, <2>4, <2>5, PcSets DEF TurnsOK
<1> QED BY <1>2, <1>3, <1>4, <1>6, <1>7 DEF Worker

LEMMA TurnsStep ==
  ASSUME TypeOK, TurnsOK, Next
  PROVE  TurnsOK'
<1>1. ui \in Ui /\ work \in Work
  BY DEF TypeOK, PanelType
<1>2. CASE McpCall \/ McpRun \/ McpEnds
  <2>1. /\ UNCHANGED <<scen, ui, uiq, wq, gone>> /\ ~Panel
    BY <1>2 DEF McpCall, McpRun, McpEnds, Panel, TurnsOK, McpPc
  <2>2. work'.pc \in McpPc \cup {"idle"}
    BY <1>1, <1>2 DEF McpCall, McpRun, McpEnds, McpPc, Work
  <2> QED BY <2>1, <2>2, TurnsFrame
<1>3. CASE McpQuit
  <2>1. /\ UNCHANGED <<scen, uiq, wq, gone, work>> /\ ui'.busy = ui.busy /\ ui'.sending = ui.sending /\ ui'.shown = ui.shown
    BY <1>1, <1>3 DEF McpQuit, Ui
  <2> QED BY <2>1, TurnsFrame
<1>4. CASE FreezerStep \/ World
  <2>1. UNCHANGED <<scen, ui, uiq, wq, gone, work>>
    BY <1>4 DEF FreezerStep, World, panelVars
  <2> QED BY <2>1, TurnsFrame
<1> QED BY <1>2, <1>3, <1>4, TurnsUser, TurnsEvent, TurnsWorker DEF Next

(***************************************************************************)
(* The question on the screen is the one the worker asks.                  *)
(***************************************************************************)
LEMMA QuestionsFrame ==
  ASSUME QuestionsOK, uiq' = uiq, ui'.shown = ui.shown, ask'.waiting = ask.waiting, ask'.answer = ask.answer,
         ask'.grant = ask.grant, ask.stopping => ask'.stopping,
         work'.pc \in Waiting <=> work.pc \in Waiting, work.pc \in Waiting => work'.q = work.q
  PROVE  QuestionsOK'
<1>1. Shows' = Shows
  BY DEF Shows
<1>2. Cleared' <=> Cleared
  BY <1>1 DEF Cleared
<1> QED BY <1>1, <1>2 DEF QuestionsOK

LEMMA QuestionsUser ==
  ASSUME TypeOK, TurnsOK, QuestionsOK, User \/ SendStart \/ CloseSession \/ McpQuit
  PROVE  QuestionsOK'
<1>1. /\ ui \in Ui /\ work \in Work /\ ask \in Approval /\ uiq \in Seq(Event) /\ wq \in Seq(Job)
  BY DEF TypeOK, PanelType
<1>w. /\ Woken.pc \in Waiting <=> work.pc \in Waiting
      /\ Woken.q = work.q
  BY <1>1 DEF Woken, Work, Waiting
<1>2. ASSUME NEW p \in Target, SetTarget(p) PROVE QuestionsOK'
  <2>1. UNCHANGED <<uiq, ask, work>>
    BY <1>2 DEF SetTarget
  <2>2. ui'.shown = ui.shown
    BY <1>1, <1>2 DEF SetTarget, Synced, Ui
  <2> QED BY <2>1, <2>2, QuestionsFrame
<1>3. CASE Send \/ SendRefused \/ NewChat \/ ChangeSettings \/ CloseSession \/ McpQuit
  <2>1. UNCHANGED <<uiq, ask, work>>
    BY <1>3 DEF Send, SendRefused, NewChat, ChangeSettings, CloseSession, McpQuit
  <2>2. ui'.shown = ui.shown
    BY <1>1, <1>3 DEF Send, SendRefused, NewChat, ChangeSettings, CloseSession, McpQuit, Ui
  <2> QED BY <2>1, <2>2, QuestionsFrame
<1>4. CASE SendStart
  <2>1. /\ ui.sending /\ UNCHANGED <<uiq, work>> /\ ui'.shown = ui.shown /\ ask'.waiting = ask.waiting
    BY <1>1, <1>4 DEF SendStart, Ui, Approval
  <2>2. uiq = <<>> /\ ui.shown = NoQuestion /\ work.pc \notin Waiting
    BY <2>1, PcSets DEF TurnsOK
  <2>3. Shows' = {}
    BY <2>1, <2>2 DEF Shows
  <2> QED BY <2>1, <2>2, <2>3 DEF QuestionsOK, Cleared
<1>5. CASE Stop \/ Close
  <2>1. uiq' = uiq /\ work' = Woken /\ ui'.shown = ui.shown
    BY <1>1, <1>5 DEF Stop, Close, StopTurn, Ui
  <2>2. ask'.waiting = ask.waiting /\ ask'.answer = ask.answer /\ ask'.grant = ask.grant /\ ask'.stopping
    BY <1>1, <1>5 DEF Stop, Close, StopTurn, Approval
  <2> QED BY <1>w, <2>1, <2>2, QuestionsFrame
<1>6. ASSUME NEW allow \in BOOLEAN, NEW forChat \in BOOLEAN, Answer(allow, forChat) PROVE QuestionsOK'
  <2>1. uiq' = uiq /\ ui.shown # NoQuestion
    BY <1>6 DEF Answer
  <2>2. CASE ask.waiting
    <3>1. /\ ui'.shown = NoQuestion /\ work' = Woken
          /\ ask'.waiting = ask.waiting /\ ask'.grant = ask.grant /\ ask'.stopping = ask.stopping
      BY <1>1, <1>6, <2>2 DEF Answer, AnswerApproval, Ui, Approval
    <3>2. Shows = {} /\ Shows' = {}
      BY <2>1, <2>2 DEF QuestionsOK, Shows
    <3> QED BY <1>w, <2>1, <2>2, <3>1, <3>2 DEF QuestionsOK, Cleared
  <2>3. CASE ~ask.waiting
    <3>1. ui'.shown = ui.shown /\ UNCHANGED <<ask, work>>
      BY <1>1, <1>6, <2>3 DEF Answer, AnswerApproval, Ui
    <3> QED BY <2>1, <3>1, QuestionsFrame
  <2> QED BY <2>2, <2>3
<1> QED BY <1>2, <1>3, <1>4, <1>5, <1>6 DEF User, Target

LEMMA QuestionsEvent ==
  ASSUME TypeOK, QuestionsOK, UiEvent
  PROVE  QuestionsOK'
<1> DEFINE e == Head(uiq)
<1>1. /\ ui \in Ui /\ uiq \in Seq(Event) /\ uiq # <<>> /\ uiq' = Tail(uiq) /\ UNCHANGED <<ask, work>>
  BY DEF TypeOK, PanelType, UiEvent
<1>2. e.event \in {"show", "hide", "finish"} /\ e = uiq[1] /\ 1 \in 1 .. Len(uiq)
  <2>1. e \in Event /\ e = uiq[1] /\ 1 \in 1 .. Len(uiq)
    BY <1>1
  <2> QED BY <2>1 DEF Event
<1>3. ui'.shown = IF e.event = "show" THEN e.q ELSE NoQuestion
  BY <1>1, <1>2 DEF UiEvent, Synced, Ui
<1> HIDE DEF e
<1>4. /\ Len(uiq') = Len(uiq) - 1
      /\ \A k \in 1 .. Len(uiq') : k + 1 \in 1 .. Len(uiq) /\ uiq'[k] = uiq[k + 1]
  BY <1>1, TailFacts
<1>5. \A k \in Shows' : k \in Nat /\ k + 1 \in Shows /\ uiq'[k] = uiq[k + 1] /\ k + 1 # 1
  BY <1>4 DEF Shows
<1>6. \A j, k \in Shows' : j = k
  <2> SUFFICES ASSUME NEW j \in Shows', NEW k \in Shows' PROVE j = k
    OBVIOUS
  <2>1. j + 1 = k + 1 /\ j \in Nat /\ k \in Nat
    BY <1>5 DEF QuestionsOK
  <2> QED BY <2>1
<1>7. CASE e.event = "show"
  <2>1. 1 \in Shows
    BY <1>2, <1>7 DEF Shows
  <2>2. Shows' = {}
    BY <1>5, <2>1 DEF QuestionsOK
  <2>3. Shows # {} /\ (ask.waiting => e.q = work.q)
    BY <1>2, <2>1 DEF QuestionsOK
  <2> QED BY <1>1, <1>3, <1>6, <1>7, <2>2, <2>3 DEF QuestionsOK, Cleared
<1>8. CASE e.event # "show"
  <2>1. ui'.shown = NoQuestion /\ (Shows = {} => Shows' = {})
    BY <1>3, <1>5, <1>8
  <2>2. ask.waiting => \A k \in Shows' : uiq'[k].q = work.q
    BY <1>5 DEF QuestionsOK
  <2> QED BY <1>1, <1>6, <2>1, <2>2 DEF QuestionsOK, Cleared
<1> QED BY <1>7, <1>8

LEMMA QuestionsWorker ==
  ASSUME TypeOK, QuestionsOK, Worker
  PROVE  QuestionsOK'
<1>1. /\ ui \in Ui /\ work \in Work /\ ask \in Approval /\ uiq \in Seq(Event) /\ wq \in Seq(Job)
  BY DEF TypeOK, PanelType
<1>2. CASE WorkerSync \/ TurnStart \/ TurnSend \/ Round \/ ReplyFails \/ Reply \/ CallsDone \/ CallSkipped \/ CallStart
           \/ CallRun \/ CallEnds
  <2>1. UNCHANGED <<ui, uiq, ask>>
    BY <1>2 DEF WorkerSync, TurnStart, TurnSend, Round, ReplyFails, Reply, CallsDone, CallSkipped, CallStart,
                CallRun, CallEnds
  <2>2. work.pc \notin Waiting
    BY <1>2 DEF WorkerSync, WorkerRuns, TurnStart, TurnSend, Round, ReplyFails, Reply, CallsDone, CallSkipped, CallStart,
                CallRun, CallEnds, Waiting
  <2>3. CASE WorkerSync \/ TurnStart \/ TurnSend \/ Round \/ ReplyFails \/ Reply
    <3>1. work'.pc \notin Waiting
      BY <1>1, <2>2, <2>3 DEF WorkerSync, TurnStart, TurnSend, Round, ReplyFails, Reply, FailTurn, EndTurn, Work, Waiting
    <3> QED BY <2>1, <2>2, <3>1, QuestionsFrame
  <2>4. CASE CallsDone \/ CallSkipped \/ CallStart \/ CallRun \/ CallEnds
    <3>1. work'.pc \notin Waiting
      BY <1>1, <2>4 DEF CallsDone, CallSkipped, CallStart, CallRun, CallEnds, NextCall, EndTurn, Work, Waiting
    <3> QED BY <2>1, <2>2, <3>1, QuestionsFrame
  <2> QED BY <1>2, <2>3, <2>4
<1>3. CASE WaitSleep
  <2>1. UNCHANGED <<ui, uiq, ask>> /\ work'.pc \in Waiting /\ work.pc \in Waiting /\ work'.q = work.q
    BY <1>1, <1>3 DEF WaitSleep, Work, Waiting
  <2> QED BY <2>1, QuestionsFrame
<1>5. ASSUME NEW e \in Event, uiq' = Append(uiq, e) PROVE
         /\ uiq'[Len(uiq) + 1] = e
         /\ e.event # "show" => Shows' = Shows
         /\ e.event = "show" => Shows' = Shows \cup {Len(uiq) + 1}
         /\ \A k \in Shows : uiq'[k] = uiq[k]
  <2>1. /\ Len(uiq') = Len(uiq) + 1 /\ uiq'[Len(uiq) + 1] = e
        /\ \A k \in 1 .. Len(uiq) : k \in 1 .. Len(uiq') /\ uiq'[k] = uiq[k]
        /\ \A k \in 1 .. Len(uiq') : k \in 1 .. Len(uiq) \/ k = Len(uiq) + 1
    BY <1>1, <1>5, AppendFacts
  <2>2. Len(uiq) + 1 \in 1 .. Len(uiq')
    BY <2>1
  <2> QED BY <2>1, <2>2 DEF Shows
<1>6. CASE Ask
  <2>0. work.pc = "ask" /\ work.pc \notin Waiting
    BY <1>6 DEF Ask, Waiting
  <2>1. CASE ask.stopping
    <3>1. UNCHANGED <<ui, uiq, ask>> /\ work' = NextCall /\ work'.pc \notin Waiting
      BY <1>1, <1>6, <2>1 DEF Ask, NextCall, Work, Waiting
    <3> QED BY <2>0, <3>1, QuestionsFrame
  <2>2. CASE ~ask.stopping
    <3> DEFINE e == [event |-> "show", q |-> work.q]
    <3>1. /\ ui' = ui /\ uiq' = Append(uiq, e) /\ e \in Event /\ e.event = "show" /\ e.q = work.q
      BY <1>1, <1>6, <2>2 DEF Ask, ToUi, Event, Work
    <3>2. ask'.waiting /\ ask'.answer = "none" /\ ask'.grant = work.q.grant
      BY <1>1, <1>6, <2>2 DEF Ask, Approval
    <3>3. work'.pc = "asked" /\ work'.q = work.q /\ work'.pc \in Waiting
      BY <1>1, <1>6, <2>2 DEF Ask, Work, Waiting
    <3> HIDE DEF e
    <3>4. Cleared
      BY <2>0, <2>2 DEF QuestionsOK
    <3>5. Shows' = {Len(uiq) + 1} /\ uiq'[Len(uiq) + 1] = e
      BY <1>5, <3>1, <3>4 DEF Cleared
    <3> QED BY <3>1, <3>2, <3>3, <3>4, <3>5 DEF QuestionsOK, Cleared
  <2> QED BY <2>1, <2>2
<1>7. CASE WaitTest
  <2>0. work.pc \in Waiting /\ ask.waiting
    BY <1>7 DEF WaitTest, Waiting, QuestionsOK
  <2>1. CASE ask.answer # "none" \/ ask.stopping
    <3> DEFINE e == [event |-> "hide", q |-> NoQuestion]
    <3>1. /\ ui' = ui /\ uiq' = Append(uiq, e) /\ e \in Event /\ e.event # "show"
      BY <1>1, <1>7, <2>1, Constants1 DEF WaitTest, ToUi, Event
    <3>2. ~ask'.waiting /\ ask'.stopping = ask.stopping
      BY <1>1, <1>7, <2>1 DEF WaitTest, Approval
    <3>3. work'.pc \notin Waiting
      BY <1>1, <1>7, <2>1 DEF WaitTest, NextCall, Work, Waiting
    <3> HIDE DEF e
    <3>4. Shows' = Shows
      BY <1>5, <3>1
    <3>5. ask.answer # "none" => Cleared
      BY <2>0 DEF QuestionsOK
    <3> QED BY <2>1, <3>1, <3>2, <3>3, <3>4, <3>5 DEF QuestionsOK, Cleared
  <2>2. CASE ~(ask.answer # "none" \/ ask.stopping)
    <3>1. UNCHANGED <<ui, uiq, ask>> /\ work'.pc \in Waiting /\ work'.q = work.q
      BY <1>1, <1>7, <2>2 DEF WaitTest, Work, Waiting
    <3> QED BY <2>0, <3>1, QuestionsFrame
  <2> QED BY <2>1, <2>2
<1>8. CASE TurnFinish
  <2> DEFINE e == [event |-> "finish", q |-> NoQuestion]
  <2>1. /\ UNCHANGED <<ui, ask>> /\ work.pc \notin Waiting /\ work'.pc \notin Waiting /\ uiq' = Append(uiq, e)
        /\ e \in Event /\ e.event # "show"
    BY <1>1, <1>8, Constants1 DEF TurnFinish, ToUi, Work, Event, Waiting
  <2> HIDE DEF e
  <2>2. Shows' = Shows
    BY <1>5, <2>1
  <2> QED BY <2>1, <2>2 DEF QuestionsOK, Cleared
<1> QED BY <1>2, <1>3, <1>6, <1>7, <1>8 DEF Worker

LEMMA QuestionsStep ==
  ASSUME TypeOK, TurnsOK, QuestionsOK, Next
  PROVE  QuestionsOK'
<1>1. work \in Work
  BY DEF TypeOK, PanelType
<1>2. CASE McpCall \/ McpRun \/ McpEnds
  <2>1. UNCHANGED <<ui, uiq, ask>> /\ work.pc \notin Waiting
    BY <1>2 DEF McpCall, McpRun, McpEnds, Waiting
  <2>2. work'.pc \notin Waiting
    BY <1>1, <1>2 DEF McpCall, McpRun, McpEnds, Waiting, Work
  <2> QED BY <2>1, <2>2, QuestionsFrame
<1>4. CASE FreezerStep \/ World
  <2>1. UNCHANGED <<ui, uiq, ask, work>>
    BY <1>4 DEF FreezerStep, World, panelVars
  <2> QED BY <2>1, QuestionsFrame
<1> QED BY <1>2, <1>4, QuestionsUser, QuestionsEvent, QuestionsWorker DEF Next

(***************************************************************************)
(* What runs was allowed.                                                  *)
(***************************************************************************)
\* Frozen values may be written to the session's process.
FrozenAllowed == \A k \in 1 .. Len(sess.records) : sess.records[k].frozen => Mandate(sess.proc, sess.records[k].val)

\* The conjuncts about the call in progress.
CallOK ==
  /\ work.pc \in InCalls \cup {"mcpwork"} => work.i <= Len(work.calls)
  /\ work.pc \in {"ask"} \cup Waiting => NeedsApproval(Current) /\ work.q = Question(Current)
  /\ work.pc \in Waiting /\ ask.answer = "yes" => <<work.q.pid, work.q.id>> \in consent
  /\ work.pc = "run" /\ NeedsApproval(Current) /\ Current.tool # "attach" => <<sess.proc, Current.id>> \in consent
  /\ work.pc \in {"working", "mcpwork"} => sess.proc # None
  /\ \A k \in 1 .. Len(work.calls) : work.calls[k].tool = "attach" => work.calls[k].arg \in Pids

GrantOK == ui.allowPid # None => ui.allowPid \in grant

LEMMA ConsentParts == ConsentOK <=> CallOK /\ GrantOK /\ FrozenAllowed /\ sess.allow = scen.allow
BY DEF ConsentOK, CallOK, GrantOK, FrozenAllowed

\* An earlier permission stays one.
LEMMA MandateKept ==
  ASSUME scen' = scen, consent \subseteq consent', NEW p, NEW id, Mandate(p, id)
  PROVE  Mandate(p, id)'
BY DEF Mandate, Panel

LEMMA FrozenFrame ==
  ASSUME FrozenAllowed, scen' = scen, consent \subseteq consent',
         \/ sess'.proc = sess.proc /\ sess'.records = sess.records
         \/ sess'.records = <<>>
  PROVE  FrozenAllowed'
<1>1. CASE sess'.records = <<>>
  BY <1>1 DEF FrozenAllowed
<1>2. CASE sess'.proc = sess.proc /\ sess'.records = sess.records
  <2> SUFFICES ASSUME NEW k \in 1 .. Len(sess.records), sess.records[k].frozen
               PROVE  Mandate(sess.proc, sess.records[k].val)'
    BY <1>2 DEF FrozenAllowed
  <2>1. Mandate(sess.proc, sess.records[k].val)
    BY DEF FrozenAllowed
  <2>2. Mandate(sess.proc, sess.records[k].val) => (IF Panel THEN <<sess.proc, sess.records[k].val>> \in consent' ELSE scen'.allow)
    BY DEF Mandate, Panel
  <2> QED BY <1>2, <2>1, <2>2 DEF Mandate, Panel
<1> QED BY <1>1, <1>2

\* Steps of the call leave the worker's call as it is; the answer may turn to "yes" with the user's consent.
LEMMA CallFrame ==
  ASSUME TypeOK, CallOK, sess'.proc = sess.proc, consent \subseteq consent',
         work'.calls = work.calls, work'.i = work.i, work'.q = work.q,
         \/ work'.pc = work.pc
         \/ work.pc \in Waiting /\ work'.pc \in Waiting,
         \/ ask'.answer = ask.answer
         \/ ask'.answer = "yes" => <<work.q.pid, work.q.id>> \in consent'
  PROVE  CallOK'
<1>1. Current' = Current /\ Question(Current)' = Question(Current)
  BY DEF Current, Question, GrantFor
<1>2. NeedsApproval(Current)' <=> NeedsApproval(Current)
  BY <1>1 DEF NeedsApproval
<1>3. Waiting \cap {"run", "ask", "working", "mcpwork"} = {} /\ Waiting \subseteq InCalls
  BY DEF Waiting, InCalls, Calling
<1> QED BY <1>1, <1>2, <1>3 DEF CallOK

\* Between calls nothing is asked.
LEMMA CallNone ==
  ASSUME work'.pc \notin InCalls \cup {"mcpwork"}, work'.calls \in {work.calls, <<>>}, CallOK
  PROVE  CallOK'
<1>1. /\ work'.pc \notin {"ask"} \cup Waiting /\ work'.pc # "run" /\ work'.pc \notin {"working", "mcpwork"}
  BY DEF InCalls, Calling, Waiting
<1>2. \A k \in 1 .. Len(work'.calls) : work'.calls[k].tool = "attach" => work'.calls[k].arg \in Pids
  BY DEF CallOK
<1> QED BY <1>1, <1>2 DEF CallOK

LEMMA ConsentUser ==
  ASSUME TypeOK, QuestionsOK, ConsentOK, User \/ SendStart \/ UiEvent
  PROVE  ConsentOK'
<1>1. /\ ui \in Ui /\ work \in Work /\ ask \in Approval /\ chat \in TalkType
  BY DEF TypeOK, PanelType
<1>0. CallOK /\ GrantOK /\ FrozenAllowed /\ sess.allow = scen.allow
  BY ConsentParts
<1>w. /\ Woken.pc = work.pc \/ (work.pc \in Waiting /\ Woken.pc \in Waiting)
      /\ Woken.q = work.q /\ Woken.calls = work.calls /\ Woken.i = work.i
  BY <1>1 DEF Woken, Work, Waiting
<1>2. UNCHANGED <<scen, sess>>
  BY DEF User, SendStart, UiEvent, SetTarget, Send, SendRefused, Stop, NewChat, ChangeSettings, Close, Answer, sessionVars
<1>3. consent \subseteq consent'
  BY DEF User, SendStart, UiEvent, SetTarget, Send, SendRefused, Stop, NewChat, ChangeSettings, Close, Answer
<1>4. FrozenAllowed' /\ sess'.allow = scen'.allow
  BY <1>0, <1>2, <1>3, FrozenFrame
<1>5. ASSUME NEW p \in Target, SetTarget(p) PROVE CallOK' /\ GrantOK'
  <2>1. UNCHANGED <<ask, work>> /\ ui'.allowPid = None
    BY <1>1, <1>5 DEF SetTarget, Synced, Ui
  <2> QED BY <1>0, <1>2, <1>3, <2>1, CallFrame DEF GrantOK
<1>6. ASSUME Send \/ SendRefused \/ NewChat \/ ChangeSettings \/ SendStart PROVE CallOK' /\ GrantOK'
  <2>1. work' = work /\ ask'.answer = ask.answer
    BY <1>1, <1>6 DEF Send, SendRefused, NewChat, ChangeSettings, SendStart, Approval
  <2>2. ui'.allowPid = None \/ (ui'.allowPid = ui.allowPid /\ grant' = grant)
    BY <1>1, <1>6 DEF Send, SendRefused, NewChat, ChangeSettings, SendStart, Ui
  <2> QED BY <1>0, <1>2, <1>3, <2>1, <2>2, CallFrame DEF GrantOK
<1>7. ASSUME Stop \/ Close PROVE CallOK' /\ GrantOK'
  <2>1. work' = Woken /\ ask'.answer = ask.answer /\ ui'.allowPid = ui.allowPid /\ grant' = grant
    BY <1>1, <1>7 DEF Stop, Close, StopTurn, Ui, Approval
  <2> QED BY <1>0, <1>2, <1>3, <1>w, <2>1, CallFrame DEF GrantOK
<1>8. ASSUME UiEvent PROVE CallOK' /\ GrantOK'
  <2>1. UNCHANGED <<ask, work, grant>>
    BY <1>8 DEF UiEvent
  <2>2. ui'.allowPid = ui.allowPid
    <3>1. uiq \in Seq(Event) /\ uiq # <<>>
      BY <1>8 DEF UiEvent, TypeOK, PanelType
    <3>2. Head(uiq) \in Event
      BY <3>1
    <3>3. Head(uiq).event \in {"show", "hide", "finish"}
      BY <3>2 DEF Event
    <3> QED BY <1>1, <1>8, <3>3 DEF UiEvent, Synced, Ui
  <2> QED BY <1>0, <1>2, <1>3, <2>1, <2>2, CallFrame DEF GrantOK
<1>9. ASSUME NEW allow \in BOOLEAN, NEW forChat \in BOOLEAN, Answer(allow, forChat) PROVE CallOK' /\ GrantOK'
  <2>1. ui.shown # NoQuestion /\ (forChat => allow)
    BY <1>9 DEF Answer
  <2>2. CASE ask.waiting
    <3>1. ui.shown = work.q /\ ask.grant = work.q.grant
      BY <2>1, <2>2 DEF QuestionsOK
    <3>2. work' = Woken /\ ask'.answer = (IF allow THEN "yes" ELSE "no")
      BY <1>1, <1>9, <2>2 DEF Answer, AnswerApproval, Approval
    <3>3. allow => <<work.q.pid, work.q.id>> \in consent'
      BY <1>9, <3>1 DEF Answer
    <3>4. CallOK'
      BY <1>0, <1>2, <1>3, <1>w, <3>2, <3>3, CallFrame
    <3>5. /\ ui'.allowPid = IF allow /\ forChat /\ ask.grant # None THEN ask.grant ELSE ui.allowPid
          /\ grant \subseteq grant' /\ (forChat => ui.shown.grant \in grant')
      BY <1>1, <1>9, <2>2 DEF Answer, AnswerApproval, Ui
    <3> QED BY <1>0, <3>1, <3>4, <3>5 DEF GrantOK
  <2>3. CASE ~ask.waiting
    <3>1. UNCHANGED <<ask, work>> /\ ui'.allowPid = ui.allowPid /\ grant \subseteq grant'
      BY <1>1, <1>9, <2>3 DEF Answer, AnswerApproval, Ui
    <3> QED BY <1>0, <1>2, <1>3, <3>1, CallFrame DEF GrantOK
  <2> QED BY <2>2, <2>3
<1>10. CallOK' /\ GrantOK'
  BY <1>5, <1>6, <1>7, <1>8, <1>9 DEF User, Target
<1>11. ConsentOK' <=> (CallOK' /\ GrantOK' /\ FrozenAllowed' /\ sess'.allow = scen'.allow)
  BY DEF ConsentOK, CallOK, GrantOK, FrozenAllowed
<1> QED BY <1>4, <1>10, <1>11

\* The session's part of a call that was allowed.
LEMMA FrozenByCall ==
  ASSUME FrozenAllowed, scen' = scen, consent' = consent, NEW c, Freezes(c), Stays,
         MayChange(c) => Mandate(sess.proc, c.id)
  PROVE  FrozenAllowed'
<1> SUFFICES ASSUME NEW k \in 1 .. Len(sess'.records), sess'.records[k].frozen
             PROVE  Mandate(sess.proc, sess'.records[k].val)
  BY DEF FrozenAllowed, Stays, Mandate, Panel
<1>1. CASE MayChange(c) /\ sess'.records[k].val = c.id
  BY <1>1
<1>2. CASE \E j \in 1 .. Len(sess.records) : sess.records[j].frozen /\ sess.records[j].val = sess'.records[k].val
  BY <1>2 DEF FrozenAllowed
<1> QED BY <1>1, <1>2 DEF Freezes

LEMMA ConsentWorker ==
  ASSUME TypeOK, TurnsOK, QuestionsOK, KeptOK, ConsentOK, Worker
  PROVE  ConsentOK'
<1>1. /\ ui \in Ui /\ work \in Work /\ ask \in Approval /\ uiq \in Seq(Event) /\ wq \in Seq(Job) /\ SessionType
      /\ scen \in Scenarios /\ calls \in Nat
  BY DEF TypeOK, PanelType
<1>0. CallOK /\ GrantOK /\ FrozenAllowed /\ sess.allow = scen.allow
  BY ConsentParts
<1>2. UNCHANGED <<scen, ui, grant>> /\ GrantOK'
  <2>1. UNCHANGED <<scen, ui, grant>>
    BY DEF Worker, TurnSend, Round, ReplyFails, Reply, CallsDone, CallSkipped, CallStart, Ask,
           WaitTest, WaitSleep, TurnFinish, WorkerSync, TurnStart, CallRun, CallEnds
  <2> QED BY <1>0, <2>1 DEF GrantOK
<1>3. ConsentOK' <=> (CallOK' /\ GrantOK' /\ FrozenAllowed' /\ sess'.allow = scen'.allow)
  BY DEF ConsentOK, CallOK, GrantOK, FrozenAllowed
<1>n. NextCall.pc = "call" /\ NextCall.calls = work.calls /\ "call" \notin InCalls \cup {"mcpwork"}
  BY <1>1 DEF NextCall, Work, InCalls, Waiting, Calling
<1>4. CASE WorkerSync
  <2>1. UNCHANGED <<work, ask, consent>> /\ work.pc = "idle" /\ (Detach \/ UNCHANGED sessionVars)
    BY <1>4 DEF WorkerSync, WorkerRuns
  <2>2. /\ sess'.allow = sess.allow
        /\ (sess'.proc = sess.proc /\ sess'.records = sess.records) \/ sess'.records = <<>>
    BY <1>1, <2>1, DetachKeeps DEF sessionVars
  <2>3. CallOK'
    BY <1>0, <2>1, CallNone DEF InCalls, Waiting, Calling
  <2> QED BY <1>0, <1>2, <1>3, <2>1, <2>2, <2>3, FrozenFrame
<1>5. CASE TurnStart
  <2>1. /\ UNCHANGED <<ask, consent>> /\ work'.pc = "send" /\ work'.calls = work.calls
        /\ (Head(wq).pid # None /\ Attach(Head(wq).pid)) \/ UNCHANGED sessionVars
        /\ wq # <<>>
    BY <1>1, <1>5 DEF TurnStart, WorkerRuns, Work
  <2>2. /\ sess'.allow = sess.allow
        /\ (sess'.proc = sess.proc /\ sess'.records = sess.records) \/ sess'.records = <<>>
    <3>1. CASE UNCHANGED sessionVars
      BY <3>1 DEF sessionVars
    <3>2. CASE Head(wq).pid # None /\ Attach(Head(wq).pid)
      <4>1. Head(wq) \in Job
        BY <1>1, <2>1
      <4>2. Head(wq).pid \in Pids
        BY <3>2, <4>1 DEF Job, Target
      <4> QED BY <1>1, <3>2, <4>2, AttachKeeps
    <3> QED BY <2>1, <3>1, <3>2
  <2>3. CallOK'
    BY <1>0, <2>1, CallNone DEF InCalls, Waiting, Calling
  <2> QED BY <1>0, <1>2, <1>3, <2>1, <2>2, <2>3, FrozenFrame
<1>6. CASE TurnSend \/ Round \/ ReplyFails \/ CallsDone \/ CallSkipped \/ TurnFinish
  <2>1. UNCHANGED <<consent, sess>>
    BY <1>6 DEF TurnSend, Round, ReplyFails, CallsDone, CallSkipped, TurnFinish, sessionVars
  <2>2. work'.pc \notin InCalls \cup {"mcpwork"} /\ work'.calls \in {work.calls, <<>>}
    BY <1>1, <1>6 DEF TurnSend, Round, ReplyFails, CallsDone, CallSkipped, TurnFinish, FailTurn, EndTurn, NextCall,
                      Work, InCalls, Calling, Waiting
  <2>3. CallOK'
    BY <1>0, <2>2, CallNone
  <2> QED BY <1>0, <1>2, <1>3, <2>1, <2>3, FrozenFrame
<1>7. CASE Reply
  <2>1. UNCHANGED <<consent, sess>>
    BY <1>7 DEF Reply, sessionVars
  <2>2. CallOK'
    <3>1. CASE \E m : EndTurn(m, TRUE)
      <4>1. work'.pc = "finish" /\ work'.calls = work.calls
        BY <1>1, <3>1 DEF EndTurn, Work
      <4> QED BY <1>0, <4>1, CallNone DEF InCalls, Calling, Waiting
    <3>2. CASE \E reply \in scen.replies : work' = [work EXCEPT !.pc = "call", !.calls = Numbered(reply), !.i = 1]
      <4>1. PICK reply \in scen.replies : work' = [work EXCEPT !.pc = "call", !.calls = Numbered(reply), !.i = 1]
        BY <3>2
      <4>2. work'.pc = "call" /\ work'.calls = Numbered(reply)
        BY <1>1, <4>1 DEF Work
      <4>3. \A k \in 1 .. Len(Numbered(reply)) :
              Numbered(reply)[k].tool = "attach" => Numbered(reply)[k].arg \in Pids
        BY <1>1, ReplyOfScenario, NumberedType
      <4>4. "call" \notin InCalls \cup {"mcpwork", "ask", "run", "working"} \cup Waiting
        BY DEF InCalls, Calling, Waiting
      <4> QED BY <4>2, <4>3, <4>4 DEF CallOK
    <3> QED BY <1>7, <3>1, <3>2 DEF Reply
  <2> QED BY <1>0, <1>2, <1>3, <2>1, <2>2, FrozenFrame
<1>8. CASE CallStart
  <2>1. UNCHANGED <<sess, ask>> /\ consent \subseteq consent'
    BY <1>8 DEF CallStart, sessionVars
  <2>2. work.i <= Len(work.calls)
    BY <1>8 DEF CallStart
  <2>3. CASE NeedsApproval(Current) /\ ~AlreadyAllowed(Current)
    <3>1. work'.pc = "ask" /\ work'.q = Question(Current) /\ work'.calls = work.calls /\ work'.i = work.i
      BY <1>1, <1>8, <2>3 DEF CallStart, Work
    <3>2. Current' = Current /\ Question(Current)' = Question(Current)
      BY <2>1, <3>1 DEF Current, Question, GrantFor
    <3>3. NeedsApproval(Current)'
      BY <2>3, <3>2 DEF NeedsApproval
    <3>4. "ask" \notin Waiting
      BY DEF Waiting
    <3>5. CallOK'
      BY <1>0, <2>2, <3>1, <3>2, <3>3, <3>4 DEF CallOK
    <3> QED BY <1>0, <1>2, <1>3, <2>1, <3>5, FrozenFrame
  <2>4. CASE ~(NeedsApproval(Current) /\ ~AlreadyAllowed(Current))
    <3>1. work'.pc = "run" /\ work'.calls = work.calls /\ work'.i = work.i
      BY <1>1, <1>8, <2>4 DEF CallStart, Work
    <3>2. Current' = Current
      BY <3>1 DEF Current
    <3>3. NeedsApproval(Current)' <=> NeedsApproval(Current)
      BY <3>2 DEF NeedsApproval
    <3>4. ASSUME NeedsApproval(Current), Current.tool # "attach"
          PROVE  <<sess.proc, Current.id>> \in consent'
      <4>1. GrantFor(Current) # None /\ ui.allowPid = GrantFor(Current)
        BY <2>4, <3>4 DEF AlreadyAllowed
      <4>2. Question(Current).grant \in grant
        BY <1>0, <4>1 DEF GrantOK, Question
      <4>3. Question(Current).pid = sess.proc
        BY <3>4 DEF Question
      <4> QED BY <1>8, <2>4, <3>4, <4>2, <4>3 DEF CallStart
    <3>5. "run" \notin Waiting
      BY DEF Waiting
    <3>6. CallOK'
      BY <1>0, <2>1, <2>2, <3>1, <3>2, <3>3, <3>4, <3>5 DEF CallOK
    <3> QED BY <1>0, <1>2, <1>3, <2>1, <3>6, FrozenFrame
  <2> QED BY <2>3, <2>4
<1>9. CASE Ask \/ WaitSleep
  <2>1. UNCHANGED <<sess, consent>>
    BY <1>9 DEF Ask, WaitSleep, sessionVars
  <2>2. CallOK'
    <3>1. CASE work' = NextCall
      BY <1>0, <1>n, <3>1, CallNone
    <3>2. CASE work' # NextCall
      <4>1. /\ work'.pc \in Waiting /\ work'.calls = work.calls /\ work'.i = work.i /\ work'.q = work.q
            /\ work.pc \in {"ask"} \cup Waiting
            /\ ask'.answer = "none" \/ (ask' = ask /\ work.pc \in Waiting)
        BY <1>1, <1>9, <3>2 DEF Ask, WaitSleep, Work, Waiting, Approval
      <4>2. Current' = Current /\ Question(Current)' = Question(Current)
        BY <2>1, <4>1 DEF Current, Question, GrantFor
      <4>3. NeedsApproval(Current)' <=> NeedsApproval(Current)
        BY <4>2 DEF NeedsApproval
      <4>4. work.pc \in InCalls /\ Waiting \cap {"run", "working", "mcpwork"} = {}
        BY <4>1 DEF InCalls, Calling, Waiting
      <4> QED BY <1>0, <2>1, <4>1, <4>2, <4>3, <4>4 DEF CallOK
    <3> QED BY <3>1, <3>2
  <2> QED BY <1>0, <1>2, <1>3, <2>1, <2>2, FrozenFrame
<1>10. CASE WaitTest
  <2>1. UNCHANGED <<sess, consent>> /\ work.pc = "asked"
    BY <1>10 DEF WaitTest, sessionVars
  <2>2. CallOK'
    <3>1. CASE work' = NextCall
      BY <1>0, <1>n, <3>1, CallNone
    <3>2. CASE work' = [work EXCEPT !.pc = "locked"] /\ UNCHANGED ask
      <4>1. work'.pc \in Waiting /\ work.pc \in Waiting /\ work'.calls = work.calls /\ work'.i = work.i /\ work'.q = work.q
        BY <1>1, <2>1, <3>2 DEF Work, Waiting
      <4> QED BY <1>0, <2>1, <3>2, <4>1, CallFrame
    <3>3. CASE work' = [work EXCEPT !.pc = "run"] /\ ask.answer = "yes"
      <4>1. work'.pc = "run" /\ work'.calls = work.calls /\ work'.i = work.i
        BY <1>1, <3>3 DEF Work
      <4>2. Current' = Current
        BY <4>1 DEF Current
      <4>3. work.q = Question(Current) /\ <<work.q.pid, work.q.id>> \in consent /\ work.i <= Len(work.calls)
        BY <1>0, <2>1, <3>3 DEF CallOK, Waiting, InCalls, Calling
      <4>4. Current.tool # "attach" => work.q.pid = sess.proc /\ work.q.id = Current.id
        BY <4>3 DEF Question
      <4>5. "run" \notin Waiting
        BY DEF Waiting
      <4> QED BY <1>0, <2>1, <4>1, <4>2, <4>3, <4>4, <4>5 DEF CallOK
    <3> QED BY <1>10, <3>1, <3>2, <3>3 DEF WaitTest
  <2> QED BY <1>0, <1>2, <1>3, <2>1, <2>2, FrozenFrame
<1>11. CASE CallRun
  <2>1. consent' = consent /\ work.pc = "run" /\ Panel
    BY <1>11 DEF CallRun, TurnsOK, TurnPc, Calling
  <2>2. Current \in CallType /\ work.i <= Len(work.calls) /\ (Current.tool = "attach" => Current.arg \in Pids)
    BY <1>11, RunsOne
  <2>3. MayChange(Current) => Mandate(sess.proc, Current.id)
    BY <1>0, <2>1 DEF MayChange, Mandate, CallOK
  <2>4. CASE Current.tool = "attach" /\ Attach(Current.arg) /\ work' = NextCall
    <3>1. /\ sess'.allow = sess.allow
          /\ (sess'.proc = sess.proc /\ sess'.records = sess.records) \/ sess'.records = <<>>
      BY <1>1, <2>2, <2>4, AttachKeeps
    <3>2. CallOK'
      BY <1>0, <1>n, <2>4, CallNone
    <3> QED BY <1>0, <1>2, <1>3, <2>1, <3>1, <3>2, FrozenFrame
  <2>5. CASE Quick(Current) /\ work' = NextCall
    <3>1. Freezes(Current) /\ Stays
      BY <1>1, <2>2, <2>5, QuickKeeps
    <3>2. CallOK'
      BY <1>0, <1>n, <2>5, CallNone
    <3>3. FrozenAllowed'
      BY <1>0, <1>2, <2>1, <2>3, <3>1, FrozenByCall
    <3> QED BY <1>0, <1>2, <1>3, <3>1, <3>2, <3>3 DEF Stays
  <2>6. CASE StartWork(Current) /\ work' = [work EXCEPT !.pc = "working"]
    <3>1. sess' = sess /\ sess.proc # None
      BY <1>1, <2>2, <2>6, StartKeeps
    <3>2. work'.pc = "working" /\ work'.calls = work.calls /\ work'.i = work.i
      BY <1>1, <2>6 DEF Work
    <3>3. "working" \notin Waiting
      BY DEF Waiting
    <3>4. CallOK'
      BY <1>0, <2>2, <3>1, <3>2, <3>3 DEF CallOK
    <3> QED BY <1>0, <1>2, <1>3, <2>1, <3>1, <3>4, FrozenFrame
  <2> QED BY <1>11, <2>4, <2>5, <2>6 DEF CallRun
<1>12. CASE CallEnds
  <2>1. consent' = consent /\ work' = NextCall /\ EndWork(Current) /\ sess.proc # None /\ Current \in CallType
    BY <1>0, <1>12, RunsOne DEF CallEnds, CallOK
  <2>2. Stays /\ sess'.records = sess.records
    BY <1>1, <2>1, EndWorkKeeps
  <2>3. CallOK'
    BY <1>0, <1>n, <2>1, CallNone
  <2> QED BY <1>0, <1>2, <1>3, <2>1, <2>2, <2>3, FrozenFrame DEF Stays
<1> QED BY <1>4, <1>5, <1>6, <1>7, <1>8, <1>9, <1>10, <1>11, <1>12 DEF Worker

LEMMA ConsentOthers ==
  ASSUME TypeOK, TurnsOK, KeptOK, ConsentOK,
         CloseSession \/ McpCall \/ McpRun \/ McpEnds \/ McpQuit \/ FreezerStep \/ World
  PROVE  ConsentOK'
<1>1. /\ ui \in Ui /\ work \in Work /\ ask \in Approval /\ SessionType /\ scen \in Scenarios /\ calls \in Nat
  BY DEF TypeOK, PanelType
<1>0. CallOK /\ GrantOK /\ FrozenAllowed /\ sess.allow = scen.allow
  BY ConsentParts
<1>2. UNCHANGED <<scen, grant, consent, ask>> /\ ui'.allowPid = ui.allowPid /\ GrantOK'
  <2>1. UNCHANGED <<scen, grant, consent, ask>>
    BY DEF CloseSession, McpCall, McpRun, McpEnds, McpQuit, FreezerStep, World, panelVars
  <2>2. ui'.allowPid = ui.allowPid
    BY <1>1 DEF CloseSession, McpCall, McpRun, McpEnds, McpQuit, FreezerStep, World, panelVars, Ui
  <2> QED BY <1>0, <2>1, <2>2 DEF GrantOK
<1>3. ConsentOK' <=> (CallOK' /\ GrantOK' /\ FrozenAllowed' /\ sess'.allow = scen'.allow)
  BY DEF ConsentOK, CallOK, GrantOK, FrozenAllowed
<1>4. CASE CloseSession \/ McpQuit
  <2>1. sess'.allow = sess.allow /\ sess'.proc = sess.proc /\ sess'.records = sess.records /\ work' = work
    BY <1>1, <1>4, EndKeeps DEF CloseSession, McpQuit
  <2>2. CallOK'
    BY <1>0, <1>2, <2>1, CallFrame
  <2> QED BY <1>0, <1>2, <1>3, <2>1, <2>2, FrozenFrame
<1>5. CASE FreezerStep \/ World
  <2>1. sess' = sess /\ work' = work
    BY <1>5 DEF FreezerStep, World, panelVars, Freezer, GameRuns, GameExits
  <2>2. CallOK'
    BY <1>0, <1>2, <2>1, CallFrame
  <2> QED BY <1>0, <1>2, <1>3, <2>1, <2>2, FrozenFrame
<1>6. CASE McpCall
  <2>1. PICK reply \in scen.replies : work' = [work EXCEPT !.pc = "mcp", !.calls = Numbered(reply), !.i = 1]
    BY <1>6 DEF McpCall
  <2>2. work'.pc = "mcp" /\ work'.calls = Numbered(reply) /\ sess' = sess
    BY <1>1, <1>6, <2>1 DEF Work, McpCall, sessionVars
  <2>3. \A k \in 1 .. Len(Numbered(reply)) :
          Numbered(reply)[k].tool = "attach" => Numbered(reply)[k].arg \in Pids
    BY <1>1, ReplyOfScenario, NumberedType
  <2>4. "mcp" \notin InCalls \cup {"mcpwork", "ask", "run", "working"} \cup Waiting
    BY DEF InCalls, Calling, Waiting
  <2>5. CallOK'
    BY <2>2, <2>3, <2>4 DEF CallOK
  <2> QED BY <1>0, <1>2, <1>3, <2>2, <2>5, FrozenFrame
<1>n. ASSUME work'.pc \in {"mcp", "idle"}, work'.calls \in {work.calls, <<>>} PROVE CallOK'
  BY <1>0, <1>n, CallNone DEF InCalls, Calling, Waiting
<1>7. CASE McpRun /\ UNCHANGED sessionVars /\ work'.pc # "mcpwork"
  <2>1. work'.pc \in {"mcp", "idle"} /\ work'.calls \in {work.calls, <<>>} /\ sess' = sess
    BY <1>1, <1>7 DEF McpRun, Work, sessionVars
  <2> QED BY <1>0, <1>2, <1>3, <1>n, <2>1, FrozenFrame
<1>8. CASE McpRun /\ ~UNCHANGED sessionVars /\ work'.pc # "mcpwork"
  <2>1. Current \in CallType /\ work.i <= Len(work.calls) /\ (Current.tool = "attach" => Current.arg \in Pids)
    BY <1>8, RunsOne
  <2>2. ~Panel /\ work.pc = "mcp"
    BY <1>8 DEF McpRun, TurnsOK, McpPc
  <2>3. MayChange(Current) => Mandate(sess.proc, Current.id)
    BY <1>0, <2>2 DEF MayChange, Mandate
  <2>4. /\ work'.pc = "mcp" /\ work'.calls = work.calls
        /\ (Current.tool = "attach" /\ Attach(Current.arg)) \/ Quick(Current)
    BY <1>1, <1>8, <2>2 DEF McpRun, Work
  <2>5. CASE Current.tool = "attach" /\ Attach(Current.arg)
    <3>1. /\ sess'.allow = sess.allow
          /\ (sess'.proc = sess.proc /\ sess'.records = sess.records) \/ sess'.records = <<>>
      BY <1>1, <2>1, <2>5, AttachKeeps
    <3> QED BY <1>0, <1>2, <1>3, <1>n, <2>4, <3>1, FrozenFrame
  <2>6. CASE Quick(Current)
    <3>1. Freezes(Current) /\ Stays
      BY <1>1, <2>1, <2>6, QuickKeeps
    <3>2. FrozenAllowed'
      BY <1>0, <1>2, <2>3, <3>1, FrozenByCall
    <3> QED BY <1>0, <1>2, <1>3, <1>n, <2>4, <3>1, <3>2 DEF Stays
  <2> QED BY <2>4, <2>5, <2>6
<1>9. CASE McpRun /\ work'.pc = "mcpwork"
  <2>1. /\ StartWork(Current) /\ work.i <= Len(work.calls) /\ work'.calls = work.calls /\ work'.i = work.i
    BY <1>1, <1>9 DEF McpRun, Work
  <2>2. sess' = sess /\ sess.proc # None
    BY <2>1 DEF StartWork, CanWork
  <2>3. "mcpwork" \notin Waiting \cup {"ask", "run"}
    BY DEF Waiting
  <2>4. CallOK'
    BY <1>0, <1>9, <2>1, <2>2, <2>3 DEF CallOK
  <2> QED BY <1>0, <1>2, <1>3, <2>2, <2>4, FrozenFrame
<1>10. CASE McpEnds
  <2>1. work'.pc = "mcp" /\ work'.calls = work.calls /\ EndWork(Current) /\ sess.proc # None /\ Current \in CallType
    BY <1>0, <1>1, <1>10, RunsOne DEF McpEnds, CallOK, Work
  <2>2. Stays /\ sess'.records = sess.records
    BY <1>1, <2>1, EndWorkKeeps
  <2> QED BY <1>0, <1>2, <1>3, <1>n, <2>1, <2>2, FrozenFrame DEF Stays
<1> QED BY <1>4, <1>5, <1>6, <1>7, <1>8, <1>9, <1>10

LEMMA ConsentStep ==
  ASSUME TypeOK, TurnsOK, QuestionsOK, KeptOK, ConsentOK, Next
  PROVE  ConsentOK'
BY ConsentUser, ConsentWorker, ConsentOthers DEF Next

(***************************************************************************)
(* A process the window has left will be left by the session.              *)
(***************************************************************************)
LEMMA LeavingFrame ==
  ASSUME LeavingOK, wq' = wq, ui'.target = ui.target, ui'.left = ui.left, gone' \subseteq gone,
         sess'.proc = sess.proc \/ sess'.proc \notin gone',
         ui'.left = {} \/ ui'.busy \/ ui'.refused
  PROVE  LeavingOK'
<1>1. sess'.proc \in gone' => sess'.proc \in ui'.left \/ (\E k \in 1 .. Len(wq') : wq'[k].job = "sync" /\ sess'.proc \in wq'[k].left /\ wq'[k].pid # sess'.proc)
  BY DEF LeavingOK, ToLeave
<1> QED BY <1>1 DEF LeavingOK, ToLeave

\* Syncing the state u of the panel: what was to be left still is.
LEMMA LeavingSync ==
  ASSUME NEW u \in Ui, wq \in Seq(Job), ui' = Synced(u), wq' = Sync(u, wq), sess' = sess,
         u.target \notin gone',
         sess.proc \in gone' => sess.proc \in u.left \/ ToLeave(sess.proc),
         \A k \in 1 .. Len(wq) : wq[k].job = "turn" /\ wq[k].pid \in gone' => wq[k].pid \in u.left,
         Handed => u.busy
  PROVE  LeavingOK'
<1>1. /\ \A k \in 1 .. Len(wq) : k \in 1 .. Len(wq') /\ wq'[k] = wq[k]
      /\ \A k \in 1 .. Len(wq') : wq'[k].job = "turn" => k \in 1 .. Len(wq)
      /\ u.busy => wq' = wq
      /\ ~u.busy /\ u.left # {} =>
           \E k \in 1 .. Len(wq') : wq'[k].job = "sync" /\ wq'[k].left = u.left /\ wq'[k].pid = u.target
  BY SyncAdds
<1>2. ui'.target = u.target /\ ui'.busy = u.busy
  BY DEF Synced, Ui
<1>3. CASE u.busy \/ u.left = {}
  <2>1. ui' = u /\ wq' = wq
    BY <1>3 DEF Synced, Sync
  <2>2. ui'.left # {} => ui'.busy
    BY <1>3, <2>1
  <2> QED BY <2>1, <2>2 DEF LeavingOK, ToLeave
<1>4. CASE ~u.busy /\ u.left # {}
  <2>1. ui'.left = {}
    BY <1>4 DEF Synced, Ui
  <2>2. \A k \in 1 .. Len(wq') : wq'[k].job # "turn"
    BY <1>1, <1>4 DEF Handed
  <2>3. sess.proc \in gone' =>
          \E k \in 1 .. Len(wq') : wq'[k].job = "sync" /\ sess.proc \in wq'[k].left /\ wq'[k].pid # sess.proc
    <3>1. CASE sess.proc \in gone' /\ sess.proc \in u.left
      BY <1>1, <1>4, <3>1
    <3>2. CASE ToLeave(sess.proc)
      BY <1>1, <3>2 DEF ToLeave
    <3> QED BY <3>1, <3>2
  <2> QED BY <1>2, <2>1, <2>2, <2>3 DEF LeavingOK, ToLeave
<1> QED BY <1>3, <1>4

LEMMA LeavingUser ==
  ASSUME TypeOK, TurnsOK, LeavingOK, User \/ SendStart \/ UiEvent
  PROVE  LeavingOK'
<1>1. /\ ui \in Ui /\ uiq \in Seq(Event) /\ wq \in Seq(Job) /\ gone \subseteq Pids
  BY DEF TypeOK, PanelType
<1>2. sess' = sess
  BY DEF User, SendStart, UiEvent, SetTarget, Send, SendRefused, Stop, NewChat, ChangeSettings, Close, Answer, sessionVars
<1>3. ASSUME NEW p \in Target, SetTarget(p) PROVE LeavingOK'
  <2> DEFINE u == [ui EXCEPT !.target = p, !.allowPid = None,
                             !.left = IF ui.target = None THEN @ ELSE @ \cup {ui.target}]
  <2>1. /\ u \in Ui /\ u.busy = ui.busy /\ u.target = p
        /\ u.left = IF ui.target = None THEN ui.left ELSE ui.left \cup {ui.target}
    <3>1. ui.target # None => ui.target \in Pids
      BY <1>1 DEF Ui, Target
    <3>2. (IF ui.target = None THEN ui.left ELSE ui.left \cup {ui.target}) \in SUBSET Pids
      BY <1>1, <3>1 DEF Ui
    <3> QED BY <1>1, <3>2, Constants1 DEF Ui
  <2>2. ui' = Synced(u) /\ wq' = Sync(u, wq) /\ gone' = (gone \cup ({ui.target} \ {None})) \ {p}
    BY <1>3 DEF SetTarget
  <2> HIDE DEF u
  <2>3. \A q \in gone' : q \in gone \/ q \in u.left
    BY <2>1, <2>2
  <2>4. ui.left \subseteq u.left
    BY <2>1
  <2>5. sess.proc \in gone' => sess.proc \in u.left \/ ToLeave(sess.proc)
    BY <2>3, <2>4 DEF LeavingOK
  <2>6. \A k \in 1 .. Len(wq) : wq[k].job = "turn" /\ wq[k].pid \in gone' => wq[k].pid \in u.left
    BY <2>3, <2>4 DEF LeavingOK
  <2>7. u.target \notin gone' /\ (Handed => u.busy)
    BY <2>1, <2>2 DEF TurnsOK
  <2> QED BY <1>1, <1>2, <2>1, <2>2, <2>5, <2>6, <2>7, LeavingSync
<1>4. CASE Send \/ SendRefused \/ NewChat \/ ChangeSettings \/ Stop \/ Close
  <2>1. UNCHANGED <<wq, gone>>
    BY <1>4 DEF Send, SendRefused, NewChat, ChangeSettings, Stop, Close
  <2>2. ui'.target = ui.target /\ ui'.left = ui.left
    BY <1>1, <1>4 DEF Send, SendRefused, NewChat, ChangeSettings, Stop, Close, Ui
  <2>3. ui'.left = {} \/ ui'.busy \/ ui'.refused
    BY <1>1, <1>4 DEF Send, SendRefused, NewChat, ChangeSettings, Stop, Close, Ui, LeavingOK
  <2> QED BY <1>2, <2>1, <2>2, <2>3, LeavingFrame
<1>5. CASE SendStart
  <2> DEFINE j == [job |-> "turn", left |-> {}, pid |-> ui.target]
  <2>1. /\ ui.sending /\ ui'.target = ui.target /\ ui'.left = ui.left /\ ui'.busy = ui.busy /\ ui'.refused = ui.refused
        /\ gone' = gone /\ wq' = Append(wq, j)
    BY <1>1, <1>5 DEF SendStart, Ui
  <2>2. j \in Job /\ j.job = "turn" /\ j.pid = ui.target
    BY <1>1 DEF Job, Ui
  <2> HIDE DEF j
  <2>3. /\ Len(wq') = Len(wq) + 1 /\ wq'[Len(wq) + 1] = j
        /\ \A k \in 1 .. Len(wq) : k \in 1 .. Len(wq') /\ wq'[k] = wq[k]
        /\ \A k \in 1 .. Len(wq') : k \in 1 .. Len(wq) \/ k = Len(wq) + 1
    BY <1>1, <2>1, <2>2, AppendFacts
  <2>4. \A k \in 1 .. Len(wq') : wq'[k].job = "turn" /\ wq'[k].pid \in gone => wq'[k].pid \in ui.left
    BY <2>2, <2>3 DEF LeavingOK
  <2>5. sess.proc \in gone => sess.proc \in ui.left \/
          \E k \in 1 .. Len(wq') : wq'[k].job = "sync" /\ sess.proc \in wq'[k].left /\ wq'[k].pid # sess.proc
    BY <2>3 DEF LeavingOK, ToLeave
  <2> QED BY <1>2, <2>1, <2>4, <2>5 DEF LeavingOK, ToLeave
<1>6. ASSUME NEW allow \in BOOLEAN, NEW forChat \in BOOLEAN, Answer(allow, forChat) PROVE LeavingOK'
  <2>1. UNCHANGED <<wq, gone>> /\ ui'.target = ui.target /\ ui'.left = ui.left /\ ui'.busy = ui.busy /\ ui'.refused = ui.refused
    BY <1>1, <1>6 DEF Answer, AnswerApproval, Ui
  <2>2. ui'.left = {} \/ ui'.busy \/ ui'.refused
    BY <2>1 DEF LeavingOK
  <2> QED BY <1>2, <2>1, <2>2, LeavingFrame
<1>7. CASE UiEvent
  <2> DEFINE e == Head(uiq)
             u == CASE e.event = "show" -> [ui EXCEPT !.shown = e.q]
                    [] e.event = "hide" -> [ui EXCEPT !.shown = NoQuestion]
                    [] e.event = "finish" -> [ui EXCEPT !.busy = FALSE, !.shown = NoQuestion]
  <2>1. uiq # <<>> /\ gone' = gone /\ ui' = Synced(u) /\ wq' = Sync(u, wq)
    BY <1>7 DEF UiEvent
  <2>2. e.event \in {"show", "hide", "finish"} /\ e.q \in QuestionType /\ e = uiq[1] /\ 1 \in 1 .. Len(uiq)
    <3>1. e \in Event /\ e = uiq[1] /\ 1 \in 1 .. Len(uiq)
      BY <1>1, <2>1
    <3> QED BY <3>1 DEF Event
  <2> HIDE DEF e
  <2>3. u \in Ui /\ u.target = ui.target /\ u.left = ui.left /\ (e.event # "finish" => u.busy = ui.busy)
    BY <1>1, <2>2, Constants1 DEF Ui
  <2> HIDE DEF u
  <2>4. Handed => u.busy
    <3>1. CASE e.event = "finish"
      BY <2>2, <3>1 DEF TurnsOK, Returned
    <3>2. CASE e.event # "finish"
      BY <2>3, <3>2 DEF TurnsOK
    <3> QED BY <3>1, <3>2
  <2>5. u.target \notin gone' /\ (sess.proc \in gone' => sess.proc \in u.left \/ ToLeave(sess.proc))
    BY <2>1, <2>3 DEF LeavingOK
  <2>6. \A k \in 1 .. Len(wq) : wq[k].job = "turn" /\ wq[k].pid \in gone' => wq[k].pid \in u.left
    BY <2>1, <2>3 DEF LeavingOK
  <2> QED BY <1>1, <1>2, <2>1, <2>3, <2>4, <2>5, <2>6, LeavingSync
<1> QED BY <1>3, <1>4, <1>5, <1>6, <1>7 DEF User, Target

LEMMA LeavingWorker ==
  ASSUME TypeOK, TurnsOK, KeptOK, ConsentOK, LeavingOK, Worker
  PROVE  LeavingOK'
<1>1. /\ ui \in Ui /\ work \in Work /\ wq \in Seq(Job) /\ SessionType /\ gone \subseteq Pids /\ sess \in Session
  BY DEF TypeOK, PanelType, SessionType
<1>l. ui.left = {} \/ ui.busy \/ ui.refused
  BY DEF LeavingOK
<1>q. ASSUME wq # <<>>, wq' = Tail(wq)
      PROVE  /\ \A k \in 1 .. Len(wq') : k + 1 \in 1 .. Len(wq) /\ wq'[k] = wq[k + 1]
             /\ \A p : ToLeave(p) /\ ~(wq[1].job = "sync" /\ p \in wq[1].left /\ wq[1].pid # p)
                         => \E k \in 1 .. Len(wq') : wq'[k].job = "sync" /\ p \in wq'[k].left /\ wq'[k].pid # p
  <2>1. /\ 1 \in 1 .. Len(wq)
        /\ \A k \in 1 .. Len(wq') : k + 1 \in 1 .. Len(wq) /\ wq'[k] = wq[k + 1]
        /\ \A k \in 2 .. Len(wq) : k - 1 \in 1 .. Len(wq') /\ wq'[k - 1] = wq[k]
    BY <1>1, <1>q, TailFacts
  <2>2. ASSUME NEW p, ToLeave(p), ~(wq[1].job = "sync" /\ p \in wq[1].left /\ wq[1].pid # p)
        PROVE  \E k \in 1 .. Len(wq') : wq'[k].job = "sync" /\ p \in wq'[k].left /\ wq'[k].pid # p
    <3>1. PICK k \in 1 .. Len(wq) : wq[k].job = "sync" /\ p \in wq[k].left /\ wq[k].pid # p
      BY <2>2 DEF ToLeave
    <3>2. k \in 2 .. Len(wq)
      BY <2>2, <3>1
    <3> QED BY <2>1, <3>1, <3>2
  <2> QED BY <2>1, <2>2
<1>2. CASE WorkerSync
  <2>1. /\ wq # <<>> /\ wq' = Tail(wq) /\ UNCHANGED <<ui, gone>> /\ Head(wq) = wq[1]
        /\ IF sess.proc # None /\ sess.proc # Head(wq).pid /\ sess.proc \in Head(wq).left
           THEN Detach ELSE UNCHANGED sessionVars
    BY <1>1, <1>2, TailFacts DEF WorkerSync, WorkerRuns
  <2>2. \A k \in 1 .. Len(wq') : wq'[k].job = "turn" /\ wq'[k].pid \in gone => wq'[k].pid \in ui.left
    BY <1>q, <2>1 DEF LeavingOK
  <2>3. CASE sess.proc # None /\ sess.proc # Head(wq).pid /\ sess.proc \in Head(wq).left
    <3>1. sess'.proc = None
      BY <1>1, <2>1, <2>3, DetachKeeps
    <3>2. None \notin gone
      BY <1>1, AgentAssumption
    <3> QED BY <1>l, <2>1, <2>2, <3>1, <3>2 DEF LeavingOK, ToLeave
  <2>4. CASE ~(sess.proc # None /\ sess.proc # Head(wq).pid /\ sess.proc \in Head(wq).left)
    <3>1. sess' = sess
      BY <2>1, <2>4 DEF sessionVars
    <3>2. sess.proc \in gone => sess.proc # None
      BY <1>1, AgentAssumption
    <3>3. sess.proc \in gone => sess.proc \in ui.left \/
            \E k \in 1 .. Len(wq') : wq'[k].job = "sync" /\ sess.proc \in wq'[k].left /\ wq'[k].pid # sess.proc
      BY <1>q, <2>1, <2>4, <3>2 DEF LeavingOK
    <3> QED BY <1>l, <2>1, <2>2, <3>1, <3>3 DEF LeavingOK, ToLeave
  <2> QED BY <2>3, <2>4
<1>3. CASE TurnStart
  <2>1. /\ wq # <<>> /\ wq' = Tail(wq) /\ UNCHANGED <<ui, gone>> /\ Head(wq) = wq[1] /\ wq[1].job = "turn"
        /\ 1 \in 1 .. Len(wq)
        /\ (Head(wq).pid # None /\ Attach(Head(wq).pid)) \/ UNCHANGED sessionVars
    BY <1>1, <1>3, TailFacts DEF TurnStart, WorkerRuns
  <2>2. \A k \in 1 .. Len(wq') : wq'[k].job = "turn" /\ wq'[k].pid \in gone => wq'[k].pid \in ui.left
    BY <1>q, <2>1 DEF LeavingOK
  <2>3. wq[1].pid \in gone => wq[1].pid \in ui.left
    BY <2>1 DEF LeavingOK
  <2>4. sess'.proc \in {sess.proc, wq[1].pid}
    <3>1. CASE UNCHANGED sessionVars
      BY <3>1 DEF sessionVars
    <3>2. CASE Head(wq).pid # None /\ Attach(Head(wq).pid)
      <4>1. wq[1] \in Job
        BY <1>1, <2>1
      <4>2. Head(wq).pid \in Pids
        BY <2>1, <3>2, <4>1 DEF Job, Target
      <4> QED BY <1>1, <2>1, <3>2, <4>2, AttachKeeps
    <3> QED BY <2>1, <3>1, <3>2
  <2>5. sess.proc \in gone => sess.proc \in ui.left \/
          \E k \in 1 .. Len(wq') : wq'[k].job = "sync" /\ sess.proc \in wq'[k].left /\ wq'[k].pid # sess.proc
    BY <1>q, <2>1 DEF LeavingOK
  <2> QED BY <1>l, <2>1, <2>2, <2>3, <2>4, <2>5 DEF LeavingOK, ToLeave
<1>4. CASE TurnSend \/ Round \/ ReplyFails \/ Reply \/ CallsDone \/ CallSkipped \/ CallStart \/ Ask
           \/ WaitTest \/ WaitSleep \/ TurnFinish
  <2>1. UNCHANGED <<ui, wq, gone, sess>>
    BY <1>4 DEF TurnSend, Round, ReplyFails, Reply, CallsDone, CallSkipped, CallStart, Ask, WaitTest, WaitSleep,
                TurnFinish, sessionVars
  <2> QED BY <1>l, <2>1, LeavingFrame
<1>5. CASE CallRun
  <2>1. /\ UNCHANGED <<ui, wq>> /\ gone' = IF sess'.proc # sess.proc THEN gone \ {sess'.proc} ELSE gone
    BY <1>5 DEF CallRun
  <2> QED BY <1>l, <2>1, LeavingFrame
<1>6. CASE CallEnds
  <2>1. UNCHANGED <<ui, wq, gone>> /\ EndWork(Current) /\ sess.proc # None /\ Current \in CallType
    BY <1>6, RunsOne DEF CallEnds, ConsentOK
  <2>2. sess'.proc = sess.proc
    BY <1>1, <2>1, EndWorkKeeps DEF Stays
  <2> QED BY <1>l, <2>1, <2>2, LeavingFrame
<1> QED BY <1>2, <1>3, <1>4, <1>5, <1>6 DEF Worker

LEMMA LeavingStep ==
  ASSUME TypeOK, TurnsOK, KeptOK, ConsentOK, LeavingOK, Next
  PROVE  LeavingOK'
<1>1. ui \in Ui /\ SessionType
  BY DEF TypeOK, PanelType
<1>l. ui.left = {} \/ ui.busy \/ ui.refused
  BY DEF LeavingOK
<1>2. CASE CloseSession \/ McpQuit
  <2>1. UNCHANGED <<wq, gone>> /\ sess'.proc = sess.proc
    BY <1>1, <1>2, EndKeeps DEF CloseSession, McpQuit
  <2>2. ui'.target = ui.target /\ ui'.left = ui.left /\ ui'.busy = ui.busy /\ ui'.refused = ui.refused
    BY <1>1, <1>2 DEF CloseSession, McpQuit, Ui
  <2> QED BY <1>l, <2>1, <2>2, LeavingFrame
<1>3. CASE McpCall \/ McpRun \/ McpEnds
  <2>1. UNCHANGED <<ui, wq, gone>> /\ gone = {}
    BY <1>3 DEF McpCall, McpRun, McpEnds, TurnsOK, McpPc, Panel
  <2> QED BY <1>l, <2>1, LeavingFrame
<1>4. CASE FreezerStep \/ World
  <2>1. UNCHANGED <<ui, wq, gone, sess>>
    BY <1>4 DEF FreezerStep, World, panelVars, Freezer, GameRuns, GameExits
  <2> QED BY <1>l, <2>1, LeavingFrame
<1> QED BY <1>2, <1>3, <1>4, LeavingUser, LeavingWorker DEF Next

(***************************************************************************)
(* The conversation, extended at its end.                                  *)
(***************************************************************************)
LEMMA ConvExtend ==
  ASSUME NEW m \in Seq(Message), NEW s, NEW t, NEW r \in Seq(Message), Conversation(m, s),
         Len(m) <= Len(r), \A k \in 1 .. Len(m) : r[k] = m[k],
         m = <<>> => r[1].role = "user" /\ r[1].n = 0,
         \A k \in (Len(m) + 1) .. Len(r) :
           /\ r[k].role = "assistant" /\ r[k].n > 0 => Answered(r, k)
           /\ k > 1 /\ r[k].role # "assistant" /\ r[k].n > 0 => Called(r, k)
           /\ Anthropic /\ k > 1 => r[k].role # r[k - 1].role
           /\ r[k].texts \subseteq t
           /\ \A j \in (Len(m) + 1) .. Len(r) : j # k => r[j].texts \cap r[k].texts = {},
         \A x \in t : x \notin s /\ \E k \in (Len(m) + 1) .. Len(r) : x \in r[k].texts
  PROVE  Conversation(r, s \cup t)
<1>1. /\ Len(m) \in Nat /\ Len(r) \in Nat
      /\ \A k \in 1 .. Len(m) : m[k] \in Message /\ m[k].n \in Nat
      /\ \A k \in 1 .. Len(r) : k \in 1 .. Len(m) \/ k \in (Len(m) + 1) .. Len(r)
  <2>1. Len(m) \in Nat /\ Len(r) \in Nat
    OBVIOUS
  <2>2. \A k \in 1 .. Len(m) : m[k] \in Message
    OBVIOUS
  <2>3. \A x \in Message : x.n \in Nat
    BY DEF Message
  <2> QED BY <2>1, <2>2, <2>3
<1>2. r # <<>> => r[1].role = "user" /\ r[1].n = 0
  BY <1>1 DEF Conversation
<1>3. ASSUME NEW k \in 1 .. Len(r), r[k].role = "assistant", r[k].n > 0 PROVE Answered(r, k)
  <2>1. CASE k \in 1 .. Len(m)
    <3>1. Answered(m, k) /\ m[k].n = r[k].n
      BY <1>3, <2>1 DEF Conversation
    <3>2. CASE Anthropic
      <4>1. k + 1 \in 1 .. Len(m) /\ m[k + 1].role = "user" /\ m[k + 1].n = m[k].n
        BY <1>1, <2>1, <3>1, <3>2 DEF Answered
      <4> QED BY <1>1, <3>1, <3>2, <4>1 DEF Answered
    <3>3. CASE ~Anthropic
      <4>1. \A j \in 1 .. m[k].n : k + j \in 1 .. Len(m) /\ m[k + j].role = "tool"
        BY <1>1, <2>1, <3>1, <3>3 DEF Answered
      <4> QED BY <1>1, <3>1, <3>3, <4>1 DEF Answered
    <3> QED BY <3>2, <3>3
  <2>2. CASE k \in (Len(m) + 1) .. Len(r)
    BY <1>3, <2>2
  <2> QED BY <1>1, <2>1, <2>2
<1>4. ASSUME NEW k \in 2 .. Len(r), r[k].role # "assistant", r[k].n > 0 PROVE Called(r, k)
  <2>1. CASE k \in 1 .. Len(m)
    <3>1. Called(m, k) /\ k - 1 \in 1 .. Len(m)
      BY <1>1, <1>4, <2>1 DEF Conversation
    <3>2. \A a \in 1 .. (k - 1) : a \in 1 .. Len(m)
      BY <1>1, <2>1
    <3> QED BY <2>1, <3>1, <3>2 DEF Called
  <2>2. CASE k \in (Len(m) + 1) .. Len(r)
    BY <1>4, <2>2
  <2> QED BY <1>1, <2>1, <2>2
<1>5. ASSUME Anthropic, NEW k \in 2 .. Len(r) PROVE r[k].role # r[k - 1].role
  <2>1. CASE k \in 1 .. Len(m)
    <3>1. k - 1 \in 1 .. Len(m) /\ k \in 2 .. Len(m)
      BY <1>1, <2>1
    <3> QED BY <1>5, <2>1, <3>1 DEF Conversation
  <2>2. CASE k \in (Len(m) + 1) .. Len(r)
    BY <1>5, <2>2
  <2> QED BY <1>1, <2>1, <2>2
<1>6. \A x \in s \cup t : \E k \in 1 .. Len(r) : x \in r[k].texts
  <2>1. \A x \in s : \E k \in 1 .. Len(m) : x \in m[k].texts
    BY DEF Conversation
  <2>2. \A k \in 1 .. Len(m) : k \in 1 .. Len(r)
    BY <1>1
  <2>3. \A k \in (Len(m) + 1) .. Len(r) : k \in 1 .. Len(r)
    BY <1>1
  <2> QED BY <2>1, <2>2, <2>3
<1>7. \A k \in 1 .. Len(m) : r[k].texts \subseteq s
  BY DEF Conversation
<1>8. \A k \in 1 .. Len(r) : r[k].texts \subseteq s \cup t
  BY <1>1, <1>7
<1>9. ASSUME NEW k \in 1 .. Len(r), NEW j \in 1 .. Len(r), k # j PROVE r[k].texts \cap r[j].texts = {}
  <2>1. CASE k \in 1 .. Len(m) /\ j \in 1 .. Len(m)
    BY <1>9, <2>1 DEF Conversation
  <2>2. CASE k \in (Len(m) + 1) .. Len(r) /\ j \in (Len(m) + 1) .. Len(r)
    BY <1>9, <2>2
  <2>3. CASE k \in 1 .. Len(m) /\ j \in (Len(m) + 1) .. Len(r)
    BY <1>7, <2>3
  <2>4. CASE j \in 1 .. Len(m) /\ k \in (Len(m) + 1) .. Len(r)
    BY <1>7, <2>4
  <2> QED BY <1>1, <2>1, <2>2, <2>3, <2>4
<1> QED BY <1>2, <1>3, <1>4, <1>5, <1>6, <1>8, <1>9 DEF Conversation

\* One message at the end: the user's text, or an answer without calls.
LEMMA ConvAppend ==
  ASSUME NEW m \in Seq(Message), NEW s, Conversation(m, s), NEW x \in Message,
         x.n = 0, m = <<>> => x.role = "user",
         Anthropic /\ m # <<>> => x.role # m[Len(m)].role,
         x.texts \cap s = {}
  PROVE  Conversation(Append(m, x), s \cup x.texts)
<1> DEFINE r == Append(m, x)
<1>1. /\ r \in Seq(Message) /\ Len(m) \in Nat /\ Len(r) = Len(m) + 1 /\ r[Len(m) + 1] = x
      /\ \A k \in 1 .. Len(m) : r[k] = m[k]
  OBVIOUS
<1>2. \A k \in (Len(m) + 1) .. Len(r) : k = Len(m) + 1
  BY <1>1
<1>3. m = <<>> => Len(m) = 0
  OBVIOUS
<1>4. Len(m) + 1 > 1 => m # <<>> /\ Len(m) \in 1 .. Len(m) /\ (Len(m) + 1) - 1 = Len(m)
  BY <1>1
<1>5. Len(m) + 1 \in (Len(m) + 1) .. Len(r)
  BY <1>1
<1> HIDE DEF r
<1>6. Len(m) <= Len(r)
  BY <1>1
<1>7. m = <<>> => r[1].role = "user" /\ r[1].n = 0
  BY <1>1, <1>3
<1>8. \A k \in (Len(m) + 1) .. Len(r) :
           /\ r[k].role = "assistant" /\ r[k].n > 0 => Answered(r, k)
           /\ k > 1 /\ r[k].role # "assistant" /\ r[k].n > 0 => Called(r, k)
           /\ Anthropic /\ k > 1 => r[k].role # r[k - 1].role
           /\ r[k].texts \subseteq x.texts
           /\ \A j \in (Len(m) + 1) .. Len(r) : j # k => r[j].texts \cap r[k].texts = {}
  BY <1>1, <1>2, <1>4
<1>9. \A y \in x.texts : y \notin s /\ \E k \in (Len(m) + 1) .. Len(r) : y \in r[k].texts
  BY <1>1, <1>5
<1>10. Conversation(r, s \cup x.texts)
  BY <1>1, <1>6, <1>7, <1>8, <1>9, ConvExtend
<1> QED BY <1>10 DEF r

\* The user's text joins the user turn at the end.
LEMMA ConvJoin ==
  ASSUME NEW m \in Seq(Message), NEW s, NEW t \in Nat, Conversation(m, s), t \notin s, m # <<>>
  PROVE  Conversation([m EXCEPT ![Len(m)].texts = @ \cup {t}], s \cup {t})
<1> DEFINE new == [m[Len(m)] EXCEPT !.texts = @ \cup {t}]
           r == [m EXCEPT ![Len(m)] = new]
<1>1. Len(m) \in Nat \ {0} /\ \A k \in 1 .. Len(m) : m[k] \in Message
  OBVIOUS
<1>2. m[Len(m)] \in Message /\ Len(m) \in 1 .. Len(m)
  BY <1>1
<1>3. /\ new \in Message /\ new.role = m[Len(m)].role /\ new.n = m[Len(m)].n
      /\ new.texts = m[Len(m)].texts \cup {t}
  BY <1>2 DEF Message
<1>a. [m EXCEPT ![Len(m)].texts = @ \cup {t}] = r
  BY <1>2
<1> HIDE DEF new
<1>4. /\ Len(r) = Len(m) /\ r[Len(m)] = new
      /\ \A k \in 1 .. Len(m) : k # Len(m) => r[k] = m[k]
  BY <1>1, <1>2, <1>3, ExceptSeq
<1> HIDE DEF r
<1>5. /\ \A k \in 1 .. Len(m) : r[k].role = m[k].role /\ r[k].n = m[k].n
      /\ \A k \in 1 .. Len(m) : r[k].texts = IF k = Len(m) THEN m[k].texts \cup {t} ELSE m[k].texts
  BY <1>2, <1>3, <1>4
<1>6. r # <<>>
  BY <1>1, <1>4
<1>7. r[1].role = "user" /\ r[1].n = 0
  BY <1>1, <1>5 DEF Conversation
<1>8. ASSUME NEW k \in 1 .. Len(r), r[k].role = "assistant", r[k].n > 0 PROVE Answered(r, k)
  <2>1. Answered(m, k) /\ k \in 1 .. Len(m)
    BY <1>4, <1>5, <1>8 DEF Conversation
  <2>2. CASE Anthropic
    <3>1. k < Len(m) => k + 1 \in 1 .. Len(m)
      BY <1>1, <2>1
    <3> QED BY <1>4, <1>5, <2>1, <2>2, <3>1 DEF Answered
  <2>3. CASE ~Anthropic
    <3>1. \A j \in 1 .. m[k].n : k + j <= Len(m) => k + j \in 1 .. Len(m)
      BY <1>1, <2>1
    <3> QED BY <1>4, <1>5, <2>1, <2>3, <3>1 DEF Answered
  <2> QED BY <2>2, <2>3
<1>9. ASSUME NEW k \in 2 .. Len(r), r[k].role # "assistant", r[k].n > 0 PROVE Called(r, k)
  <2>1. k \in 2 .. Len(m) /\ k \in 1 .. Len(m) /\ k - 1 \in 1 .. Len(m) /\ \A a \in 1 .. (k - 1) : a \in 1 .. Len(m)
    BY <1>1, <1>4
  <2>2. Called(m, k)
    BY <1>5, <1>9, <2>1 DEF Conversation
  <2> QED BY <1>5, <2>1, <2>2 DEF Called
<1>10. ASSUME Anthropic, NEW k \in 2 .. Len(r) PROVE r[k].role # r[k - 1].role
  <2>1. k \in 2 .. Len(m) /\ k \in 1 .. Len(m) /\ k - 1 \in 1 .. Len(m)
    BY <1>1, <1>4
  <2> QED BY <1>5, <1>10, <2>1 DEF Conversation
<1>11. \A x \in s \cup {t} : \E k \in 1 .. Len(r) : x \in r[k].texts
  <2>1. \A x \in s : \E k \in 1 .. Len(m) : x \in m[k].texts
    BY DEF Conversation
  <2> QED BY <1>2, <1>4, <1>5, <2>1
<1>12. \A k \in 1 .. Len(r) : r[k].texts \subseteq s \cup {t}
  <2>1. \A k \in 1 .. Len(m) : m[k].texts \subseteq s
    BY DEF Conversation
  <2> QED BY <1>4, <1>5, <2>1
<1>13. \A k, j \in 1 .. Len(r) : k # j => r[k].texts \cap r[j].texts = {}
  <2>1. /\ \A k \in 1 .. Len(m) : m[k].texts \subseteq s
        /\ \A k, j \in 1 .. Len(m) : k # j => m[k].texts \cap m[j].texts = {}
    BY DEF Conversation
  <2>2. \A k \in 1 .. Len(m) : t \notin m[k].texts
    BY <2>1
  <2> SUFFICES ASSUME NEW k \in 1 .. Len(m), NEW j \in 1 .. Len(m), k # j PROVE r[k].texts \cap r[j].texts = {}
    BY <1>4
  <2>3. m[k].texts \cap m[j].texts = {} /\ t \notin m[k].texts /\ t \notin m[j].texts
    BY <2>1, <2>2
  <2>4. r[k].texts = m[k].texts \/ r[j].texts = m[j].texts
    BY <1>5
  <2>5. r[k].texts \subseteq m[k].texts \cup {t} /\ r[j].texts \subseteq m[j].texts \cup {t}
    BY <1>5
  <2> QED BY <2>3, <2>4, <2>5
<1>14. Conversation(r, s \cup {t})
  BY <1>7, <1>8, <1>9, <1>10, <1>11, <1>12, <1>13 DEF Conversation
<1> QED BY <1>a, <1>14

\* AgentChat::send's first step.
LEMMA ConvText ==
  ASSUME NEW m \in Seq(Message), NEW s, NEW t \in Nat, Conversation(m, s), t \notin s
  PROVE  Conversation(WithText(m, t), s \cup {t}) /\ EndsWithUser(WithText(m, t))
<1>1. CASE Anthropic /\ m # <<>> /\ Last(m).role = "user"
  <2>1. WithText(m, t) = [m EXCEPT ![Len(m)].texts = @ \cup {t}]
    BY <1>1 DEF WithText
  <2>2. Last(m) = m[Len(m)] /\ Len(m) \in 1 .. Len(m) /\ m[Len(m)] \in Message
    BY <1>1 DEF Last
  <2> DEFINE new == [m[Len(m)] EXCEPT !.texts = @ \cup {t}]
  <2>3. new \in Message /\ new.role = "user" /\ WithText(m, t) = [m EXCEPT ![Len(m)] = new]
    BY <1>1, <2>1, <2>2 DEF Message
  <2>4. Conversation([m EXCEPT ![Len(m)].texts = @ \cup {t}], s \cup {t})
    BY <1>1, ConvJoin
  <2> HIDE DEF new
  <2>5. Len([m EXCEPT ![Len(m)] = new]) = Len(m) /\ [m EXCEPT ![Len(m)] = new][Len(m)] = new
    BY <2>2, <2>3, ExceptSeq
  <2>6. EndsWithUser([m EXCEPT ![Len(m)] = new])
    BY <2>2, <2>3, <2>5 DEF EndsWithUser
  <2> QED BY <2>1, <2>3, <2>4, <2>6
<1>2. CASE ~(Anthropic /\ m # <<>> /\ Last(m).role = "user")
  <2>1. WithText(m, t) = Append(m, UserMsg({t}, 0))
    BY <1>2 DEF WithText
  <2>2. UserMsg({t}, 0) \in Message /\ UserMsg({t}, 0).n = 0 /\ UserMsg({t}, 0).role = "user" /\ UserMsg({t}, 0).texts = {t}
    BY DEF UserMsg, Message
  <2>3. Anthropic /\ m # <<>> => "user" # m[Len(m)].role
    BY <1>2 DEF Last
  <2>4. Conversation(Append(m, UserMsg({t}, 0)), s \cup {t})
    BY <2>2, <2>3, ConvAppend
  <2>5. EndsWithUser(Append(m, UserMsg({t}, 0)))
    BY <2>2 DEF EndsWithUser
  <2> QED BY <2>1, <2>4, <2>5
<1> QED BY <1>1, <1>2

\* An answer with n calls and the n results.
LEMMA ConvResults ==
  ASSUME NEW m \in Seq(Message), NEW s, NEW n \in Nat, Conversation(m, s), EndsWithUser(m)
  PROVE  /\ Conversation(WithResults(Append(m, AssistantMsg(n)), n), s)
         /\ EndsWithUser(WithResults(Append(m, AssistantMsg(n)), n))
<1> DEFINE a == Append(m, AssistantMsg(n))
           r == WithResults(a, n)
<1>1. a \in Seq(Message) /\ r \in Seq(Message)
  BY MessagesType
<1>2. /\ Len(m) \in Nat \ {0} /\ m # <<>> /\ Len(a) = Len(m) + 1 /\ a[Len(m) + 1] = AssistantMsg(n)
      /\ \A k \in 1 .. Len(m) : a[k] = m[k]
  BY DEF EndsWithUser
<1>3. /\ AssistantMsg(n).role = "assistant" /\ AssistantMsg(n).n = n /\ AssistantMsg(n).texts = {}
      /\ UserMsg({}, n).role = "user" /\ UserMsg({}, n).n = n /\ UserMsg({}, n).texts = {}
      /\ ToolMsg.role = "tool" /\ ToolMsg.n = 1 /\ ToolMsg.texts = {}
  BY DEF AssistantMsg, UserMsg, ToolMsg
<1>4. CASE Anthropic
  <2>1. r = Append(a, UserMsg({}, n))
    BY <1>4 DEF WithResults
  <2>2. /\ Len(r) = Len(m) + 2 /\ r[Len(m) + 2] = UserMsg({}, n) /\ r[Len(m) + 1] = AssistantMsg(n)
        /\ \A k \in 1 .. Len(m) : r[k] = m[k]
    BY <1>1, <1>2, <2>1
  <2>3. m[Len(m)].role = "user" /\ r[Len(m)] = m[Len(m)]
    BY <1>2, <1>4, <2>2 DEF EndsWithUser
  <2> HIDE DEF r, a
  <2>4. \A k \in (Len(m) + 1) .. Len(r) : k = Len(m) + 1 \/ k = Len(m) + 2
    BY <1>2, <2>2
  <2>5. Answered(r, Len(m) + 1)
    BY <1>2, <1>3, <1>4, <2>2 DEF Answered
  <2>6. Called(r, Len(m) + 2)
    BY <1>2, <1>3, <2>2 DEF Called
  <2>7. \A k \in (Len(m) + 1) .. Len(r) :
           /\ r[k].role = "assistant" /\ r[k].n > 0 => Answered(r, k)
           /\ k > 1 /\ r[k].role # "assistant" /\ r[k].n > 0 => Called(r, k)
           /\ Anthropic /\ k > 1 => r[k].role # r[k - 1].role
           /\ r[k].texts \subseteq {}
           /\ \A j \in (Len(m) + 1) .. Len(r) : j # k => r[j].texts \cap r[k].texts = {}
    BY <1>2, <1>3, <2>2, <2>3, <2>4, <2>5, <2>6
  <2>8. Len(m) <= Len(r)
    BY <1>2, <2>2
  <2>9. Conversation(r, s \cup {})
    BY <1>1, <1>2, <2>2, <2>7, <2>8, ConvExtend
  <2>10. EndsWithUser(r)
    BY <1>1, <1>2, <1>3, <2>2 DEF EndsWithUser
  <2>11. s \cup {} = s
    OBVIOUS
  <2> QED BY <2>9, <2>10, <2>11 DEF r, a
<1>5. CASE ~Anthropic
  <2> DEFINE tools == [k \in 1 .. n |-> ToolMsg]
  <2>1. r = a \o tools
    BY <1>5 DEF WithResults
  <2>2. tools \in Seq(Message) /\ Len(tools) = n /\ \A k \in 1 .. n : tools[k] = ToolMsg
    BY DEF ToolMsg, Message
  <2> HIDE DEF tools, r, a
  <2>3. /\ Len(r) = Len(a) + n
        /\ \A k \in 1 .. Len(a) : r[k] = a[k]
        /\ \A k \in (Len(a) + 1) .. Len(r) : r[k] = tools[k - Len(a)] /\ k - Len(a) \in 1 .. n
    <3>1. /\ Len(a) \in Nat /\ Len(r) = Len(a) + n
          /\ \A k \in 1 .. (Len(a) + n) : r[k] = IF k <= Len(a) THEN a[k] ELSE tools[k - Len(a)]
      <4>1. Len(a) \in Nat
        BY <1>1
      <4>2. /\ Len(a \o tools) = Len(a) + Len(tools)
            /\ \A i \in 1 .. Len(a) + Len(tools) : (a \o tools)[i] = IF i <= Len(a) THEN a[i] ELSE tools[i - Len(a)]
        BY <1>1, <2>2, ConcatProperties, Zenon
      <4> QED BY <2>1, <2>2, <4>1, <4>2
    <3>2. \A k \in (Len(a) + 1) .. (Len(a) + n) : k \in 1 .. (Len(a) + n) /\ ~(k <= Len(a))
      BY <3>1
    <3>4. \A k \in 1 .. Len(a) : k \in 1 .. (Len(a) + n) /\ k <= Len(a)
      BY <3>1
    <3>3. \A k \in (Len(a) + 1) .. (Len(a) + n) : k - Len(a) \in 1 .. n
      BY <3>1
    <3> QED BY <3>1, <3>2, <3>3, <3>4
  <2>4. /\ Len(r) = Len(m) + 1 + n /\ r[Len(m) + 1] = AssistantMsg(n)
        /\ \A k \in 1 .. Len(m) : r[k] = m[k]
        /\ \A k \in (Len(m) + 2) .. Len(r) : r[k] = ToolMsg
    <3>1. Len(r) = Len(m) + 1 + n
      BY <1>2, <2>3
    <3>2. Len(m) + 1 \in 1 .. Len(a) /\ \A k \in 1 .. Len(m) : k \in 1 .. Len(a)
      BY <1>2
    <3>3. \A k \in (Len(m) + 2) .. Len(r) : k \in (Len(a) + 1) .. Len(r)
      BY <1>2
    <3> QED BY <1>2, <2>2, <2>3, <3>1, <3>2, <3>3
  <2>5. Answered(r, Len(m) + 1)
    <3>1. \A j \in 1 .. n : Len(m) + 1 + j \in (Len(m) + 2) .. Len(r) /\ Len(m) + 1 + j <= Len(r)
      BY <1>2, <2>4
    <3> QED BY <1>3, <1>5, <2>4, <3>1 DEF Answered
  <2>6. \A k \in (Len(m) + 2) .. Len(r) : Called(r, k)
    <3>1. \A k \in (Len(m) + 2) .. Len(r) : Len(m) + 1 \in 1 .. (k - 1) /\ k - (Len(m) + 1) <= n
      BY <1>2, <2>4
    <3> QED BY <1>3, <2>4, <3>1 DEF Called
  <2>7. \A k \in (Len(m) + 1) .. Len(r) : k = Len(m) + 1 \/ k \in (Len(m) + 2) .. Len(r)
    BY <1>2, <2>4
  <2>8. \A k \in (Len(m) + 1) .. Len(r) :
           /\ r[k].role = "assistant" /\ r[k].n > 0 => Answered(r, k)
           /\ k > 1 /\ r[k].role # "assistant" /\ r[k].n > 0 => Called(r, k)
           /\ Anthropic /\ k > 1 => r[k].role # r[k - 1].role
           /\ r[k].texts \subseteq {}
           /\ \A j \in (Len(m) + 1) .. Len(r) : j # k => r[j].texts \cap r[k].texts = {}
    BY <1>3, <1>5, <2>4, <2>5, <2>6, <2>7
  <2>9. Len(m) <= Len(r)
    BY <1>2, <2>4
  <2>10. Conversation(r, s \cup {})
    BY <1>1, <1>2, <2>4, <2>8, <2>9, ConvExtend
  <2>11. EndsWithUser(r)
    BY <1>1, <1>2, <1>5, <2>4 DEF EndsWithUser
  <2>12. s \cup {} = s
    OBVIOUS
  <2> QED BY <2>10, <2>11, <2>12 DEF r, a
<1> QED BY <1>4, <1>5

(***************************************************************************)
(* The conversation of a step.                                             *)
(***************************************************************************)
LEMMA TalkPrimed ==
  ASSUME scen' = scen,
         \A t \in said' : t <= chat'.done,
         work'.pc \notin Calling => Conversation(chat'.msgs, said'),
         work'.pc \in {"round", "posted"} \cup Calling => Conversation(chat'.start, said' \ {chat'.turn}),
         work'.pc \in {"round", "posted"} => EndsWithUser(chat'.msgs),
         work'.pc \in Calling => \E m \in Seq(Message) : /\ chat'.msgs = Append(m, AssistantMsg(Len(work'.calls)))
                                                         /\ Conversation(m, said') /\ EndsWithUser(m)
  PROVE  TalkOK'
<1>1. \A m, s : Conversation(m, s) <=> Conversation(m, s)'
  BY DEF Conversation, Answered, Called, Anthropic
<1>2. \A m : EndsWithUser(m) <=> EndsWithUser(m)'
  BY DEF EndsWithUser, Anthropic
<1>3. work'.pc \notin Calling => Conversation(chat.msgs, said)'
  BY DEF Conversation, Answered, Called, Anthropic
<1>4. work'.pc \in {"round", "posted"} \cup Calling => Conversation(chat.start, said \ {chat.turn})'
  BY DEF Conversation, Answered, Called, Anthropic
<1>5. work'.pc \in {"round", "posted"} => EndsWithUser(chat.msgs)'
  BY DEF EndsWithUser, Anthropic
<1>6. work'.pc \in Calling => \E m \in Seq(Message) : /\ chat'.msgs = Append(m, AssistantMsg(Len(work'.calls)))
                                                      /\ Conversation(m, said)' /\ EndsWithUser(m)'
  <2> SUFFICES ASSUME NEW m \in Seq(Message), chat'.msgs = Append(m, AssistantMsg(Len(work'.calls))),
                      Conversation(m, said'), EndsWithUser(m)
               PROVE  Conversation(m, said)' /\ EndsWithUser(m)'
    OBVIOUS
  <2>1. Conversation(m, said)'
    BY DEF Conversation, Answered, Called, Anthropic
  <2> QED BY <1>2, <2>1
<1> QED BY <1>3, <1>4, <1>5, <1>6 DEF TalkOK, AssistantMsg

\* Nothing is said.
LEMMA TalkFrame ==
  ASSUME TalkOK, scen' = scen, said' = said,
         chat'.msgs = chat.msgs, chat'.start = chat.start, chat'.turn = chat.turn, chat'.done = chat.done,
         work'.calls = work.calls \/ work'.pc \notin Calling,
         \/ work'.pc = work.pc
         \/ work'.pc \in Calling /\ work.pc \in Calling
         \/ work'.pc \in {"round", "posted"} /\ work.pc \in {"round", "posted"}
         \/ work'.pc \notin {"round", "posted"} \cup Calling /\ work.pc \notin Calling
  PROVE  TalkOK'
<1>1. {"round", "posted"} \cap Calling = {}
  BY DEF Calling, Waiting
<1>2. /\ \A t \in said' : t <= chat'.done
      /\ work'.pc \notin Calling => Conversation(chat'.msgs, said')
      /\ work'.pc \in {"round", "posted"} \cup Calling => Conversation(chat'.start, said' \ {chat'.turn})
      /\ work'.pc \in {"round", "posted"} => EndsWithUser(chat'.msgs)
  BY <1>1 DEF TalkOK
<1>3. work'.pc \in Calling => \E m \in Seq(Message) : /\ chat'.msgs = Append(m, AssistantMsg(Len(work'.calls)))
                                                      /\ Conversation(m, said') /\ EndsWithUser(m)
  <2>1. work'.pc \in Calling => work.pc \in Calling /\ work'.calls = work.calls
    BY <1>1
  <2> QED BY <2>1 DEF TalkOK
<1> QED BY <1>2, <1>3, TalkPrimed

LEMMA NoTalk == Conversation(<<>>, {})
BY DEF Conversation

\* A turn that fails: the text is taken back, or the conversation is whole.
LEMMA TalkFails ==
  ASSUME TypeOK, TalkOK, scen' = scen, FailTurn, work.pc \in {"round", "posted"}
  PROVE  TalkOK'
<1>1. chat \in TalkType /\ work \in Work
  BY DEF TypeOK, PanelType
<1>2. work'.pc = "finish" /\ chat'.done = chat.done /\ chat'.msgs = Failed(chat.msgs, chat)
  BY <1>1 DEF FailTurn, EndTurn, TalkType, Work
<1>3. "finish" \notin {"round", "posted"} \cup Calling /\ work.pc \notin Calling
  BY DEF Calling, Waiting
<1>4. Conversation(chat'.msgs, said')
  BY <1>2, <1>3 DEF TalkOK, FailTurn, Failed
<1>5. \A t \in said' : t <= chat'.done
  BY <1>2 DEF TalkOK, FailTurn
<1> QED BY <1>2, <1>3, <1>4, <1>5, TalkPrimed

LEMMA TalkUser ==
  ASSUME TypeOK, TurnsOK, TalkOK, User \/ SendStart \/ UiEvent \/ CloseSession
  PROVE  TalkOK'
<1>1. chat \in TalkType /\ work \in Work
  BY DEF TypeOK, PanelType
<1>w. Woken.calls = work.calls /\ (Woken.pc = work.pc \/ (Woken.pc \in Calling /\ work.pc \in Calling))
  BY <1>1 DEF Woken, Work, Calling, Waiting
<1>2. UNCHANGED scen
  BY DEF User, SendStart, UiEvent, CloseSession, SetTarget, Send, SendRefused, Stop, NewChat, ChangeSettings, Close, Answer
<1>3. CASE NewChat \/ (Send /\ ui.settings)
  <2>1. chat' = NoChat /\ said' = {} /\ work' = work /\ ~ui.busy
    BY <1>3 DEF NewChat, Send
  <2>2. work.pc \notin TurnPc
    BY <2>1 DEF TurnsOK
  <2>3. work'.pc \notin {"round", "posted"} \cup Calling
    BY <2>1, <2>2 DEF TurnPc
  <2>4. Conversation(chat'.msgs, said') /\ \A t \in said' : t <= chat'.done
    BY <2>1, NoTalk DEF NoChat
  <2> QED BY <1>2, <2>3, <2>4, TalkPrimed
<1>4. CASE (Send /\ ~ui.settings) \/ SendRefused \/ ChangeSettings \/ UiEvent \/ CloseSession
           \/ \E p \in Pids \cup {None} : SetTarget(p)
  <2>1. UNCHANGED <<chat, said, work>>
    BY <1>4 DEF SetTarget, Send, SendRefused, ChangeSettings, UiEvent, CloseSession
  <2> QED BY <1>2, <2>1, TalkFrame
<1>5. CASE SendStart \/ Stop \/ Close
  <2>1. /\ chat'.msgs = chat.msgs /\ chat'.start = chat.start /\ chat'.turn = chat.turn /\ chat'.done = chat.done
        /\ said' = said /\ (work' = work \/ work' = Woken)
    BY <1>1, <1>5 DEF SendStart, Stop, Close, StopTurn, TalkType
  <2> QED BY <1>2, <1>w, <2>1, TalkFrame
<1>6. ASSUME NEW allow \in BOOLEAN, NEW forChat \in BOOLEAN, Answer(allow, forChat) PROVE TalkOK'
  <2>1. UNCHANGED <<chat, said>> /\ (work' = work \/ work' = Woken)
    BY <1>6 DEF Answer
  <2> QED BY <1>2, <1>w, <2>1, TalkFrame
<1> QED BY <1>3, <1>4, <1>5, <1>6 DEF User

LEMMA TalkWorker ==
  ASSUME TypeOK, TurnsOK, TalkOK, Worker
  PROVE  TalkOK'
<1>1. /\ chat \in TalkType /\ work \in Work /\ scen \in Scenarios /\ calls \in Nat
  BY DEF TypeOK, PanelType
<1>2. UNCHANGED scen
  BY DEF Worker, TurnSend, Round, ReplyFails, Reply, CallsDone, CallSkipped, CallStart, Ask,
         WaitTest, WaitSleep, TurnFinish, WorkerSync, TurnStart, CallRun, CallEnds
<1>n. NextCall.pc = "call" /\ NextCall.calls = work.calls
  BY <1>1 DEF NextCall, Work
<1>s. /\ chat.msgs \in Seq(Message) /\ chat.done \in Nat /\ Len(work.calls) \in Nat
      /\ {"round", "posted"} \cap Calling = {} /\ {"idle", "send", "finish"} \cap ({"round", "posted"} \cup Calling) = {}
      /\ {"call", "ask", "run", "working"} \cup Waiting \subseteq Calling
  BY <1>1 DEF TalkType, Work, Calling, Waiting
<1>3. CASE WorkerSync \/ TurnStart \/ TurnFinish
  <2>1. UNCHANGED <<chat, said>> /\ work.pc \in {"idle", "finish"} /\ (work' = work \/ work'.pc \in {"idle", "send"})
    BY <1>1, <1>3 DEF WorkerSync, TurnStart, TurnFinish, WorkerRuns, Work
  <2>2. work.pc \notin Calling /\ work'.pc \notin {"round", "posted"} \cup Calling
    BY <1>s, <2>1
  <2> QED BY <1>2, <2>1, <2>2, TalkFrame
<1>4. CASE CallSkipped \/ CallStart \/ Ask \/ WaitTest \/ WaitSleep \/ CallRun \/ CallEnds
  <2>1. UNCHANGED <<chat, said>> /\ work.pc \in Calling
    BY <1>4 DEF CallSkipped, CallStart, Ask, WaitTest, WaitSleep, CallRun, CallEnds, Calling, Waiting
  <2>2. work'.calls = work.calls /\ work'.pc \in Calling
    BY <1>1, <1>4, <1>n DEF CallSkipped, CallStart, Ask, WaitTest, WaitSleep, CallRun, CallEnds, Work, Calling, Waiting
  <2> QED BY <1>2, <2>1, <2>2, TalkFrame
<1>5. CASE TurnSend
  <2>1. CASE ask.stopping
    <3>1. UNCHANGED <<chat, said>> /\ work'.pc = "finish" /\ work.pc = "send"
      BY <1>1, <1>5, <2>1 DEF TurnSend, Work
    <3> QED BY <1>2, <1>s, <3>1, TalkFrame
  <2>2. CASE ~ask.stopping
    <3> DEFINE t == chat.done + 1
    <3>1. /\ chat'.msgs = WithText(chat.msgs, t) /\ chat'.start = chat.msgs /\ chat'.turn = t /\ chat'.done = t
          /\ said' = said \cup {t} /\ work'.pc = "round" /\ work.pc = "send"
      BY <1>1, <1>5, <2>2 DEF TurnSend, Work, TalkType
    <3>2. t \in Nat /\ t \notin said /\ \A x \in said : x <= t
      <4>1. said \in SUBSET Nat
        BY DEF TypeOK
      <4>2. \A x \in said : x <= chat.done /\ x \in Nat
        BY <4>1 DEF TalkOK
      <4> QED BY <1>s, <4>2
    <3>3. t <= t
      BY <3>2
    <3> HIDE DEF t
    <3>4. Conversation(chat.msgs, said)
      BY <1>s, <3>1 DEF TalkOK
    <3>5. Conversation(WithText(chat.msgs, t), said \cup {t}) /\ EndsWithUser(WithText(chat.msgs, t))
      BY <1>s, <3>2, <3>4, ConvText
    <3>6. said' \ {t} = said
      BY <3>1, <3>2
    <3>7. "round" \notin Calling
      BY <1>s
    <3> QED BY <1>2, <3>1, <3>2, <3>3, <3>4, <3>5, <3>6, <3>7, TalkPrimed
  <2> QED BY <2>1, <2>2
<1>6. CASE Round
  <2>1. work.pc = "round"
    BY <1>6 DEF Round
  <2>2. CASE FailTurn
    BY <1>2, <2>1, <2>2, TalkFails
  <2>3. CASE EndTurn(chat.msgs, FALSE) /\ UNCHANGED said
    <3>1. /\ chat'.msgs = chat.msgs /\ chat'.start = chat.start /\ chat'.turn = chat.turn /\ chat'.done = chat.done
          /\ work'.pc = "finish"
      BY <1>1, <2>3 DEF EndTurn, TalkType, Work
    <3> QED BY <1>2, <1>s, <2>1, <2>3, <3>1, TalkFrame
  <2>4. CASE work' = [work EXCEPT !.pc = "posted"] /\ UNCHANGED <<chat, said>>
    <3>1. work'.pc = "posted" /\ work'.calls = work.calls
      BY <1>1, <2>4 DEF Work
    <3> QED BY <1>2, <2>1, <2>4, <3>1, TalkFrame
  <2> QED BY <1>6, <2>2, <2>3, <2>4 DEF Round
<1>7. CASE ReplyFails
  BY <1>2, <1>7, TalkFails DEF ReplyFails
<1>8. CASE Reply
  <2>1. work.pc = "posted" /\ UNCHANGED said
    BY <1>8 DEF Reply
  <2>2. /\ Conversation(chat.msgs, said) /\ EndsWithUser(chat.msgs) /\ Conversation(chat.start, said \ {chat.turn})
        /\ \A t \in said : t <= chat.done
    BY <1>s, <2>1 DEF TalkOK
  <2>3. ASSUME EndTurn(chat.msgs, TRUE) \/ EndTurn(Append(chat.msgs, AssistantMsg(0)), TRUE) PROVE TalkOK'
    <3>1. /\ chat'.msgs \in {chat.msgs, Append(chat.msgs, AssistantMsg(0))} /\ chat'.done = chat.done
          /\ work'.pc = "finish"
      BY <1>1, <2>3 DEF EndTurn, TalkType, Work
    <3>2. /\ AssistantMsg(0) \in Message /\ AssistantMsg(0).n = 0 /\ AssistantMsg(0).texts = {}
          /\ AssistantMsg(0).role = "assistant"
      BY DEF AssistantMsg, Message
    <3>3. chat.msgs # <<>> /\ (Anthropic => chat.msgs[Len(chat.msgs)].role # "assistant")
      BY <2>2 DEF EndsWithUser
    <3>4. Conversation(Append(chat.msgs, AssistantMsg(0)), said \cup AssistantMsg(0).texts)
      BY <1>s, <2>2, <3>2, <3>3, ConvAppend
    <3>5. said \cup AssistantMsg(0).texts = said
      BY <3>2
    <3>6. Conversation(Append(chat.msgs, AssistantMsg(0)), said)
      BY <3>4, <3>5
    <3>7. Conversation(chat'.msgs, said')
      BY <2>1, <2>2, <3>1, <3>6
    <3>8. \A t \in said' : t <= chat'.done
      BY <2>1, <2>2, <3>1
    <3>9. work'.pc \notin {"round", "posted"} \cup Calling
      BY <1>s, <3>1
    <3> QED BY <1>2, <3>7, <3>8, <3>9, TalkPrimed
  <2>4. ASSUME NEW reply \in scen.replies,
               chat' = [chat EXCEPT !.msgs = Append(@, AssistantMsg(Len(reply)))],
               work' = [work EXCEPT !.pc = "call", !.calls = Numbered(reply), !.i = 1]
        PROVE  TalkOK'
    <3>1. /\ chat'.msgs = Append(chat.msgs, AssistantMsg(Len(reply)))
          /\ chat'.start = chat.start /\ chat'.turn = chat.turn /\ chat'.done = chat.done
          /\ work'.pc = "call" /\ work'.calls = Numbered(reply)
      BY <1>1, <2>4 DEF TalkType, Work
    <3>2. Len(Numbered(reply)) = Len(reply)
      <4>1. reply \in Seq(Asked)
        BY <1>1, ReplyOfScenario DEF Replies
      <4> QED BY <4>1 DEF Numbered
    <3>3. "call" \in Calling /\ "call" \notin {"round", "posted"}
      BY DEF Calling
    <3> QED BY <1>2, <1>s, <2>1, <2>2, <3>1, <3>2, <3>3, TalkPrimed
  <2> QED BY <1>8, <2>3, <2>4 DEF Reply
<1>9. CASE CallsDone
  <2> DEFINE new == WithResults(chat.msgs, Len(work.calls))
  <2>1. work.pc = "call" /\ UNCHANGED said /\ work.pc \in Calling
    BY <1>9 DEF CallsDone, Calling
  <2>2. PICK m \in Seq(Message) : /\ chat.msgs = Append(m, AssistantMsg(Len(work.calls)))
                                  /\ Conversation(m, said) /\ EndsWithUser(m)
    BY <2>1 DEF TalkOK
  <2>3. Conversation(new, said) /\ EndsWithUser(new)
    BY <1>s, <2>2, ConvResults
  <2>4. \/ EndTurn(new, FALSE)
        \/ chat' = [chat EXCEPT !.msgs = new, !.acted = TRUE, !.round = @ + 1] /\ work' = [work EXCEPT !.pc = "round"]
    BY <1>9 DEF CallsDone
  <2> HIDE DEF new
  <2>5. /\ chat'.msgs = new /\ chat'.start = chat.start /\ chat'.turn = chat.turn /\ chat'.done = chat.done
        /\ work'.pc \in {"finish", "round"}
    BY <1>1, <2>4 DEF EndTurn, TalkType, Work
  <2>6. Conversation(chat.start, said \ {chat.turn}) /\ \A t \in said : t <= chat.done
    BY <2>1 DEF TalkOK
  <2>7. work'.pc \notin Calling
    BY <1>s, <2>5
  <2> QED BY <1>2, <2>1, <2>3, <2>5, <2>6, <2>7, TalkPrimed
<1> QED BY <1>3, <1>4, <1>5, <1>6, <1>7, <1>8, <1>9 DEF Worker

LEMMA TalkStep ==
  ASSUME TypeOK, TurnsOK, TalkOK, Next
  PROVE  TalkOK'
<1>1. work \in Work
  BY DEF TypeOK, PanelType
<1>2. CASE McpCall \/ McpRun \/ McpEnds \/ McpQuit \/ FreezerStep \/ World
  <2>1. UNCHANGED <<scen, chat, said>>
    BY <1>2 DEF McpCall, McpRun, McpEnds, McpQuit, FreezerStep, World, panelVars
  <2>2. \/ work' = work
        \/ work.pc \in {"idle", "mcp", "mcpwork"} /\ work'.pc \in {"idle", "mcp", "mcpwork"}
    BY <1>1, <1>2 DEF McpCall, McpRun, McpEnds, McpQuit, FreezerStep, World, panelVars, Work
  <2>3. {"idle", "mcp", "mcpwork"} \cap ({"round", "posted"} \cup Calling) = {}
    BY DEF Calling, Waiting
  <2> QED BY <2>1, <2>2, <2>3, TalkFrame
<1> QED BY <1>2, TalkUser, TalkWorker DEF Next

(***************************************************************************)
(* The theorems.                                                           *)
(***************************************************************************)
LEMMA InitKept ==
  ASSUME Init
  PROVE  IInv
<1>1. scen \in Scenarios /\ scen.allow \in BOOLEAN /\ scen.budget \in Budgets
  BY AgentAssumption DEF Init
<1>2. /\ sess = EmptySession(scen.allow) /\ game = EmptyGame /\ stuck = {}
      /\ sess.proc = None /\ sess.records = <<>> /\ sess.scripts = <<>> /\ sess.result = None /\ sess.undo = None
      /\ sess.paths = None /\ sess.allow = scen.allow
  BY DEF Init, SessionInit, EmptySession
<1>3. /\ uiq = <<>> /\ wq = <<>> /\ calls = 0 /\ chat = NoChat /\ left = scen.budget
      /\ consent = {} /\ grant = {} /\ gone = {} /\ said = {}
      /\ Len(uiq) = 0 /\ Len(wq) = 0 /\ 1 .. 0 = {}
  BY DEF Init
<1>4. /\ ui.target = None /\ ui.left = {} /\ ui.busy = FALSE /\ ui.sending = FALSE /\ ui.allowPid = None
      /\ ui.shown = NoQuestion
      /\ ask.waiting = FALSE /\ work.pc = "idle" /\ work.calls = <<>>
  BY DEF Init
<1>5. /\ "idle" \notin TurnPc /\ "idle" \notin McpPc /\ "idle" \notin Waiting /\ "idle" \notin Calling
      /\ "idle" \notin InCalls
  BY DEF TurnPc, McpPc, Waiting, Calling, InCalls
<1>6. SessionType
  <2>1. <<>> \in Seq(Record) /\ <<>> \in Seq(Nat) /\ None \in Target
    BY Constants1
  <2>2. sess \in Session
    BY <1>1, <1>2, <2>1 DEF EmptySession, Session
  <2>3. [alive |-> TRUE, patches |-> {}, val |-> 0, trap |-> None] \in Game
    BY DEF Game, None
  <2>4. game \in [Pids -> Game]
    BY <1>2, <2>3 DEF EmptyGame
  <2> QED BY <1>2, <2>2, <2>4 DEF SessionType
<1>7. PanelType
  <2>1. ui \in Ui
    BY Constants1 DEF Init, Ui
  <2>2. ask \in Approval
    BY Constants1 DEF Init, Approval
  <2>3. work \in Work
    <3>1. 1 \in Nat \ {0}
      OBVIOUS
    <3> QED BY <3>1, Constants1 DEF Init, Work
  <2>4. uiq \in Seq(Event) /\ wq \in Seq(Job)
    BY <1>3
  <2> QED BY <1>3, <2>1, <2>2, <2>3, <2>4, Constants1 DEF PanelType
<1>8. TypeOK
  BY <1>1, <1>3, <1>6, <1>7 DEF TypeOK
<1>9. TurnsOK
  BY <1>3, <1>4, <1>5 DEF TurnsOK, Handed, Returned
<1>10. QuestionsOK
  BY <1>3, <1>4, <1>5 DEF QuestionsOK, Shows, Cleared
<1>11. ConsentOK
  <2>1. Len(work.calls) = 0 /\ Len(sess.records) = 0
    BY <1>2, <1>4
  <2> QED BY <1>2, <1>3, <1>4, <1>5, <2>1 DEF ConsentOK
<1>12. KeptOK
  <2>1. \A p \in Pids : game[p].patches = {}
    BY <1>2 DEF EmptyGame
  <2> QED BY <1>2, <2>1 DEF KeptOK
<1>13. LeavingOK
  BY <1>2, <1>3, <1>4 DEF LeavingOK
<1>14. TalkOK
  BY <1>3, <1>4, <1>5, NoTalk DEF TalkOK, NoChat
<1> QED BY <1>8, <1>9, <1>10, <1>11, <1>12, <1>13, <1>14 DEF IInv

LEMMA StepKept ==
  ASSUME IInv, [Next]_vars
  PROVE  IInv'
<1>1. CASE Next
  BY <1>1, SessionStep, TypeStep, TurnsStep, QuestionsStep, ConsentStep, LeavingStep, TalkStep DEF IInv
<1>2. CASE UNCHANGED vars
  <2>1. TypeOK' /\ KeptOK'
    BY <1>2 DEF IInv, vars, panelVars, sessionVars, TypeOK, SessionType, PanelType, KeptOK, ScriptIds
  <2>2. TurnsOK' /\ QuestionsOK'
    BY <1>2 DEF IInv, vars, panelVars, TurnsOK, QuestionsOK, Handed, Returned, Shows, Cleared, Panel
  <2>3. ConsentOK'
    BY <1>2 DEF IInv, vars, panelVars, sessionVars, ConsentOK, Current, Question, GrantFor, NeedsApproval, Mandate, Panel
  <2>4. LeavingOK'
    BY <1>2 DEF IInv, vars, panelVars, sessionVars, LeavingOK, ToLeave
  <2>5. TalkOK'
    BY <1>2, TalkFrame DEF IInv, vars, panelVars
  <2> QED BY <2>1, <2>2, <2>3, <2>4, <2>5 DEF IInv
<1> QED BY <1>1, <1>2

\* The panel, its worker and its session keep the inductive invariant.
THEOREM AgentInvariant == Spec => []IInv
BY InitKept, StepKept, PTL DEF Spec

\* AgentSession::detach, attach and ~AgentSession, and the panel's syncSession:
\* a live patch is known to the session of its process or its undo failed,
\* results are of the process attached to, and after a turn that is none the
\* window has left.
THEOREM LeftClean == Spec => []NothingLeftBehind
<1>1. IInv => NothingLeftBehind
  <2> SUFFICES ASSUME IInv PROVE NothingLeftBehind
    OBVIOUS
  <2>1. KeptOK /\ LeavingOK
    BY DEF IInv
  <2>2. DOMAIN sess.records = 1 .. Len(sess.records)
    BY DEF IInv, TypeOK, SessionType, Session
  <2>3. ASSUME Panel, ~ui.busy, wq = <<>>, ~ui.refused PROVE sess.proc \notin gone
    <3>1. Len(wq) = 0 /\ 1 .. 0 = {} /\ ui.left = {}
      BY <2>1, <2>3 DEF LeavingOK
    <3> QED BY <2>1, <3>1 DEF LeavingOK, ToLeave
  <2> QED BY <2>1, <2>2, <2>3 DEF NothingLeftBehind, KeptOK
<1> QED BY <1>1, AgentInvariant, PTL

\* AgentChat::send: every request the worker posts holds a conversation that
\* the model's server accepts, with each of the user's messages once.
THEOREM RequestsAreValid == Spec => []ConversationValid
<1>1. IInv => ConversationValid
  <2>1. "posted" \notin Calling
    BY DEF Calling, Waiting
  <2> QED BY <2>1 DEF IInv, TalkOK, ConversationValid, EndsWithUser
<1> QED BY <1>1, AgentInvariant, PTL

(***************************************************************************)
(* Changes to a game.                                                      *)
(***************************************************************************)
Approved ==
  \A p \in Pids :
    /\ game'[p].val # game[p].val /\ game'[p].val # 0 => Mandate(p, game'[p].val)
    /\ game'[p].trap # game[p].trap /\ game'[p].trap # None => Mandate(p, game'[p].trap)
    /\ \A id \in game'[p].patches \ game[p].patches : Mandate(p, id)
    /\ game'[p].patches # game[p].patches /\ game'[p].alive /\ sess.scripts # <<>> /\ sess'.scripts # <<>>
         => work.i <= Len(work.calls) /\ Mandate(p, Current.id)

LEMMA UndoingApproved == ASSUME Undoes PROVE Approved
BY DEF Undoes, Approved

LEMMA CallApproved ==
  ASSUME Changes(Current), work.i <= Len(work.calls), MayChange(Current) => Mandate(sess.proc, Current.id)
  PROVE  Approved
<1> SUFFICES ASSUME NEW p \in Pids
             PROVE  /\ game'[p].val # game[p].val /\ game'[p].val # 0 => Mandate(p, game'[p].val)
                    /\ game'[p].trap # game[p].trap /\ game'[p].trap # None => Mandate(p, game'[p].trap)
                    /\ \A id \in game'[p].patches \ game[p].patches : Mandate(p, id)
                    /\ game'[p].patches # game[p].patches /\ game'[p].alive /\ sess.scripts # <<>> /\ sess'.scripts # <<>>
                         => work.i <= Len(work.calls) /\ Mandate(p, Current.id)
  BY DEF Approved
<1>1. CASE game'[p] = game[p]
  BY <1>1
<1>2. CASE game'[p] # game[p]
  BY <1>2 DEF Changes
<1> QED BY <1>1, <1>2

LEMMA ApprovedStep ==
  ASSUME IInv, [Next]_vars
  PROVE  Approved
<1>0. /\ TypeOK /\ SessionType /\ KeptOK /\ ConsentOK /\ TurnsOK /\ work \in Work
  BY DEF IInv, TypeOK, PanelType
<1>s. ASSUME UNCHANGED sessionVars PROVE Approved
  BY <1>s DEF sessionVars, Approved
<1>1. CASE WorkerSync
  BY <1>0, <1>1, <1>s, DetachKeeps, UndoingApproved DEF WorkerSync
<1>2. CASE TurnStart
  <2>1. CASE UNCHANGED sessionVars
    BY <1>s, <2>1
  <2>2. CASE Head(wq).pid # None /\ Attach(Head(wq).pid)
    <3>1. wq \in Seq(Job) /\ wq # <<>>
      BY <1>0, <1>2 DEF TypeOK, PanelType, TurnStart, WorkerRuns
    <3>2. Head(wq) \in Job
      BY <3>1
    <3>3. Head(wq).pid \in Pids
      BY <2>2, <3>2 DEF Job, Target
    <3> QED BY <1>0, <2>2, <3>3, AttachKeeps, UndoingApproved
  <2> QED BY <1>2, <2>1, <2>2 DEF TurnStart
<1>3. CASE CallRun
  <2>1. work.i <= Len(work.calls) /\ Current \in CallType /\ (Current.tool = "attach" => Current.arg \in Pids)
    BY <1>0, <1>3, RunsOne
  <2>2. Panel /\ (MayChange(Current) => Mandate(sess.proc, Current.id))
    BY <1>0, <1>3 DEF CallRun, TurnsOK, ConsentOK, MayChange, Mandate, TurnPc, Calling
  <2>3. CASE Current.tool = "attach" /\ Attach(Current.arg)
    BY <1>0, <2>1, <2>3, AttachKeeps, UndoingApproved
  <2>4. CASE Quick(Current) \/ StartWork(Current)
    BY <1>0, <2>1, <2>2, <2>4, QuickKeeps, StartKeeps, CallApproved
  <2> QED BY <1>3, <2>3, <2>4 DEF CallRun
<1>4. CASE McpRun
  <2>1. CASE UNCHANGED sessionVars
    BY <1>s, <2>1
  <2>2. CASE ~UNCHANGED sessionVars
    <3>1. work.i <= Len(work.calls) /\ Current \in CallType /\ (Current.tool = "attach" => Current.arg \in Pids)
      BY <1>0, <1>4, <2>2, RunsOne
    <3>2. ~Panel /\ sess.allow = scen.allow
      BY <1>0, <1>4 DEF McpRun, TurnsOK, McpPc, ConsentOK
    <3>3. MayChange(Current) => Mandate(sess.proc, Current.id)
      BY <3>2 DEF MayChange, Mandate
    <3>4. CASE Current.tool = "attach" /\ Attach(Current.arg)
      BY <1>0, <3>1, <3>4, AttachKeeps, UndoingApproved
    <3>5. CASE Quick(Current) \/ StartWork(Current)
      BY <1>0, <3>1, <3>3, <3>5, QuickKeeps, StartKeeps, CallApproved
    <3> QED BY <1>4, <2>2, <3>4, <3>5 DEF McpRun
  <2> QED BY <2>1, <2>2
<1>5. CASE CallEnds \/ McpEnds
  <2>1. EndWork(Current) /\ sess.proc \in Pids
    <3>1. EndWork(Current) /\ sess.proc # None
      BY <1>0, <1>5 DEF CallEnds, McpEnds, ConsentOK
    <3> QED BY <1>0, <3>1 DEF SessionType, Session, Target
  <2>2. CASE game' = game
    BY <2>2 DEF Approved
  <2>3. CASE game' = [game EXCEPT ![sess.proc].trap = None]
    <3>1. \A p \in Pids : game'[p].val = game[p].val /\ game'[p].patches = game[p].patches
                          /\ game'[p].trap \in {game[p].trap, None}
      <4>1. game \in [Pids -> Game] /\ None \in Nat
        BY <1>0 DEF SessionType, None
      <4> QED BY <2>1, <2>3, <4>1, TrapSet
    <3> QED BY <3>1 DEF Approved
  <2> QED BY <2>1, <2>2, <2>3 DEF EndWork
<1>6. CASE CloseSession \/ McpQuit
  BY <1>0, <1>6, EndKeeps, UndoingApproved DEF CloseSession, McpQuit
<1>7. CASE FreezerStep
  <2>1. PICK k \in 1 .. Len(sess.records) :
          /\ sess.records[k].frozen
          /\ \A p \in Pids : game'[p] # game[p] =>
               /\ p = sess.proc /\ game'[p].val = sess.records[k].val
               /\ game'[p].patches = game[p].patches /\ game'[p].trap = game[p].trap
    BY <1>0, <1>7, FreezerKeeps DEF FreezerStep
  <2>2. Mandate(sess.proc, sess.records[k].val)
    BY <1>0, <2>1 DEF ConsentOK
  <2> SUFFICES ASSUME NEW p \in Pids
               PROVE  /\ game'[p].val # game[p].val => Mandate(p, game'[p].val)
                      /\ game'[p].trap = game[p].trap /\ game'[p].patches = game[p].patches
    BY DEF Approved
  <2>3. CASE game'[p] = game[p]
    BY <2>3
  <2>4. CASE game'[p] # game[p]
    BY <2>1, <2>2, <2>4
  <2> QED BY <2>3, <2>4
<1>8. CASE World
  <2>1. PICK q \in Pids : GameRuns(q) \/ GameExits(q)
    BY <1>8 DEF World
  <2>2. \A p \in Pids : game'[p] # game[p] =>
              /\ game'[p].val = 0 /\ game'[p].trap \in {None, game[p].trap}
              /\ game'[p].patches = game[p].patches \/ (game'[p].patches = {} /\ ~game'[p].alive)
    BY <1>0, <2>1, WorldKeeps
  <2> QED BY <2>2 DEF Approved
<1>9. CASE UNCHANGED vars
  BY <1>9, <1>s DEF vars
<1> QED BY <1>1, <1>2, <1>3, <1>4, <1>5, <1>6, <1>7, <1>8, <1>9, <1>s, OthersKeepSession DEF SessionSteps

\* AgentPanel::approve and AgentSession::call: a game is changed only by a call
\* that the user allowed for that process, and code is restored without one
\* only when the session leaves it.
THEOREM ChangesAreApproved == Spec => ApprovedOnly
<1>1. IInv /\ [Next]_vars =>
        [\A p \in Pids :
           /\ game'[p].val # game[p].val /\ game'[p].val # 0 => Mandate(p, game'[p].val)
           /\ game'[p].trap # game[p].trap /\ game'[p].trap # None => Mandate(p, game'[p].trap)
           /\ \A id \in game'[p].patches \ game[p].patches : Mandate(p, id)
           /\ game'[p].patches # game[p].patches /\ game'[p].alive /\ sess.scripts # <<>> /\ sess'.scripts # <<>>
                => work.i <= Len(work.calls) /\ Mandate(p, Current.id)]_vars
  BY ApprovedStep DEF Approved
<1> QED BY <1>1, AgentInvariant, PTL DEF Spec, ApprovedOnly
=============================================================================
