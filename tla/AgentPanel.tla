----------------------------- MODULE AgentPanel -----------------------------
(* gui/agent_panel.cpp, core/agent_chat.cpp and core/mcp_server.cpp: the       *)
(* assistant's panel on the user-interface thread, its turns on a worker       *)
(* thread, the conversation with the model and the questions the worker asks   *)
(* before the assistant changes something.  The threads exchange queued calls. *)
(* The model's answers and the user are nondeterministic.                      *)
EXTENDS AgentSession

CONSTANTS Scenarios,    \* [driver, provider, allow, replies, calls, budget]: see MCAgentPanel
          MaxRounds,    \* AgentChat::maxRounds_
          CallLimit     \* AgentChat::kMaxCallsPerReply

\* The tools of a call; "read" stands for every other.  The target of an attach
\* is one of Pids.
Tools == {"read", "write", "enable", "disable", "record", "freeze", "unfreeze", "undo", "save", "replace", "attach"}
           \cup LongTools
Asked == [tool : Tools, arg : Nat]
Replies == {r \in Seq(Asked) :
              \A k \in DOMAIN r : r[k].tool = "attach" => r[k].arg \in Pids}
Budgets == [{"window", "send", "stop", "chat", "close", "game", "exit"} -> Nat]

ASSUME AgentAssumption ==
  /\ Pids \subseteq Nat \ {None}
  /\ Scenarios \subseteq [driver : {"panel", "mcp"}, provider : {"anthropic", "openai"}, allow : BOOLEAN,
                          replies : SUBSET Replies, calls : Nat, budget : Budgets]
  /\ MaxRounds \in Nat /\ CallLimit \in Nat

VARIABLES
  scen,
  ui,       \* the panel: target, left, busy, sending, turnPid, allowPid, shown, closing;
            \* ghost refused: a message without a key ended with processes still to be left
  ask,      \* under approvalMutex_: waiting, answer, grant; and stopping_
  chat,     \* AgentChat: on, msgs, cancelled, and the turn in progress
  work,     \* the worker: pc, the job's process, the replies' calls and the next of them
  uiq,      \* calls queued to the user-interface thread
  wq,       \* calls queued to the worker
  calls,    \* calls numbered so far
  left,     \* steps left of the user, the window and the games
  consent,  \* ghost: <<process, call>> that the user allowed
  grant,    \* ghost: the processes of a standing "Allow for this chat"
  gone,     \* ghost: processes the main window left and nobody opened again
  said      \* ghost: turns whose message belongs to the conversation

panelVars == <<ui, ask, chat, work, uiq, wq, calls, left, consent, grant, gone, said>>
vars == <<scen, panelVars, sessionVars>>

NoQuestion == [tool |-> "none", arg |-> None, id |-> 0, pid |-> None, grant |-> None]
NoChat == [on |-> FALSE, msgs |-> <<>>, cancelled |-> FALSE, turn |-> 0, start |-> <<>>, acted |-> FALSE,
           round |-> 0, done |-> 0]

Init ==
  /\ scen \in Scenarios
  /\ SessionInit(scen.allow)
  /\ ui = [target |-> None, left |-> {}, busy |-> FALSE, sending |-> FALSE, turnPid |-> None, allowPid |-> None,
           shown |-> NoQuestion, closing |-> "no", settings |-> FALSE, refused |-> FALSE]
  /\ ask = [waiting |-> FALSE, answer |-> "none", grant |-> None, stopping |-> FALSE]
  /\ chat = NoChat
  /\ work = [pc |-> "idle", pid |-> None, calls |-> <<>>, i |-> 1, q |-> NoQuestion, ok |-> FALSE]
  /\ uiq = <<>> /\ wq = <<>> /\ calls = 0
  /\ left = scen.budget
  /\ consent = {} /\ grant = {} /\ gone = {} /\ said = {}

Spend(k) == left[k] > 0 /\ left' = [left EXCEPT ![k] = @ - 1]
ToUi(e) == uiq' = Append(uiq, e)
Panel == scen.driver = "panel"
UiRuns == Panel /\ ui.closing = "no"

-----------------------------------------------------------------------------
(* The conversation.  A message is a user turn (with the turns whose text it   *)
(* holds and the tool results), an assistant turn (with its number of calls)   *)
(* or, for an OpenAI-compatible server, a tool's result.                       *)
Anthropic == scen.provider = "anthropic"
UserMsg(texts, results) == [role |-> "user", texts |-> texts, n |-> results]
AssistantMsg(n) == [role |-> "assistant", texts |-> {}, n |-> n]
ToolMsg == [role |-> "tool", texts |-> {}, n |-> 1]

\* The new text joins a user turn at the end, which Anthropic's API wants.
WithText(msgs, t) ==
  IF Anthropic /\ msgs # <<>> /\ Last(msgs).role = "user"
  THEN [msgs EXCEPT ![Len(msgs)].texts = @ \cup {t}]
  ELSE Append(msgs, UserMsg({t}, 0))

\* The answers to n calls: one user turn, or a message each.
WithResults(msgs, n) == IF Anthropic THEN Append(msgs, UserMsg({}, n))
                        ELSE msgs \o [k \in 1 .. n |-> ToolMsg]

\* A version that forgets to take the text out of the turn it had joined.
FailKeepingText(msgs, c) == IF c.acted THEN msgs
                            ELSE SubSeq(msgs, 1, Len(c.start))

\* AgentChat::send's fail: before anything ran the message is taken back.
Failed(msgs, c) == IF c.acted THEN msgs ELSE c.start

\* The turn ends; ok is what send returned.
EndTurn(msgs, ok) ==
  /\ chat' = [chat EXCEPT !.msgs = msgs]
  /\ work' = [work EXCEPT !.pc = "finish", !.ok = ok]

FailTurn ==
  /\ EndTurn(Failed(chat.msgs, chat), FALSE)
  /\ said' = IF chat.acted THEN said ELSE said \ {chat.turn}

-----------------------------------------------------------------------------
(* The user-interface thread.                                                  *)

\* syncSession: leave the processes the main window closed, unless a turn runs.
Sync(u, queue) == IF u.busy \/ u.left = {} THEN queue
                  ELSE Append(queue, [job |-> "sync", left |-> u.left, pid |-> u.target])
Synced(u) == IF u.busy \/ u.left = {} THEN u ELSE [u EXCEPT !.left = {}, !.refused = FALSE]

\* setTarget: the main window opened p, or none.
SetTarget(p) ==
  /\ UiRuns /\ Spend("window") /\ p # ui.target
  /\ LET u == [ui EXCEPT !.target = p, !.allowPid = None,
                         !.left = IF ui.target = None THEN @ ELSE @ \cup {ui.target}]
     IN ui' = Synced(u) /\ wq' = Sync(u, wq)
  /\ gone' = (gone \cup ({ui.target} \ {None})) \ {p}
  /\ grant' = {}
  /\ UNCHANGED <<scen, ask, chat, work, uiq, calls, consent, said, sessionVars>>

\* send: with a new chat the key is read first, which may run an event loop.
Send ==
  /\ UiRuns /\ Spend("send") /\ ~ui.busy
  /\ ui' = [ui EXCEPT !.busy = TRUE, !.sending = TRUE, !.settings = FALSE,
                      !.allowPid = IF ui.settings THEN None ELSE @]
  /\ chat' = IF ui.settings THEN NoChat ELSE chat
  /\ said' = IF ui.settings THEN {} ELSE said
  /\ grant' = IF ui.settings THEN {} ELSE grant
  /\ UNCHANGED <<scen, ask, work, uiq, wq, calls, consent, gone, sessionVars>>

\* No key: the message is not sent, and the session is not synced.
SendRefused ==
  /\ UiRuns /\ ui.sending /\ ~chat.on
  /\ ui' = [ui EXCEPT !.busy = FALSE, !.sending = FALSE, !.refused = ui.left # {}]
  /\ UNCHANGED <<scen, ask, chat, work, uiq, wq, calls, left, consent, grant, gone, said, sessionVars>>

SendStart ==
  /\ UiRuns /\ ui.sending
  /\ chat' = [chat EXCEPT !.on = TRUE, !.cancelled = FALSE]
  /\ ask' = [ask EXCEPT !.stopping = FALSE]
  /\ ui' = [ui EXCEPT !.sending = FALSE, !.turnPid = ui.target]
  /\ wq' = Append(wq, [job |-> "turn", left |-> {}, pid |-> ui.target])
  /\ UNCHANGED <<scen, work, uiq, calls, left, consent, grant, gone, said, sessionVars>>

\* notify_all: a sleeping worker tests its predicate again.
Woken == IF work.pc = "asleep" THEN [work EXCEPT !.pc = "asked"] ELSE work

\* A version of stop that does not take the mutex the worker waits with.
StopUnlocked ==
  /\ ask' = [ask EXCEPT !.stopping = TRUE]
  /\ chat' = [chat EXCEPT !.cancelled = @ \/ chat.on]
  /\ work' = Woken

StopTurn ==
  /\ work.pc # "locked"
  /\ ask' = [ask EXCEPT !.stopping = TRUE]
  /\ chat' = [chat EXCEPT !.cancelled = @ \/ chat.on]
  /\ work' = Woken

Stop ==
  /\ UiRuns /\ Spend("stop") /\ ui.busy
  /\ StopTurn
  /\ UNCHANGED <<scen, ui, uiq, wq, calls, consent, grant, gone, said, sessionVars>>

NewChat ==
  /\ UiRuns /\ Spend("chat") /\ ~ui.busy
  /\ chat' = NoChat /\ ui' = [ui EXCEPT !.allowPid = None]
  /\ said' = {} /\ grant' = {}
  /\ UNCHANGED <<scen, ask, work, uiq, wq, calls, consent, gone, sessionVars>>

ChangeSettings ==
  /\ UiRuns /\ Spend("chat") /\ chat.on /\ ~ui.settings
  /\ ui' = [ui EXCEPT !.settings = TRUE]
  /\ UNCHANGED <<scen, ask, chat, work, uiq, wq, calls, consent, grant, gone, said, sessionVars>>

\* answerApproval: a click on the bar, which shows ui.shown, answers what the worker asks now.
AnswerApproval(allow, forChat) ==
  /\ ask' = IF ask.waiting
            THEN [ask EXCEPT !.answer = IF allow THEN "yes" ELSE "no"] ELSE ask
  /\ ui' = [ui EXCEPT !.allowPid = IF ask.waiting /\ allow /\ forChat /\ ask.grant # None THEN ask.grant ELSE @,
                      !.shown = IF ask.waiting THEN NoQuestion ELSE @]

\* What the user means is the question on the screen.
Answer(allow, forChat) ==
  /\ UiRuns /\ ui.shown # NoQuestion /\ work.pc # "locked"
  /\ forChat => allow /\ ui.shown.grant # None
  /\ AnswerApproval(allow, forChat)
  /\ work' = IF ask.waiting THEN Woken ELSE work
  /\ consent' = IF allow THEN consent \cup {<<ui.shown.pid, ui.shown.id>>} ELSE consent
  /\ grant' = IF forChat THEN grant \cup {ui.shown.grant} ELSE grant
  /\ UNCHANGED <<scen, chat, uiq, wq, calls, left, gone, said, sessionVars>>

\* The queued calls: showApproval, the bar's hide, finishTurn.
UiEvent ==
  /\ UiRuns /\ uiq # <<>>
  /\ uiq' = Tail(uiq)
  /\ LET e == Head(uiq)
         u == CASE e.event = "show" -> [ui EXCEPT !.shown = e.q]
                [] e.event = "hide" -> [ui EXCEPT !.shown = NoQuestion]
                [] e.event = "finish" -> [ui EXCEPT !.busy = FALSE, !.shown = NoQuestion]
     IN ui' = Synced(u) /\ wq' = Sync(u, wq)
  /\ UNCHANGED <<scen, ask, chat, work, calls, left, consent, grant, gone, said, sessionVars>>

\* ~AgentPanel: stop, end the worker after the call it is in, then the session.
Close ==
  /\ UiRuns /\ Spend("close") /\ ~ui.sending
  /\ ui' = [ui EXCEPT !.closing = "waiting"]
  /\ StopTurn
  /\ UNCHANGED <<scen, uiq, wq, calls, consent, grant, gone, said, sessionVars>>

CloseSession ==
  /\ Panel /\ ui.closing = "waiting" /\ work.pc = "idle"
  /\ ui' = [ui EXCEPT !.closing = "closed"]
  /\ EndSession
  /\ UNCHANGED <<scen, ask, chat, work, uiq, wq, calls, left, consent, grant, gone, said>>

-----------------------------------------------------------------------------
(* The worker thread.                                                          *)

WorkerRuns == work.pc = "idle" /\ ui.closing = "no" /\ wq # <<>>

WorkerSync ==
  /\ WorkerRuns /\ Head(wq).job = "sync"
  /\ wq' = Tail(wq)
  /\ IF sess.proc # None /\ sess.proc # Head(wq).pid /\ sess.proc \in Head(wq).left
     THEN Detach ELSE UNCHANGED sessionVars
  /\ UNCHANGED <<scen, ui, ask, chat, work, uiq, calls, left, consent, grant, gone, said>>

\* A turn attaches to the process the user has open.
TurnStart ==
  /\ WorkerRuns /\ Head(wq).job = "turn"
  /\ wq' = Tail(wq)
  /\ work' = [work EXCEPT !.pc = "send"]
  /\ IF Head(wq).pid # None /\ ~ask.stopping /\ Head(wq).pid # sess.proc
     THEN Attach(Head(wq).pid) ELSE UNCHANGED sessionVars
  /\ UNCHANGED <<scen, ui, ask, chat, uiq, calls, left, consent, grant, gone, said>>

TurnSend ==
  /\ work.pc = "send"
  /\ \/ /\ ask.stopping
        /\ work' = [work EXCEPT !.pc = "finish", !.ok = FALSE] /\ UNCHANGED <<chat, said>>
     \/ /\ ~ask.stopping
        /\ work' = [work EXCEPT !.pc = "round"]
        /\ LET t == chat.done + 1
           IN /\ chat' = [chat EXCEPT !.msgs = WithText(@, t), !.start = chat.msgs, !.acted = FALSE,
                                      !.round = 1, !.turn = t, !.done = t]
              /\ said' = said \cup {t}
  /\ UNCHANGED <<scen, ui, ask, uiq, wq, calls, left, consent, grant, gone, sessionVars>>

\* The request of a round, or the end of the rounds.
Round ==
  /\ work.pc = "round"
  /\ \/ chat.cancelled /\ FailTurn
     \/ /\ ~chat.cancelled /\ chat.round > MaxRounds
        /\ EndTurn(chat.msgs, FALSE) /\ UNCHANGED said
     \/ /\ ~chat.cancelled /\ chat.round <= MaxRounds
        /\ work' = [work EXCEPT !.pc = "posted"] /\ UNCHANGED <<chat, said>>
  /\ UNCHANGED <<scen, ui, ask, uiq, wq, calls, left, consent, grant, gone, sessionVars>>

\* Not reached, refused, too large or unreadable; Stop aborts the request.
ReplyFails ==
  /\ work.pc = "posted" /\ FailTurn
  /\ UNCHANGED <<scen, ui, ask, uiq, wq, calls, left, consent, grant, gone, sessionVars>>

Numbered(reply) == [k \in DOMAIN reply |-> Call(reply[k].tool, reply[k].arg, calls + k)]

\* A reply: its text only, nothing at all, or calls.
Reply ==
  /\ work.pc = "posted" /\ ~chat.cancelled
  /\ \/ \E empty \in BOOLEAN :
          /\ EndTurn(IF empty /\ Anthropic THEN chat.msgs ELSE Append(chat.msgs, AssistantMsg(0)), TRUE)
          /\ UNCHANGED calls
     \/ \E reply \in scen.replies :
          /\ calls + Len(reply) <= scen.calls
          /\ chat' = [chat EXCEPT !.msgs = Append(@, AssistantMsg(Len(reply)))]
          /\ work' = [work EXCEPT !.pc = "call", !.calls = Numbered(reply), !.i = 1]
          /\ calls' = calls + Len(reply)
  /\ UNCHANGED <<scen, ui, ask, uiq, wq, left, consent, grant, gone, said, sessionVars>>

Current == work.calls[work.i]
NextCall == [work EXCEPT !.pc = "call", !.i = @ + 1]

\* needsApproval
NeedsApproval(c) == c.tool \in {"write", "enable", "disable", "watch", "freeze", "save", "replace", "attach"}

\* Every call has been answered: the results join the conversation.
CallsDone ==
  /\ work.pc = "call" /\ work.i > Len(work.calls)
  /\ LET msgs == WithResults(chat.msgs, Len(work.calls))
     IN IF chat.cancelled THEN EndTurn(msgs, FALSE)
        ELSE /\ chat' = [chat EXCEPT !.msgs = msgs, !.acted = TRUE, !.round = @ + 1]
             /\ work' = [work EXCEPT !.pc = "round"]
  /\ UNCHANGED <<scen, ui, ask, uiq, wq, calls, left, consent, grant, gone, said, sessionVars>>

\* A call beyond the limit, after a Stop or with bad arguments gets an error.
CallSkipped ==
  /\ work.pc = "call" /\ work.i <= Len(work.calls)
  /\ work.i > CallLimit \/ chat.cancelled
  /\ work' = NextCall
  /\ UNCHANGED <<scen, ui, ask, chat, uiq, wq, calls, left, consent, grant, gone, said, sessionVars>>

\* approve: what "Allow for this chat" would cover.
GrantFor(c) == IF c.tool \in {"attach", "replace"} THEN None ELSE sess.proc
Question(c) == [tool |-> c.tool, arg |-> c.arg, id |-> c.id, grant |-> GrantFor(c),
                pid |-> IF c.tool = "attach" THEN c.arg ELSE sess.proc]

\* The process the user opened needs no question, nor what the chat was allowed.
\* A version in which the permission of the chat covers every process.
AlreadyAllowedAnywhere(c) == \/ c.tool = "attach" /\ c.arg = ui.turnPid
                             \/ GrantFor(c) # None /\ ui.allowPid # None

AlreadyAllowed(c) == \/ c.tool = "attach" /\ c.arg = ui.turnPid
                     \/ GrantFor(c) # None /\ ui.allowPid = GrantFor(c)

CallStart ==
  /\ work.pc = "call" /\ work.i <= Len(work.calls)
  /\ work.i <= CallLimit /\ ~chat.cancelled
  /\ IF NeedsApproval(Current) /\ ~AlreadyAllowed(Current)
     THEN /\ work' = [work EXCEPT !.pc = "ask", !.q = Question(Current)]
          /\ UNCHANGED consent
     ELSE /\ work' = [work EXCEPT !.pc = "run"]
          /\ consent' = IF NeedsApproval(Current) /\ (Question(Current).grant \in grant \/ Current.tool = "attach")
                        THEN consent \cup {<<Question(Current).pid, Current.id>>} ELSE consent
  /\ UNCHANGED <<scen, ui, ask, chat, uiq, wq, calls, left, grant, gone, said, sessionVars>>

\* Put the question, unless Stop came first.
Ask ==
  /\ work.pc = "ask"
  /\ IF ask.stopping
     THEN work' = NextCall /\ UNCHANGED <<ask, uiq>>
     ELSE /\ ask' = [ask EXCEPT !.waiting = TRUE, !.answer = "none", !.grant = work.q.grant]
          /\ ToUi([event |-> "show", q |-> work.q])
          /\ work' = [work EXCEPT !.pc = "asked"]
  /\ UNCHANGED <<scen, ui, chat, wq, calls, left, consent, grant, gone, said, sessionVars>>

\* The predicate of the wait, tested with the mutex.
WaitTest ==
  /\ work.pc = "asked"
  /\ IF ask.answer # "none" \/ ask.stopping
     THEN /\ ask' = [ask EXCEPT !.waiting = FALSE, !.grant = None]
          /\ ToUi([event |-> "hide", q |-> NoQuestion])
          /\ work' = IF ask.answer = "yes" THEN [work EXCEPT !.pc = "run"] ELSE NextCall
     ELSE work' = [work EXCEPT !.pc = "locked"] /\ UNCHANGED <<ask, uiq>>
  /\ UNCHANGED <<scen, ui, chat, wq, calls, left, consent, grant, gone, said, sessionVars>>

WaitSleep ==
  /\ work.pc = "locked" /\ work' = [work EXCEPT !.pc = "asleep"]
  /\ UNCHANGED <<scen, ui, ask, chat, uiq, wq, calls, left, consent, grant, gone, said, sessionVars>>

\* AgentSession::call
CallRun ==
  /\ work.pc = "run"
  /\ \/ Current.tool = "attach" /\ Attach(Current.arg) /\ work' = NextCall
     \/ Current.tool # "attach" /\ Quick(Current) /\ work' = NextCall
     \/ StartWork(Current) /\ work' = [work EXCEPT !.pc = "working"]
  /\ gone' = IF sess'.proc # sess.proc THEN gone \ {sess'.proc} ELSE gone
  /\ UNCHANGED <<scen, ui, ask, chat, uiq, wq, calls, left, consent, grant, said>>

CallEnds ==
  /\ work.pc = "working" /\ EndWork(Current) /\ work' = NextCall
  /\ UNCHANGED <<scen, ui, ask, chat, uiq, wq, calls, left, consent, grant, gone, said>>

TurnFinish ==
  /\ work.pc = "finish"
  /\ ToUi([event |-> "finish", q |-> NoQuestion])
  /\ work' = [work EXCEPT !.pc = "idle", !.calls = <<>>, !.i = 1, !.q = NoQuestion]
  /\ UNCHANGED <<scen, ui, ask, chat, wq, calls, left, consent, grant, gone, said, sessionVars>>

-----------------------------------------------------------------------------
(* runMcpServer: one call after another, without questions; the user gave the  *)
(* permission to write, or not, when starting it.                              *)
McpCall ==
  /\ scen.driver = "mcp" /\ work.pc = "idle" /\ ui.closing = "no"
  /\ \E reply \in scen.replies :
       /\ calls + Len(reply) <= scen.calls
       /\ calls' = calls + Len(reply)
       /\ work' = [work EXCEPT !.pc = "mcp", !.calls = Numbered(reply), !.i = 1]
  /\ UNCHANGED <<scen, ui, ask, chat, uiq, wq, left, consent, grant, gone, said, sessionVars>>

\* The items of a batch, in order; the last one ends the message.
McpRun ==
  /\ work.pc = "mcp"
  /\ \/ /\ work.i > Len(work.calls)
        /\ work' = [work EXCEPT !.pc = "idle", !.calls = <<>>, !.i = 1] /\ UNCHANGED sessionVars
     \/ /\ work.i <= Len(work.calls)
        /\ \/ Current.tool = "attach" /\ Attach(Current.arg) /\ work' = [work EXCEPT !.i = @ + 1]
           \/ Current.tool # "attach" /\ Quick(Current) /\ work' = [work EXCEPT !.i = @ + 1]
           \/ StartWork(Current) /\ work' = [work EXCEPT !.pc = "mcpwork"]
  /\ UNCHANGED <<scen, ui, ask, chat, uiq, wq, calls, left, consent, grant, gone, said>>

McpEnds ==
  /\ work.pc = "mcpwork" /\ EndWork(Current) /\ work' = [work EXCEPT !.pc = "mcp", !.i = @ + 1]
  /\ UNCHANGED <<scen, ui, ask, chat, uiq, wq, calls, left, consent, grant, gone, said>>

\* The client is gone or a signal came: the session ends with the server.
McpQuit ==
  /\ scen.driver = "mcp" /\ work.pc = "idle" /\ ui.closing = "no"
  /\ ui' = [ui EXCEPT !.closing = "closed"]
  /\ EndSession
  /\ UNCHANGED <<scen, ask, chat, work, uiq, wq, calls, left, consent, grant, gone, said>>

-----------------------------------------------------------------------------
FreezerStep == Freezer /\ UNCHANGED <<scen, panelVars>>

World ==
  /\ \E p \in Pids : (Spend("game") /\ GameRuns(p)) \/ (Spend("exit") /\ GameExits(p))
  /\ UNCHANGED <<scen, ui, ask, chat, work, uiq, wq, calls, consent, grant, gone, said>>

Worker == \/ WorkerSync \/ TurnStart \/ TurnSend \/ Round \/ ReplyFails \/ Reply
          \/ CallsDone \/ CallSkipped \/ CallStart \/ Ask \/ WaitTest \/ WaitSleep
          \/ CallRun \/ CallEnds \/ TurnFinish

User == \/ \E p \in Pids \cup {None} : SetTarget(p)
        \/ Send \/ SendRefused \/ Stop \/ NewChat \/ ChangeSettings \/ Close
        \/ \E allow, forChat \in BOOLEAN : Answer(allow, forChat)

Next == User \/ SendStart \/ UiEvent \/ CloseSession \/ Worker
        \/ McpCall \/ McpRun \/ McpEnds \/ McpQuit \/ FreezerStep \/ World

\* The worker and the window's queue go on, a request ends (it has a timeout).
Fairness == WF_vars(Worker) /\ WF_vars(UiEvent) /\ WF_vars(SendStart) /\ WF_vars(CloseSession)

Spec == Init /\ [][Next]_vars /\ Fairness

-----------------------------------------------------------------------------
(* Properties *)

\* May call id change process p?
Mandate(p, id) == IF Panel THEN <<p, id>> \in consent ELSE scen.allow

\* A process is written, patched or given a breakpoint only by a call the user
\* allowed for that process, looking at that question, by the permission given
\* for the chat in that process, or by the option the MCP server was started
\* with ("every change still waits for the user's Allow"); code is restored
\* without one only when the session leaves the process.
ApprovedOnly ==
  [][\A p \in Pids :
       /\ game'[p].val # game[p].val /\ game'[p].val # 0 => Mandate(p, game'[p].val)
       /\ game'[p].trap # game[p].trap /\ game'[p].trap # None => Mandate(p, game'[p].trap)
       /\ \A id \in game'[p].patches \ game[p].patches : Mandate(p, id)
       /\ game'[p].patches # game[p].patches /\ game'[p].alive /\ sess.scripts # <<>> /\ sess'.scripts # <<>>
            => work.i <= Len(work.calls) /\ Mandate(p, Current.id)]_vars

\* The calls of turn k have their results, in the next message or in one each.
Answered(m, k) ==
  IF Anthropic THEN k < Len(m) /\ m[k + 1].role = "user" /\ m[k + 1].n = m[k].n
  ELSE \A j \in 1 .. m[k].n : k + j <= Len(m) /\ m[k + j].role = "tool"

\* Result k is one of a call.
Called(m, k) ==
  \/ m[k].role = "user" /\ m[k - 1].role = "assistant" /\ m[k - 1].n = m[k].n
  \/ m[k].role = "tool" /\ \E a \in 1 .. (k - 1) : m[a].role = "assistant" /\ k - a <= m[a].n

\* The conversation m pairs calls with results and says each text of `texts' once.
Conversation(m, texts) ==
  /\ m # <<>> => m[1].role = "user" /\ m[1].n = 0
  /\ \A k \in 1 .. Len(m) : m[k].role = "assistant" /\ m[k].n > 0 => Answered(m, k)
  /\ \A k \in 2 .. Len(m) : m[k].role # "assistant" /\ m[k].n > 0 => Called(m, k)
  /\ Anthropic => \A k \in 2 .. Len(m) : m[k].role # m[k - 1].role
  /\ \A t \in texts : \E k \in 1 .. Len(m) : t \in m[k].texts
  /\ \A k \in 1 .. Len(m) : m[k].texts \subseteq texts
  /\ \A k, j \in 1 .. Len(m) : k # j => m[k].texts \cap m[j].texts = {}

\* The text of every request is one the model's server accepts: turns alternate,
\* each call is followed by its result and no result is without a call, and it
\* holds every message of the user once, but none of a turn that failed before
\* it did anything.
ConversationValid == work.pc = "posted" => chat.msgs # <<>> /\ Conversation(chat.msgs, said)

\* Nothing of the assistant stays in a process: a live patch is one that the
\* session still knows and can undo, or one whose undo failed; what it keeps is
\* of the process it is attached to; and once a turn is over it is attached to
\* no process that the main window has left (but for one left while the key was
\* asked for and refused, which waits for the next turn or change of target).
NothingLeftBehind ==
  /\ \A p \in Pids : game[p].patches \subseteq stuck \cup IF sess.proc = p THEN ScriptIds ELSE {}
  /\ \A i \in DOMAIN sess.records : sess.records[i].of = sess.proc
  /\ {sess.result, sess.undo, sess.paths} \subseteq {None, sess.proc}
  /\ Panel /\ ~ui.busy /\ uiq = <<>> /\ wq = <<>> /\ work.pc = "idle" /\ ui.closing = "no" /\ ~ui.refused
       => sess.proc \notin gone

\* Stop, and closing the panel, end a turn that was handed to the worker: in a
\* request, before or while a question waits, and in a long tool.
StopEnds == /\ (ask.stopping /\ work.pc # "idle") ~> (work.pc = "idle")
            /\ (ui.closing = "waiting") ~> (ui.closing = "closed")
=============================================================================
