-------------------------- MODULE DebuggerWindow --------------------------
(***************************************************************************)
(* The debugger's window over a debug session, and the program it debugs.  *)
(*                                                                         *)
(* The session stops and reports on its own thread; its events are queued  *)
(* for the window, so that the window always knows an older state than the *)
(* session is in.  Commands to the session are synchronous.                *)
(*                                                                         *)
(* `dbg` is one record: win, the window; ses, the session; text, the code  *)
(* of the program as a read shows it; views and notes, see MemoryViewer.   *)
(***************************************************************************)
EXTENDS MainWindow

CONSTANTS CodeSize     \* instructions of the program

VARIABLES dbg

Code == 1 .. CodeSize

NoRtc == 0
NoSession == [on |-> FALSE, stopped |-> FALSE, pc |-> 1, bps |-> {}, next |-> 1, queue |-> <<>>,
              pend |-> FALSE, busy |-> FALSE, evt |-> 0]
NoWindow == [open |-> FALSE, ui |-> "gone", rows |-> <<>>, rtc |-> NoRtc, stepping |-> FALSE, rip |-> 0,
             early |-> FALSE]

Bp(id, a, cond, hw) == [id |-> id, addr |-> a, cond |-> cond, hw |-> hw, on |-> TRUE, asked |-> FALSE]

-----------------------------------------------------------------------------
(* The session, as its callers see it *)

(* An event stops the target, publishes its address and is queued. *)
Report(d, k, a) == [d EXCEPT !.ses.stopped = TRUE, !.ses.evt = a, !.ses.queue = Append(@, k)]

(* An answer to a command: its result, what it leaves, the failures it took. *)
Answer(r, d, cost) == [r |-> r, d |-> d, cost |-> cost]

(* An id is told as whether there is one. *)
Told(answers) == {[a EXCEPT !.r = @ # 0] : a \in answers}

(* The byte a breakpoint replaced goes back, unless other code replaced the
   trap. *)
Restored(d, b) ==
  [d EXCEPT !.ses.bps = @ \ {b},
            !.text = IF ~b.hw /\ @[b.addr] = "trap" THEN [@ EXCEPT ![b.addr] = b.was] ELSE @]

(* What a failed removal left behind is tried again before every command. *)
Recovered(d) ==
  [d EXCEPT !.ses.pend = FALSE, !.ses.bps = {b \in @ : b.active},
            !.text = [a \in Code |-> LET gone == {b \in d.ses.bps : ~b.active /\ b.addr = a}
                                     IN IF gone # {} /\ @[a] = "trap" THEN (CHOOSE b \in gone : TRUE).was ELSE @[a]]]
Recover(d) == IF d.ses.pend THEN {d, Recovered(d)} ELSE {d}

(* setSoftwareBreakpoint, setHardwareBreakpoint: an id, or 0. *)
SetBp(d, a, hw) ==
  IF ~d.ses.on THEN {Answer(0, d, 0)}
  ELSE UNION {
    LET old == {b \in c.ses.bps : ~b.hw /\ ~hw /\ b.addr = a}
        new == [id |-> c.ses.next, addr |-> a, hw |-> hw, was |-> c.text[a], active |-> TRUE]
    IN IF c.ses.pend THEN {Answer(0, c, 0)}
       ELSE IF old # {} THEN {Answer((CHOOSE b \in old : TRUE).id, c, 0)}
       ELSE {Answer(0, c, 1),
             Answer(new.id, [c EXCEPT !.ses.bps = @ \cup {new}, !.ses.next = @ + 1,
                                      !.text[a] = IF hw THEN @ ELSE "trap"], 0)}
    : c \in Recover(d)}

(* removeSoftwareBreakpoint, removeHardwareBreakpoint.  A running target is
   stopped for it and goes on, or the stop is reported. *)
RemoveBp(d, id) ==
  IF ~d.ses.on THEN {Answer(FALSE, d, 0)}
  ELSE UNION {
    LET mine == {b \in c.ses.bps : b.id = id}
        b == CHOOSE x \in mine : TRUE
        Held(x) == IF x.ses.stopped THEN x ELSE Report(x, "signal", x.ses.pc)
    IN IF c.ses.pend THEN {Answer(FALSE, Held(c), 0)}
       ELSE IF mine = {} THEN {Answer(TRUE, c, 0)}
       ELSE {Answer(TRUE, Restored(c, b), 0),
             Answer(FALSE, Held([c EXCEPT !.ses.bps = (@ \ {b}) \cup {[b EXCEPT !.active = FALSE]}, !.ses.pend = TRUE]), 1)}
            \cup (IF c.ses.stopped THEN {} ELSE {Answer(TRUE, Held(Restored(c, b)), 1)})
    : c \in Recover(d)}

(* continueExecution *)
Resume(d) ==
  IF ~d.ses.on THEN {Answer(FALSE, d, 0)}
  ELSE UNION {
    IF c.ses.pend THEN {Answer(FALSE, c, 0)}
    ELSE IF ~c.ses.stopped THEN {Answer(TRUE, c, 0)}
    ELSE {Answer(TRUE, [c EXCEPT !.ses.stopped = FALSE], 0), Answer(FALSE, c, 1)}
    : c \in Recover(d)}

(* detach restores every breakpoint, ends a step and lets the target run. *)
Detached(d) ==
  [d EXCEPT !.ses = [NoSession EXCEPT !.queue = IF d.ses.busy THEN Append(d.ses.queue, "finish") ELSE d.ses.queue],
            !.text = [a \in Code |-> LET mine == {b \in d.ses.bps : ~b.hw /\ b.addr = a}
                                     IN IF mine # {} /\ @[a] = "trap" THEN (CHOOSE b \in mine : TRUE).was ELSE @[a]]]

-----------------------------------------------------------------------------
(* The window *)

(* Stopped and not in the middle of a step. *)
Paused(d) == d.win.open /\ d.ses.stopped /\ ~d.win.stepping

(* setRunningUi with the target running or gone; refreshStopped. *)
RunningUi(d) == [d EXCEPT !.win.ui = "running"]
GoneUi(d) == [d EXCEPT !.win.ui = "gone"]
RefreshStopped(d) == IF ~d.ses.on THEN d ELSE [d EXCEPT !.win.ui = "stopped", !.win.rip = d.ses.pc]

(* A command given while the stop it acts on has not been shown yet. *)
Noted(d) == [d EXCEPT !.win.early = @ \/ d.ses.queue # <<>>]

(* Mutant: a refused continue leaves the window saying "Running...". *)
OnContinueSilent(d) ==
  IF ~d.ses.on \/ d.win.stepping THEN {Answer(TRUE, d, 0)} ELSE Resume(RunningUi(d))

(* onContinue: a refused continue is shown as the stop it left. *)
OnContinue(d) ==
  IF ~d.ses.on \/ d.win.stepping THEN {Answer(TRUE, d, 0)}
  ELSE {[a EXCEPT !.d = IF ~a.r /\ @.ses.stopped THEN RefreshStopped(@) ELSE @] : a \in Resume(RunningUi(d))}

(* runStep *)
RunStep(d) ==
  IF ~d.ses.on \/ ~Paused(d) THEN d
  ELSE [RunningUi(d) EXCEPT !.win.stepping = TRUE, !.ses.busy = TRUE]

(* clearRunToCursor *)
ClearRunToCursor(d) ==
  IF d.win.rtc = NoRtc THEN {Answer(TRUE, d, 0)}
  ELSE {[a EXCEPT !.d.win.rtc = IF a.r THEN NoRtc ELSE @] : a \in RemoveBp(d, d.win.rtc)}

(* Then g(x) for what f left: the answers of a command followed by another. *)
After(answers, g(_)) ==
  UNION {{[b EXCEPT !.cost = @ + a.cost] : b \in g(a)} : a \in answers}

(* runToAddress: to an armed breakpoint of the user if one is there. *)
RunTo(d, addr) ==
  IF ~d.ses.on \/ ~Paused(d) THEN {Answer(TRUE, d, 0)}
  ELSE After(ClearRunToCursor(d), LAMBDA a :
    IF ~a.r THEN {Answer(FALSE, a.d, 0)}
    ELSE IF \E i \in DOMAIN d.win.rows : d.win.rows[i].on /\ ~d.win.rows[i].hw /\ d.win.rows[i].addr = addr
    THEN OnContinue(a.d)
    ELSE After(SetBp(a.d, addr, FALSE), LAMBDA b : OnContinue([b.d EXCEPT !.win.rtc = b.r])))

(* Mutant: adding a breakpoint where one is listed lists it again. *)
AddBreakpointTwice(d, addr, cond) ==
  IF ~d.ses.on \/ ~Paused(d) THEN {Answer(FALSE, d, 0)}
  ELSE Told({[a EXCEPT !.d.win.rows = IF a.r = 0 THEN @ ELSE Append(@, Bp(a.r, addr, cond, FALSE)),
                       !.d.win.early = @ \/ (a.r # 0 /\ a.r = a.d.win.rtc)] : a \in SetBp(Noted(d), addr, FALSE)})

(* addBreakpointAt: an address that is listed only takes the condition. *)
AddBreakpointAt(d, addr, cond) ==
  LET listed == {i \in DOMAIN d.win.rows : d.win.rows[i].addr = addr}
  IN IF ~d.ses.on \/ ~Paused(d) THEN {Answer(FALSE, d, 0)}
     ELSE IF listed # {} THEN {Answer(TRUE, [d EXCEPT !.win.rows[Min(listed)].cond = cond], 0)}
     ELSE Told({[a EXCEPT !.d.win.rows = IF a.r = 0 THEN @ ELSE Append(@, Bp(a.r, addr, cond, FALSE)),
                          !.d.win.early = @ \/ (a.r # 0 /\ a.r = a.d.win.rtc)] : a \in SetBp(Noted(d), addr, FALSE)})

(* removeBreakpointRow: also while the target runs, but not during a step. *)
RemoveRow(d, i) ==
  IF i \notin DOMAIN d.win.rows \/ d.win.stepping THEN {Answer(FALSE, d, 0)}
  ELSE IF ~d.win.rows[i].on THEN {Answer(TRUE, [d EXCEPT !.win.rows = RemoveAt(@, i)], 0)}
  ELSE {[a EXCEPT !.d.win.rows = IF a.r THEN RemoveAt(@, i) ELSE [@ EXCEPT ![i].asked = TRUE]] : a \in RemoveBp(d, d.win.rows[i].id)}

(* The check box of a row: a disabled breakpoint stays listed. *)
CheckRow(d, i) ==
  LET b == d.win.rows[i]
  IN IF ~d.ses.on \/ ~Paused(d) THEN {Answer(FALSE, d, 0)}
     ELSE IF b.on
     THEN {[a EXCEPT !.d.win.rows[i].on = ~a.r, !.d.win.rows[i].asked = ~a.r] : a \in RemoveBp(d, b.id)}
     ELSE Told({IF a.r = 0 THEN a
           ELSE [a EXCEPT !.d.win.rows[i] = [b EXCEPT !.id = a.r, !.on = TRUE, !.asked = FALSE],
                          !.d.win.early = @ \/ a.r = a.d.win.rtc] : a \in SetBp(Noted(d), b.addr, b.hw)})

(* breakpointAddresses *)
Armed(d) == {d.win.rows[i].addr : i \in {j \in DOMAIN d.win.rows : d.win.rows[j].on /\ ~d.win.rows[j].hw}}

(* nopInstructionAtCursor: refused over an armed breakpoint. *)
Nop(d, addr) ==
  IF ~Paused(d) \/ addr \in Armed(d) THEN d ELSE [d EXCEPT !.text[addr] = "edit"]

(* The first row a stop is of: code where the target stands, data that the
   last event named. *)
RowOfHit(d) ==
  LET mine == {i \in DOMAIN d.win.rows :
                 d.win.rows[i].addr = IF d.win.rows[i].hw THEN d.ses.evt ELSE d.ses.pc}
  IN IF mine = {} THEN 0 ELSE Min(mine)

(* Mutant: a condition that is false resumes the target and says nothing of
   a refusal. *)
SkipSilent(d) == Resume(RunningUi(d))

(* A breakpoint whose condition is false: the target goes on. *)
Skip(d) ==
  {[a EXCEPT !.d = IF ~a.r /\ @.ses.on /\ @.ses.stopped THEN RefreshStopped(@) ELSE @] : a \in Resume(RunningUi(d))}

(* The run-to-cursor breakpoint goes at any stop that is shown. *)
Shown(d) == {[a EXCEPT !.d = RefreshStopped(@)] : a \in ClearRunToCursor(d)}

(* Mutant: the breakpoints of the old program stay listed after an exec. *)
ForgetNothing(d) == [d EXCEPT !.win.rtc = NoRtc]

(* A new program: the breakpoints went with the old one. *)
ForgetBreakpoints(d) == [d EXCEPT !.win.rows = <<>>, !.win.rtc = NoRtc]

(* onDebugEvent and finishStep, with the event taken from the queue. *)
OnEvent(d, e) ==
  CASE e = "finish" -> {Answer(TRUE, LET f == [d EXCEPT !.win.stepping = FALSE]
                                       IN IF f.ses.on /\ f.ses.stopped THEN RefreshStopped(f) ELSE f, 0)}
    [] e = "thread" -> {Answer(TRUE, RefreshStopped(d), 0)}
    [] e = "exec" -> {Answer(TRUE, RefreshStopped(ForgetBreakpoints(d)), 0)}
    [] e = "exit" -> {Answer(TRUE, GoneUi(d), 0)}
    [] e = "hit" -> Shown(d) \cup (IF RowOfHit(d) # 0 /\ d.win.rows[RowOfHit(d)].cond THEN Skip(d) ELSE {})
    [] OTHER -> Shown(d)

-----------------------------------------------------------------------------
(* Steps *)

Pays(cost) == cost <= left.fail
Keep == UNCHANGED <<rows, nextId, wrapped, proc, patches, made, orders, editor, finder, blind, scen, winVars>>
Quiet == UNCHANGED <<listVars, winVars>>

(* An event of the user in the debugger's window: one command, one answer. *)
Command(answers) ==
  /\ CanUser
  /\ \E a \in answers :
       /\ Pays(a.cost)
       /\ dbg' = a.d
       /\ left' = [(IF stack = <<>> THEN [left EXCEPT !.user = @ - 1] ELSE [left EXCEPT !.nested = @ - 1])
                     EXCEPT !.fail = @ - a.cost]
  /\ UNCHANGED <<stack, ret>> /\ Keep

Done(d) == {Answer(TRUE, d, 0)}

PressContinue == On("debug") /\ dbg.win.ui = "stopped" /\ Command(OnContinue(dbg))
PressStep == On("step") /\ dbg.win.ui = "stopped" /\ Command(Done(RunStep(dbg)))
PressDetach == On("debug") /\ dbg.win.open /\ dbg.win.ui # "gone" /\ Command(Done(GoneUi(Detached(dbg))))
RunToCursor == On("cursor") /\ \E a \in Code : Paused(dbg) /\ Command(RunTo(Noted(dbg), a))
CheckBox == On("rows") /\ \E i \in DOMAIN dbg.win.rows : Command(CheckRow(dbg, i))
PressRemove == On("rows") /\ \E i \in DOMAIN dbg.win.rows : Command(RemoveRow(dbg, i))
NopAtCursor == On("edit") /\ \E a \in Code : dbg.win.open /\ Command(Done(Nop(dbg, a)))

(* toggleBreakpointAtCursor (F5), and the entry field's Add. *)
ToggleAtCursor ==
  /\ On("debug") /\ dbg.win.open
  /\ \E a \in Code :
       LET mine == {i \in DOMAIN dbg.win.rows : dbg.win.rows[i].addr = a}
       IN Command(IF mine # {} THEN RemoveRow(dbg, Min(mine)) ELSE AddBreakpointAt(dbg, a, FALSE))

(* onThreadSelected, onRegisterEdited: the stop is another one. *)
OtherContext ==
  /\ On("step") /\ dbg.win.ui = "stopped" /\ Paused(dbg)
  /\ \E a \in Code : Command(Done(RefreshStopped([Noted(dbg) EXCEPT !.ses.pc = a])))

(* The dialogs: the condition of a row (its address and kind are kept, its
   row may move), of a new breakpoint, and a data breakpoint. *)
Dialog(f) ==
  /\ CanUser
  /\ stack' = Call([f EXCEPT !.at = "ask"]) /\ ret' = "" /\ Spend
  /\ UNCHANGED dbg /\ Keep

EditCondition ==
  /\ On("condition") /\ \E i \in DOMAIN dbg.win.rows :
       Dialog([Frame("condition") EXCEPT !.id = dbg.win.rows[i].addr, !.want = dbg.win.rows[i].hw])
ConditionAtCursor == On("condition") /\ dbg.win.open /\ \E a \in Code : Dialog([Frame("cursor") EXCEPT !.id = a])
AddDataBreakpoint == On("rows") /\ Paused(dbg) /\ Dialog(Frame("data"))

Answered(answers) ==
  /\ \E a \in answers : /\ Pays(a.cost) /\ dbg' = a.d /\ left' = [left EXCEPT !.fail = @ - a.cost]
  /\ Return("ok") /\ Keep

(* The row of the breakpoint the dialog was opened for, now. *)
ConditionRow ==
  LET mine == {i \in DOMAIN dbg.win.rows : dbg.win.rows[i].addr = Top.id /\ dbg.win.rows[i].hw = Top.want}
  IN IF mine = {} THEN 0 ELSE Min(mine)

ConditionAnswered ==
  /\ Running("condition", "ask")
  /\ Answered({Answer(TRUE, dbg, 0)}
              \cup IF ConditionRow = 0 THEN {} ELSE {Answer(TRUE, [dbg EXCEPT !.win.rows[ConditionRow].cond = TRUE], 0)})
CursorAnswered ==
  /\ Running("cursor", "ask")
  /\ Answered({Answer(TRUE, dbg, 0)} \cup IF dbg.win.open THEN AddBreakpointAt(dbg, Top.id, TRUE) ELSE {})
DataAnswered ==
  /\ Running("data", "ask")
  /\ Answered({Answer(TRUE, dbg, 0)} \cup
       UNION {Told({[a EXCEPT !.d.win.rows = IF a.r = 0 THEN @ ELSE Append(@, Bp(a.r, w, FALSE, TRUE))] : a \in SetBp(Noted(dbg), w, TRUE)})
              : w \in {x \in Code : \A i \in DOMAIN dbg.win.rows : dbg.win.rows[i].hw => dbg.win.rows[i].addr # x}})

(* The window's event loop takes the next event. *)
DebugEvent ==
  /\ EventsRun /\ dbg.win.open /\ dbg.ses.queue # <<>>
  /\ \E a \in OnEvent([dbg EXCEPT !.ses.queue = Tail(@)], Head(dbg.ses.queue)) :
       /\ Pays(a.cost) /\ dbg' = a.d /\ left' = [left EXCEPT !.fail = @ - a.cost]
  /\ UNCHANGED <<stack, ret>> /\ Keep

(* The session's own thread: the program hits a breakpoint, gets a signal,
   loses a thread, executes another program or exits; a step ends; what a
   failed removal left is removed. *)
Ticks == left.hits > 0 /\ left' = [left EXCEPT !.hits = @ - 1] /\ UNCHANGED <<stack, ret>> /\ Keep

Hits ==
  /\ dbg.ses.on /\ ~dbg.ses.stopped /\ Ticks
  /\ \E b \in dbg.ses.bps, a \in Code :
       /\ b.active /\ (~b.hw => a = b.addr)
       /\ dbg' = Report([dbg EXCEPT !.ses.pc = a], "hit", b.addr)
Signalled ==
  /\ On("signal") /\ dbg.ses.on /\ ~dbg.ses.stopped /\ Ticks
  /\ \E k \in {"signal", "thread"} : dbg' = Report(dbg, k, dbg.ses.pc)
Execs ==
  /\ On("exec") /\ dbg.ses.on /\ (~dbg.ses.stopped \/ dbg.ses.busy) /\ Ticks
  /\ dbg' = Report([dbg EXCEPT !.ses.bps = {}, !.ses.pend = FALSE, !.text = [a \in Code |-> "code"]], "exec", 0)
StepEnds ==
  /\ dbg.ses.busy
  /\ \E a \in Code, k \in {"step", "none"} :
       LET e == [dbg EXCEPT !.ses.pc = a, !.ses.busy = FALSE]
       IN dbg' = [(IF k = "none" THEN dbg ELSE Report(e, k, a)) EXCEPT !.ses.busy = FALSE,
                                                                     !.ses.queue = Append(@, "finish")]
  /\ Quiet
SessionExits ==
  /\ dbg.ses.on /\ ~Alive(target.pid)
  /\ dbg' = [dbg EXCEPT !.ses = [NoSession EXCEPT !.queue = Append(dbg.ses.queue, "exit")
                                                  \o (IF dbg.ses.busy THEN <<"finish">> ELSE <<>>)]]
  /\ Quiet
SessionRecovers == dbg.ses.pend /\ dbg' = Recovered(dbg) /\ Quiet

DebuggerNext ==
  \/ PressContinue \/ PressStep \/ PressDetach \/ RunToCursor \/ CheckBox \/ PressRemove \/ NopAtCursor \/ ToggleAtCursor
  \/ OtherContext \/ EditCondition \/ ConditionAtCursor \/ AddDataBreakpoint
  \/ ConditionAnswered \/ CursorAnswered \/ DataAnswered
  \/ DebugEvent \/ Hits \/ Signalled \/ Execs \/ StepEnds \/ SessionExits \/ SessionRecovers
=============================================================================
