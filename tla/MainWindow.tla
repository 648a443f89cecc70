---------------------------- MODULE MainWindow ----------------------------
(***************************************************************************)
(* The main window: which target is open, who works on it, and what has to *)
(* happen before it is replaced, exits or the window closes.               *)
(*                                                                         *)
(* The window owns the one process handle; the cheat table, the results,   *)
(* Lua, viewers, the debugger, editors and code finders hold raw pointers  *)
(* to it.  A handle is a number here, never used twice; 0 is no handle.    *)
(***************************************************************************)
EXTENDS AddressList

VARIABLES
  target,    \* process_ with currentPid_ and its transport: [h, pid, kind]
  users,     \* the handle each raw pointer holds
  scanned,   \* whose values lastResult_, undoResult_ and snapshot_ are
  pause,     \* pauseAction_, and the pids stopped by a signal of ours
  saved,     \* the records in the table's file
  wait,      \* "Wait for process": processWatch_, the watcher, its hits
  outside    \* the live pids, the pid of every handle, what went wrong

winVars == <<target, users, scanned, pause, saved, wait, outside>>
vars == <<listVars, winVars>>

NoProcess == [h |-> 0, pid |-> 0, kind |-> "none"]
Users == {"results", "lua", "viewer", "debugger", "tool"}
NoUsers == [u \in Users |-> 0]
NoScans == [last |-> 0, older |-> 0, shot |-> 0]

Open == target.h # 0
Alive(pid) == pid \in outside.alive
Local == target.kind = "local"

(* stopProcessWatch *)
StopWatch(w) == [w EXCEPT !.watch = @ + 1, !.on = FALSE]

(* The user's choice of a target, which ends what was waited for before. *)
Chosen(w) == [StopWatch(w) EXCEPT !.chosen = @ + 1]

Init ==
  /\ scen \in Scenarios
  /\ rows = scen.rows /\ nextId = scen.nextId /\ wrapped = FALSE
  /\ stack = <<>> /\ ret = "" /\ patches = {} /\ made = 0 /\ orders = 0
  /\ editor = NoEditor /\ finder = 0 /\ left = scen.left
  /\ target = [h |-> 1, pid |-> 1, kind |-> "local"] /\ proc = 1 /\ blind = {}
  /\ users = [u \in Users |-> IF u \in {"results", "lua"} THEN 1 ELSE 0]
  /\ scanned = NoScans /\ saved = <<>>
  /\ pause = [on |-> FALSE, stopped |-> {}]
  /\ wait = [watch |-> 0, on |-> FALSE, hits |-> {}, chosen |-> 0]
  /\ outside = [alive |-> scen.pids, pids |-> <<1>>, closed |-> FALSE, fault |-> FALSE]

-----------------------------------------------------------------------------
(* Releasing the target *)

(* Mutant: the records first, then the editors. *)
OwnersByKind ==
  LET held == SelectSeq(CleanupOrder(rows), LAMBDA id : rows[RowOfId(rows, id)].order # 0)
  IN IF editor.order = 0 THEN held ELSE held \o <<0>>

(* Everything that changed the target's code, newest first whoever made it
   (id 0: the editor). *)
OwnersNewestFirst ==
  LET held == SelectSeq(CleanupOrder(rows), LAMBDA id : rows[RowOfId(rows, id)].order # 0)
      newer == SelectSeq(held, LAMBDA id : rows[RowOfId(rows, id)].order > editor.order)
      older == SelectSeq(held, LAMBDA id : rows[RowOfId(rows, id)].order < editor.order)
  IN IF editor.order = 0 THEN held ELSE newer \o <<0>> \o older

(* Mutant: a running script does not keep the target. *)
ReleaseEnterAnyway ==
  /\ Running("release", "enter")
  /\ IF Scanning
     THEN Return("fail") /\ UNCHANGED <<users, finder>>
     ELSE /\ Continue([Top EXCEPT !.at = "owners", !.todo = OwnersNewestFirst])
          /\ users' = [users EXCEPT !["debugger"] = 0, !["tool"] = 0]
          /\ finder' = 0
  /\ UNCHANGED <<rows, nextId, wrapped, proc, patches, made, orders, editor, blind, scen, left,
                 target, scanned, pause, wait, outside, saved>>

(* releaseTargetUsers: refused while a scan's worker reads the target or a
   script runs. *)
ReleaseEnter ==
  /\ Running("release", "enter")
  /\ IF Scanning \/ ~Allowed("Retire")
     THEN Return("fail") /\ UNCHANGED <<users, finder>>
     ELSE /\ Continue([Top EXCEPT !.at = "owners", !.todo = OwnersNewestFirst])
          /\ users' = [users EXCEPT !["debugger"] = 0, !["tool"] = 0]
          /\ finder' = 0
  /\ UNCHANGED <<rows, nextId, wrapped, proc, patches, made, orders, editor, blind, scen, left,
                 target, scanned, pause, wait, outside, saved>>

ReleaseOwners ==
  /\ Running("release", "owners")
  /\ IF ret = "fail" THEN Return("fail")
     ELSE IF Top.todo = <<>> THEN ContinueAfter([Top EXCEPT !.at = "swept"], Sub(Frame("all")))
     ELSE LET next == [Top EXCEPT !.todo = Tail(@)]
          IN IF Head(Top.todo) = 0
             THEN IF editor.open THEN ContinueAfter(next, Sub(Frame("editor"))) ELSE Continue(next)
             ELSE IF RowOfId(rows, Head(Top.todo)) = 0 THEN Continue(next)
             ELSE ContinueAfter(next, Switch(Head(Top.todo), FALSE))
  /\ UNCHANGED <<rows, nextId, wrapped, proc, patches, made, orders, editor, finder, blind, scen, left, winVars>>

(* AddressListModel::setProcess is refused while the list is in use. *)
ListBusy == ScriptBusy \/ MutationBusy \/ {f \in Frames : f.op = "editor" /\ f.at = "lua"} # {}

(* Everything that holds the handle lets go of it, a paused target runs again
   and the list works on none (the sweep that setProcess starts with finds every
   record off: nothing ran since the last one); the caller frees the handle. *)
ReleaseDone ==
  /\ Running("release", "swept")
  /\ IF ret = "fail"
     THEN Return("fail") /\ UNCHANGED <<proc, editor, finder, users, scanned, pause>>
     ELSE /\ Return("ok")
          /\ editor' = IF editor.h # 0 THEN NoEditor ELSE editor
          /\ finder' = 0
          /\ users' = NoUsers
          /\ scanned' = [scanned EXCEPT !.shot = 0]
          /\ pause' = IF pause.on
                      THEN [on |-> FALSE, stopped |-> IF Local THEN pause.stopped \ {target.pid} ELSE pause.stopped]
                      ELSE pause
          /\ proc' = IF ListBusy THEN proc ELSE 0
  /\ UNCHANGED <<rows, nextId, wrapped, patches, made, orders, blind, scen, left, target, wait, outside, saved>>

-----------------------------------------------------------------------------
(* A new target *)

(* attachToPid, attachToGdb, adoptCeserver start with the release. *)
AttachEnter ==
  /\ \/ Running("attach", "enter") \/ Running("leave", "enter") \/ Running("exit", "enter") \/ Running("close", "enter")
  /\ ContinueAfter([Top EXCEPT !.at = "released"], Sub(Frame("release")))
  /\ UNCHANGED <<rows, nextId, wrapped, proc, patches, made, orders, editor, finder, blind, scen, left, winVars>>

(* The old handle is freed and the new one made; a pending wait ends, editors
   opened without a target take it, and for one whose memory cannot be read a
   box opens while the models work on none. *)
AttachReplace ==
  /\ Running("attach", "released")
  /\ IF ret = "fail"
     THEN Return("fail") /\ UNCHANGED <<target, wait, editor, blind, outside, users>>
     ELSE LET h == Len(outside.pids) + 1
              unreadable == Top.to.pid \in scen.unreadable
          IN /\ target' = [h |-> h, pid |-> Top.to.pid, kind |-> Top.to.kind]
             /\ outside' = [outside EXCEPT !.pids = Append(@, Top.to.pid)]
             /\ wait' = Chosen(wait)
             /\ editor' = IF editor.open THEN [editor EXCEPT !.h = h] ELSE editor
             /\ blind' = IF unreadable THEN blind \cup {h} ELSE blind
             /\ users' = [users EXCEPT !["lua"] = IF Top.to.kind = "local" THEN 0 ELSE h]
             /\ IF unreadable THEN Continue([Top EXCEPT !.at = "ask"])
                ELSE ContinueAfter([Top EXCEPT !.at = "bind"], Sub(Frame("all")))
  /\ UNCHANGED <<rows, nextId, wrapped, proc, patches, made, orders, finder, scen, left, scanned, pause, saved>>

AttachWarned ==
  /\ Running("attach", "ask")
  /\ ContinueAfter([Top EXCEPT !.at = "bind"], Sub(Frame("all")))
  /\ UNCHANGED <<rows, nextId, wrapped, proc, patches, made, orders, editor, finder, blind, scen, left, winVars>>

(* Mutant: the results of the old target stay. *)
AttachBindKeeping ==
  /\ Running("attach", "bind")
  /\ proc' = IF ret = "fail" \/ ListBusy THEN proc ELSE target.h
  /\ users' = [users EXCEPT !["results"] = target.h, !["lua"] = target.h]
  /\ wait' = IF Top.want THEN StopWatch(wait) ELSE wait
  /\ Return("ok")
  /\ UNCHANGED <<rows, nextId, wrapped, patches, made, orders, editor, finder, blind, scen, left, scanned,
                 target, pause, outside, saved>>

(* The models take the new target (whatever was switched on meanwhile goes off
   first), and the old one's results go. *)
AttachBind ==
  /\ Running("attach", "bind")
  /\ proc' = IF ret = "fail" \/ ListBusy THEN proc ELSE target.h
  /\ users' = [users EXCEPT !["results"] = target.h, !["lua"] = target.h]
  /\ scanned' = [scanned EXCEPT !.last = 0, !.older = 0]
  /\ wait' = IF Top.want THEN StopWatch(wait) ELSE wait
  /\ Return("ok")
  /\ UNCHANGED <<rows, nextId, wrapped, patches, made, orders, editor, finder, blind, scen, left,
                 target, pause, outside, saved>>

(* onOpenProcess, onConnectGdb. *)
OpenTarget ==
  /\ On("attach") /\ CanUser
  /\ \E t \in scen.targets : t.kind # "ceserver" /\ Alive(t.pid) /\ stack' = Call([Frame("attach") EXCEPT !.to = t])
  /\ Spend /\ ret' = ""
  /\ UNCHANGED <<rows, nextId, wrapped, proc, patches, made, orders, editor, finder, blind, scen, winVars>>

(* onConnectCeserver: the dialog; its answer is adopted wherever the dialog's
   event loop, or one nested in it, delivers it. *)
ConnectDialog ==
  /\ On("connect") /\ CanUser
  /\ \E t \in scen.targets : t.kind = "ceserver" /\ stack' = Call([Frame("connect") EXCEPT !.to = t, !.at = "ask"])
  /\ Spend /\ ret' = ""
  /\ UNCHANGED <<rows, nextId, wrapped, proc, patches, made, orders, editor, finder, blind, scen, winVars>>

Adopt ==
  /\ stack # <<>> /\ Pumping(Top)
  /\ \E i \in DOMAIN stack :
       /\ stack[i].op = "connect" /\ ~stack[i].want /\ Alive(stack[i].to.pid)
       /\ stack' = Append([stack EXCEPT ![i].want = TRUE], [Frame("attach") EXCEPT !.to = stack[i].to])
  /\ ret' = ""
  /\ UNCHANGED <<rows, nextId, wrapped, proc, patches, made, orders, editor, finder, blind, scen, left, winVars>>

(* The dialog closes: cancelled, or its answer was adopted. *)
ConnectClosed ==
  /\ Running("connect", "ask")
  /\ Return("ok")
  /\ UNCHANGED <<rows, nextId, wrapped, proc, patches, made, orders, editor, finder, blind, scen, left, winVars>>

-----------------------------------------------------------------------------
(* The target leaves *)

(* external: the program exits, or the connection to it is lost. *)
Dies ==
  /\ On("exit") /\ left.die > 0 /\ target.pid \in outside.alive
  /\ outside' = [outside EXCEPT !.alive = @ \ {target.pid}]
  /\ left' = [left EXCEPT !.die = @ - 1]
  /\ UNCHANGED <<rows, nextId, wrapped, proc, stack, ret, patches, made, orders, editor, finder, blind, scen,
                 target, users, scanned, pause, wait, saved>>

(* The refresh timer finds the target gone: it waits for dialogs and menus to
   close, and stands still during a scan. *)
ExitSeen ==
  /\ Open /\ ~Alive(target.pid) /\ ~Modal /\ ~Scanning
  /\ EventsRun
  /\ stack' = Call(Frame(IF Local THEN "exit" ELSE "leave")) /\ ret' = ""
  /\ UNCHANGED <<rows, nextId, wrapped, proc, patches, made, orders, editor, finder, blind, scen, left, winVars>>

(* onDisconnectProcess, by the user. *)
Disconnect ==
  /\ On("leave") /\ CanUser /\ Open
  /\ stack' = Call(Frame("leave")) /\ ret' = ""
  /\ Spend
  /\ UNCHANGED <<rows, nextId, wrapped, proc, patches, made, orders, editor, finder, blind, scen, winVars>>

(* closeEvent: the question about unsaved changes, then the release. *)
CloseWindow ==
  /\ On("close") /\ CanUser
  /\ \E at \in {"ask", "enter"} : stack' = Call([Frame("close") EXCEPT !.at = at])
  /\ Spend /\ ret' = ""
  /\ UNCHANGED <<rows, nextId, wrapped, proc, patches, made, orders, editor, finder, blind, scen, winVars>>

CloseAnswered ==
  /\ Running("close", "ask")
  /\ \/ Return("ok") \/ Continue([Top EXCEPT !.at = "enter"])
  /\ UNCHANGED <<rows, nextId, wrapped, proc, patches, made, orders, editor, finder, blind, scen, left, winVars>>

(* The handle is freed.  An exited local target leaves its results on screen
   and a wait running; a disconnect clears and ends them. *)
Left ==
  /\ stack # <<>> /\ Top.at = "released" /\ Top.op \in {"exit", "leave", "close"}
  /\ Return(ret)
  /\ IF ret = "fail" THEN UNCHANGED <<target, scanned, wait, outside>>
     ELSE /\ target' = IF Top.op = "close" THEN target ELSE NoProcess
          /\ scanned' = IF Top.op = "leave" THEN NoScans ELSE scanned
          /\ wait' = IF Top.op = "leave" THEN Chosen(wait) ELSE wait
          /\ outside' = [outside EXCEPT !.closed = Top.op = "close"]
  /\ UNCHANGED <<rows, nextId, wrapped, proc, patches, made, orders, editor, finder, blind, scen, left, users, pause, saved>>

-----------------------------------------------------------------------------
(* Waiting for a process *)

StartWatch ==
  /\ On("wait") /\ CanUser
  /\ wait' = [Chosen(wait) EXCEPT !.on = TRUE]
  /\ Spend
  /\ UNCHANGED <<rows, nextId, wrapped, proc, stack, ret, patches, made, orders, editor, finder, blind, scen,
                 target, users, scanned, pause, outside, saved>>

(* The watcher's thread sees a matching program start and queues the hit. *)
WatcherHit ==
  /\ wait.on /\ left.hits > 0
  /\ \E t \in scen.targets :
       /\ t.kind = "local" /\ Alive(t.pid)
       /\ wait' = [wait EXCEPT !.hits = @ \cup {[to |-> t, watch |-> wait.watch, since |-> wait.chosen]}]
  /\ left' = [left EXCEPT !.hits = @ - 1]
  /\ UNCHANGED <<rows, nextId, wrapped, proc, stack, ret, patches, made, orders, editor, finder, blind, scen,
                 target, users, scanned, pause, outside, saved>>

(* Mutant: a hit that waited for a dialog is not checked against the watch. *)
AutoAttachAnyHit ==
  /\ EventsRun
  /\ ~Modal /\ ~Scanning
  /\ \E hit \in wait.hits :
       /\ wait' = [wait EXCEPT !.hits = @ \ {hit}]
       /\ IF ~Alive(hit.to.pid)
          THEN UNCHANGED <<stack, ret>>
          ELSE /\ ret' = ""
               /\ stack' = Call([Frame("attach") EXCEPT !.to = hit.to, !.want = TRUE, !.since = hit.since])
  /\ UNCHANGED <<rows, nextId, wrapped, proc, patches, made, orders, editor, finder, blind, scen, left,
                 target, users, scanned, pause, outside, saved>>

(* autoAttach: a hit of an ended watch or of a program gone is dropped, one
   under a dialog or a scan is tried again later. *)
AutoAttach ==
  /\ EventsRun
  /\ \E hit \in wait.hits :
       LET dropped == hit.watch # wait.watch \/ ~Alive(hit.to.pid)
       IN /\ dropped \/ (~Modal /\ ~Scanning)
          /\ wait' = [wait EXCEPT !.hits = @ \ {hit}]
          /\ IF dropped
             THEN UNCHANGED <<stack, ret>>
             ELSE /\ ret' = ""
                  /\ stack' = Call([Frame("attach") EXCEPT !.to = hit.to, !.want = TRUE, !.since = hit.since])
  /\ UNCHANGED <<rows, nextId, wrapped, proc, patches, made, orders, editor, finder, blind, scen, left,
                 target, users, scanned, pause, outside, saved>>

-----------------------------------------------------------------------------
(* What works on the target *)

(* Pause the process. *)
TogglePause ==
  /\ On("pause") /\ CanUser /\ Open
  /\ pause' = IF Local /\ Alive(target.pid)
              THEN [on |-> ~pause.on,
                    stopped |-> IF pause.on THEN pause.stopped \ {target.pid} ELSE pause.stopped \cup {target.pid}]
              ELSE [pause EXCEPT !.on = FALSE]
  /\ Spend
  /\ UNCHANGED <<rows, nextId, wrapped, proc, stack, ret, patches, made, orders, editor, finder, blind, scen,
                 target, users, scanned, wait, outside, saved>>

(* onFirstScan with a session open: New Scan. *)
NewScan ==
  /\ On("scan") /\ CanUser /\ scanned.last # 0
  /\ scanned' = [scanned EXCEPT !.last = 0, !.older = 0]
  /\ Spend
  /\ UNCHANGED <<rows, nextId, wrapped, proc, stack, ret, patches, made, orders, editor, finder, blind, scen,
                 target, users, pause, wait, outside, saved>>

(* A worker reads the target while the window pumps: a scan (`id` 1), for
   which the target is stopped when that is asked for and it is not stopped
   already (`since`), or a snapshot (2). *)
Work(id, stop) ==
  LET stopping == stop /\ Local /\ target.pid \notin pause.stopped
  IN /\ stack' = Call([Frame("scan") EXCEPT !.at = "work", !.id = id, !.h = target.h,
                                            !.since = IF stopping THEN target.pid ELSE 0])
     /\ pause' = IF stopping THEN [pause EXCEPT !.stopped = @ \cup {target.pid}] ELSE pause
     /\ ret' = ""

(* onFirstScan: refused for a target that cannot be read. *)
FirstScan ==
  /\ On("scan") /\ CanUser /\ Open /\ scanned.last = 0 /\ target.h \notin blind
  /\ \E stop \in BOOLEAN : Work(1, stop)
  /\ Spend
  /\ UNCHANGED <<rows, nextId, wrapped, proc, patches, made, orders, editor, finder, blind, scen,
                 target, users, scanned, wait, outside, saved>>

NextScan ==
  /\ On("scan") /\ CanUser /\ Open /\ scanned.last # 0
  /\ \E stop \in BOOLEAN : Work(1, stop)
  /\ Spend
  /\ UNCHANGED <<rows, nextId, wrapped, proc, patches, made, orders, editor, finder, blind, scen,
                 target, users, scanned, wait, outside, saved>>

(* "Capture writable regions" and "Restore baseline", which asks first (3). *)
CaptureSnapshot ==
  /\ On("scan") /\ CanUser /\ Open
  /\ Work(2, FALSE)
  /\ Spend
  /\ UNCHANGED <<rows, nextId, wrapped, proc, patches, made, orders, editor, finder, blind, scen,
                 target, users, scanned, wait, outside, saved>>

RestoreSnapshot ==
  /\ On("scan") /\ CanUser /\ Open /\ scanned.shot # 0
  /\ stack' = Call([Frame("scan") EXCEPT !.at = "ask", !.id = 3]) /\ ret' = ""
  /\ Spend
  /\ UNCHANGED <<rows, nextId, wrapped, proc, patches, made, orders, editor, finder, blind, scen, winVars>>

(* "Restore?" is answered: both are looked at again. *)
RestoreAnswered ==
  /\ Running("scan", "ask") /\ Top.id = 3
  /\ \/ Return("fail")
     \/ IF Open /\ scanned.shot # 0 THEN Continue([Top EXCEPT !.at = "work", !.h = target.h]) ELSE Return("fail")
  /\ UNCHANGED <<rows, nextId, wrapped, proc, patches, made, orders, editor, finder, blind, scen, left, winVars>>

(* The worker ended: the target runs again, and the result is shown after a
   box that says it is truncated, or not at all. *)
ScanDone ==
  /\ Running("scan", "work")
  /\ pause' = [pause EXCEPT !.stopped = @ \ {Top.since}]
  /\ \/ Return("fail") /\ UNCHANGED scanned
     \/ Top.id = 1 /\ Continue([Top EXCEPT !.at = "ask"]) /\ UNCHANGED scanned
     \/ /\ Return("ok")
        /\ scanned' = CASE Top.id = 1 -> [scanned EXCEPT !.older = scanned.last, !.last = Top.h]
                        [] Top.id = 2 -> [scanned EXCEPT !.shot = Top.h]
                        [] OTHER -> scanned
  /\ UNCHANGED <<rows, nextId, wrapped, proc, patches, made, orders, editor, finder, blind, scen, left,
                 target, users, wait, outside, saved>>

ScanTruncated ==
  /\ Running("scan", "ask") /\ Top.id = 1
  /\ scanned' = [scanned EXCEPT !.older = scanned.last, !.last = Top.h]
  /\ Return("ok")
  /\ UNCHANGED <<rows, nextId, wrapped, proc, patches, made, orders, editor, finder, blind, scen, left,
                 target, users, pause, wait, outside, saved>>

(* onUndoScan *)
UndoScan ==
  /\ On("scan") /\ CanUser /\ scanned.older # 0
  /\ scanned' = [scanned EXCEPT !.last = scanned.older, !.older = 0]
  /\ Spend
  /\ UNCHANGED <<rows, nextId, wrapped, proc, stack, ret, patches, made, orders, editor, finder, blind, scen,
                 target, users, pause, wait, outside, saved>>

(* saveTableToPath: the old file stays unless the new one is complete.  Undo
   is not saved, and a saved record loads switched off. *)
Saved(rs) == [i \in DOMAIN rs |-> [Row(rs[i].id, rs[i].kind, rs[i].indent) EXCEPT !.text = rs[i].text, !.shown = rs[i].shown]]

SaveTable ==
  /\ On("save") /\ CanUser
  /\ saved' \in {saved, Saved(rows)}
  /\ Spend
  /\ UNCHANGED <<rows, nextId, wrapped, proc, stack, ret, patches, made, orders, editor, finder, blind, scen,
                 target, users, scanned, pause, wait, outside>>

(* loadTableFromPath with that file. *)
LoadSaved ==
  /\ On("save") /\ CanUser /\ saved # <<>>
  /\ stack' = Call([Frame("load") EXCEPT !.new = saved, !.want = TRUE]) /\ ret' = ""
  /\ Spend
  /\ UNCHANGED <<rows, nextId, wrapped, proc, patches, made, orders, editor, finder, blind, scen, winVars>>

(* A viewer, a tool window or the debugger opens on the target; Lua is given
   the target again with its console. *)
OpenWindow ==
  /\ On("windows") /\ CanUser /\ Open
  /\ \E u \in {"viewer", "tool", "debugger", "lua"} :
       /\ u = "debugger" => ~Retiring
       /\ users' = [users EXCEPT ![u] = target.h]
  /\ Spend
  /\ UNCHANGED <<rows, nextId, wrapped, proc, stack, ret, patches, made, orders, editor, finder, blind, scen,
                 target, scanned, pause, wait, outside, saved>>

(* A script editor, bound to the target or, without one, to the next. *)
OpenEditor ==
  /\ On("editor") /\ CanUser /\ ~editor.open
  /\ editor' = [NoEditor EXCEPT !.open = TRUE, !.h = target.h]
  /\ Spend
  /\ UNCHANGED <<rows, nextId, wrapped, proc, stack, ret, patches, made, orders, finder, blind, scen, winVars>>

(* startCodeFinderForAddress: older finders stop, a Wine program asks first,
   and the debugger is made only for a target that is still there. *)
StartFinder ==
  /\ On("finder") /\ CanUser /\ Open
  /\ finder' = 0
  /\ stack' = Call([Frame("finder") EXCEPT !.at = "ask"]) /\ ret' = ""
  /\ Spend
  /\ UNCHANGED <<rows, nextId, wrapped, proc, patches, made, orders, editor, blind, scen, winVars>>

FinderAnswered ==
  /\ Running("finder", "ask")
  /\ Return("ok")
  /\ finder' \in {0, IF Retiring THEN 0 ELSE target.h}
  /\ UNCHANGED <<rows, nextId, wrapped, proc, patches, made, orders, editor, blind, scen, left, winVars>>

(* showInstructionAccesses: it lets events run once and then samples the
   target it was called for. *)
StartSample ==
  /\ On("sample") /\ CanUser /\ Open
  /\ finder' = 0
  /\ stack' = Call([Frame("sample") EXCEPT !.at = "work", !.h = target.h]) /\ ret' = ""
  /\ Spend
  /\ UNCHANGED <<rows, nextId, wrapped, proc, patches, made, orders, editor, blind, scen, winVars>>

Sampled ==
  /\ Running("sample", "work")
  /\ Return("ok")
  /\ outside' = [outside EXCEPT !.fault = @ \/ ~Open]
  /\ UNCHANGED <<rows, nextId, wrapped, proc, patches, made, orders, editor, finder, blind, scen, left,
                 target, users, scanned, pause, wait, saved>>

(* The refresh timer reads the values of the records. *)
RefreshValues ==
  /\ Open /\ Alive(target.pid) /\ ~Scanning
  /\ EventsRun
  /\ rows' = [i \in DOMAIN rows |-> IF rows[i].kind # "value" THEN rows[i]
                                    ELSE [rows[i] EXCEPT !.shown = IF target.h \in blind THEN 0 ELSE target.h]]
  /\ rows' # rows
  /\ UNCHANGED <<nextId, wrapped, proc, stack, ret, patches, made, orders, editor, finder, blind, scen, left, winVars>>

-----------------------------------------------------------------------------
WindowNext ==
  \/ ReleaseEnter \/ ReleaseOwners \/ ReleaseDone
  \/ AttachEnter \/ AttachReplace \/ AttachWarned \/ AttachBind
  \/ OpenTarget \/ ConnectDialog \/ Adopt \/ ConnectClosed
  \/ Dies \/ ExitSeen \/ Disconnect \/ CloseWindow \/ CloseAnswered \/ Left
  \/ StartWatch \/ WatcherHit \/ AutoAttach
  \/ TogglePause \/ NewScan \/ FirstScan \/ NextScan \/ CaptureSnapshot \/ RestoreSnapshot
  \/ RestoreAnswered \/ ScanDone \/ ScanTruncated \/ UndoScan
  \/ SaveTable \/ LoadSaved \/ OpenWindow \/ OpenEditor \/ StartFinder \/ FinderAnswered \/ StartSample \/ Sampled \/ RefreshValues

-----------------------------------------------------------------------------
(* Properties *)

(* What the script of a record or of the editor changed in a program that
   still runs can be undone: someone holds the undo and the handle of that
   program, however the switching, deleting, loading and re-attaching ran
   inside one another and whatever failed. *)
UndoNeverLost ==
  \A p \in patches :
    Alive(outside.pids[p.on]) =>
      /\ p.on = target.h
      /\ (\E i \in DOMAIN rows : rows[i].undo = p.n) \/ editor.undo = p.n

(* A sweep over everything that was changed: the batch running, and the
   operations above it its own. *)
Sweeping(op) ==
  \E i \in DOMAIN stack : stack[i].op = op /\ \A j \in i + 1 .. Len(stack) : stack[j].back

(* One of these rows holds the undo n. *)
OwnedIn(n, R) == \E i \in R : rows[i].undo = n

(* Leaving a target, switching all records off, deleting records and loading
   another table undo the newest change first: what remains then, of the
   changes that the sweep is to undo, is older (the editor's count when the
   target is left). *)
NewestFirst ==
  [][\A p \in patches \ patches', q \in patches' :
       (q.on = p.on /\ (\/ Sweeping("release")
                        \/ (Sweeping("all") \/ Sweeping("load")) /\ OwnedIn(q.n, DOMAIN rows)
                        \/ Sweeping("drop") /\ \E f \in Frames : f.op = "drop" /\ OwnedIn(q.n, ToSet(f.new)))) => q.n < p.n]_vars

(* Nobody holds the handle of a target that was replaced: neither the list,
   the other windows, editors and finders, nor an operation that waits inside
   a script, a scan or a box. *)
HandlesLive ==
  /\ ~outside.fault
  /\ {proc, finder, editor.h} \cup {users[u] : u \in Users} \subseteq {0, target.h}
  /\ \A f \in Frames : f.at \in {"lua", "work"} => f.h = target.h

(* What the window keeps about a target is about the one that is open: scan
   results and the snapshot, the values frozen into it, and only it may be
   stopped by the window. *)
StateOfTarget ==
  /\ users["results"] # 0 => {scanned.last, scanned.older, scanned.shot} \subseteq {0, target.h}
  /\ \A i \in DOMAIN rows :
       rows[i].on /\ rows[i].frozen # 0 /\ Open /\ target.h \notin blind => rows[i].frozen = target.h
  /\ pause.stopped \cap outside.alive \subseteq {target.pid}

(* A hit of "Wait for process" opens its program only while it is still what
   the user waits for: no other target was chosen since and no other wait. *)
WatchCurrent ==
  \A f \in Frames : f.op = "attach" /\ f.want /\ f.at = "enter" => f.since = wait.chosen

(* No two records share an id, also after the counter wrapped and across
   loads and pastes: hotkeys, Lua and the operations under way go by id. *)
IdsUnique == \A i, j \in DOMAIN rows : rows[i].id = rows[j].id => i = j

(* Every change of the target has an owner that can be found by its id. *)
OwnersKnown == UndoNeverLost /\ IdsUnique

(* Moving a record past its siblings and deleting records leave every other
   record under the record it was under. *)
TreeKept ==
  [][(MoveRow \/ DropEach) =>
       \A i \in DOMAIN rows, j \in DOMAIN rows' :
         rows[i].id = rows'[j].id => ParentId(rows, i) = ParentId(rows', j)]_vars

(* Wherever a record is dragged, the rows nested under it go with it and stay
   under what they were under, every record is still there once, and the others
   keep their order and their levels; dropped onto a group that is not under it,
   it is in that group. *)
DragKept ==
  [][\A i \in DOMAIN rows : DragRow(i) =>
       LET block == {rows[k].id : k \in i .. LastUnder(rows, i)}
           others(rs) == SelectSeq(rs, LAMBDA r : r.id \notin block)
           at(id) == RowOfId(rows', id)
       IN /\ IdsOf(rows') = IdsOf(rows) /\ Len(rows') = Len(rows)
          /\ others(rows') = others(rows)
          /\ \A k \in i + 1 .. LastUnder(rows, i) : ParentId(rows', at(rows[k].id)) = ParentId(rows, k)
          /\ \A g \in DOMAIN rows \ (i .. LastUnder(rows, i)) :
               rows[g].kind = "group" /\ DropOnto(i, g) => ParentId(rows', at(rows[i].id)) = rows[g].id]_vars

(* Every handle, cached value and pending answer in the window is of the target
   it shows. *)
TargetCurrent == HandlesLive /\ StateOfTarget /\ WatchCurrent

(* A sweep undoes the newest change first; rows that are moved or deleted leave
   the tree of the others as it is, and one that is dragged takes its own along. *)
RowsOrdered == NewestFirst /\ TreeKept /\ DragKept
=============================================================================
