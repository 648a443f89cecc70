--------------------------- MODULE MemoryViewer ---------------------------
(***************************************************************************)
(* Memory viewers over the target, and the windows' whole specification.   *)
(*                                                                         *)
(* Viewers change the program's bytes and set breakpoints through the      *)
(* debugger's window; the comments they show are the cheat table's, which  *)
(* the main window keeps (dbg.notes: one entry an address, in the form the *)
(* table or a viewer wrote it in).  A viewer is [h, notes, glyphs]: its    *)
(* handle (0: frozen, its target has gone), the comments and the           *)
(* breakpoint signs it shows.                                              *)
(***************************************************************************)
EXTENDS DebuggerWindow

CONSTANTS MaxViews,    \* viewers open at once
          Notes,       \* the texts of comments
          NoteTables   \* the comments of the tables that can be loaded

all == <<vars, dbg>>

Blank == ""
Note(a, form, text) == [a |-> a, form |-> form, text |-> text]

(* What a viewer shows of an annotation store: every entry that resolves. *)
Shows(store) ==
  [a \in Code |-> LET mine == {i \in DOMAIN store : store[i].a = a}
                  IN IF mine = {} THEN Blank ELSE store[Max(mine)].text]

Live(d) == {i \in DOMAIN d.views : d.views[i].h # 0}
CleanText == [a \in Code |-> "code"]
NoDebug == [win |-> NoWindow, ses |-> NoSession, text |-> CleanText, views |-> <<>>, notes |-> <<>>]

-----------------------------------------------------------------------------
(* What the main window does to the debugger and the viewers *)

(* showDebugger: the window attaches as it is made, or says that it could
   not. *)
Opened(d) ==
  {[d EXCEPT !.win = [NoWindow EXCEPT !.open = TRUE], !.ses = NoSession]}
  \cup {RefreshStopped([d EXCEPT !.win = [NoWindow EXCEPT !.open = TRUE],
                                 !.ses = [NoSession EXCEPT !.on = TRUE, !.stopped = TRUE, !.pc = a]]) : a \in Code}

(* ~DebuggerWindow: detached, and what was queued for it never arrives. *)
Closed(d) == [Detached(d) EXCEPT !.win = NoWindow, !.ses = NoSession]

(* Mutant: a viewer keeps its owner's callbacks when the target goes. *)
FrozenWithCallbacks(d) == [d EXCEPT !.views = [i \in DOMAIN @ |-> [@[i] EXCEPT !.glyphs = {}]]]

(* MemoryBrowser::detachFromTarget, for every viewer: frozen, without its
   owner's callbacks and signs. *)
Frozen(d) == [d EXCEPT !.views = [i \in DOMAIN @ |-> [@[i] EXCEPT !.h = 0, !.glyphs = {}]]]

(* openMemoryView: seeded with the comments that are kept. *)
WithView(d, h) ==
  [d EXCEPT !.views = Append(@, [h |-> h, notes |-> Shows(d.notes), glyphs |-> {}])]

(* How a step of the main window and the list changes them: windows open and
   close with their handles, and another target has other code. *)
Follows ==
  LET was == users["debugger"]  now == users'["debugger"]
      opened == IF now = was THEN {dbg} ELSE IF now = 0 THEN {Closed(dbg)} ELSE Opened(dbg)
      Viewed(d) == IF users'["viewer"] = users["viewer"] THEN d
                   ELSE IF users'["viewer"] = 0 THEN Frozen(d)
                   ELSE IF Len(d.views) < MaxViews THEN WithView(d, users'["viewer"]) ELSE d
  IN \E d \in opened : dbg' = [Viewed(d) EXCEPT !.text = IF target' # target THEN CleanText ELSE @]

-----------------------------------------------------------------------------
(* Commands of a viewer *)

Owned(i) == dbg.views[i].h # 0
View(event) == On(event) /\ ~Modal /\ CanUser
Changed(d) == dbg' = d /\ Spend /\ UNCHANGED <<stack, ret>> /\ Keep

(* File > New window. *)
NewViewer ==
  /\ View("views") /\ users["viewer"] # 0 /\ users["viewer"] = target.h /\ Len(dbg.views) < MaxViews
  /\ Changed(WithView(dbg, target.h))

CloseViewer == View("views") /\ \E i \in DOMAIN dbg.views : Changed([dbg EXCEPT !.views = RemoveAt(@, i)])

(* refreshBreakpoints, by the timer and after a command. *)
Signs(d) == [d EXCEPT !.views = [i \in DOMAIN @ |-> IF @[i].h = 0 THEN @[i] ELSE [@[i] EXCEPT !.glyphs = Armed(d)]]]

RefreshSigns == On("glyphs") /\ EventsRun /\ dbg # Signs(dbg) /\ dbg' = Signs(dbg) /\ Quiet

(* A click in the gutter goes by the sign that is shown, F5 by the breakpoints
   there are; a set while the debugger is closed opens it first. *)
ToggleFromView ==
  /\ On("gutter") /\ CanUser
  /\ \E i \in Live(dbg), a \in Code, key \in BOOLEAN :
       LET shown == IF key THEN a \in Armed(dbg) ELSE a \in dbg.views[i].glyphs
           mine == {k \in DOMAIN dbg.win.rows : ~dbg.win.rows[k].hw /\ dbg.win.rows[k].addr = a}
       IN IF shown
          THEN Command(IF mine = {} THEN Done(dbg) ELSE RemoveRow(dbg, Min(mine)))
          ELSE dbg.win.open /\ Command(AddBreakpointAt(dbg, a, FALSE))
SetFromView ==
  /\ On("gutter") /\ CanUser /\ ~dbg.win.open /\ ~Retiring /\ Open
  /\ users' = [users EXCEPT !["debugger"] = target.h]
  /\ \E a \in Code : Live(dbg) # {} /\ \E d \in Opened(dbg) : \E r \in AddBreakpointAt(d, a, FALSE) :
       /\ Pays(r.cost) /\ dbg' = r.d
  /\ Spend
  /\ UNCHANGED <<rows, nextId, wrapped, proc, stack, ret, patches, made, orders, editor, finder, blind, scen,
                 target, scanned, pause, wait, outside, saved>>

(* F9, F7 and F8, F4: each only while the debugger holds the target. *)
RunFromView ==
  /\ On("run") /\ Paused(dbg) /\ Live(dbg) # {}
  /\ \/ Command(OnContinue(Noted(dbg)))
     \/ Command(Done(RunStep(Noted(dbg))))
     \/ \E a \in Code : Command(RunTo(Noted(dbg), a))

-----------------------------------------------------------------------------
(* Changes of the program's bytes *)

(* Mutant: only the first byte of an edit is looked at. *)
ConflictAtFirst(d, lo, hi) == lo \in Armed(d)

(* breakpointConflict: a breakpoint anywhere in the bytes to be written. *)
Conflict(d, lo, hi) == lo .. hi \cap Armed(d) # {}

(* patchBytes, pokeByte, fillSelection, pasteBytes: all of the bytes or none. *)
Edit(d, lo, hi) ==
  IF Conflict(d, lo, hi) THEN d
  ELSE [d EXCEPT !.text = [a \in Code |-> IF a \in lo .. hi THEN "edit" ELSE @[a]]]

(* Typing, NOP and paste act at once ... *)
EditBytes ==
  /\ On("edit") /\ Live(dbg) # {}
  /\ \E lo, hi \in Code : lo <= hi /\ Command(Done(Edit(dbg, lo, hi)))

(* ... assembling, filling and loading a region ask first, and look at the
   handle and the breakpoints when they are answered. *)
AskBytes ==
  /\ On("edit")
  /\ \E i \in Live(dbg), lo, hi \in Code :
       lo < hi /\ Dialog([Frame("bytes") EXCEPT !.id = lo, !.since = hi, !.h = dbg.views[i].h])

BytesAnswered ==
  /\ Running("bytes", "ask")
  /\ Answered({Answer(TRUE, dbg, 0)} \cup
              IF \E i \in Live(dbg) : dbg.views[i].h = Top.h THEN Done(Edit(dbg, Top.id, Top.since)) ELSE {})

-----------------------------------------------------------------------------
(* Comments *)

(* Mutant: an entry is looked for by the form it was written in only. *)
SavedByForm(d, a, text) ==
  LET mine == {i \in DOMAIN d.notes : d.notes[i].a = a /\ d.notes[i].form = "module"}
      kept == IF mine = {} THEN d.notes ELSE RemoveAt(d.notes, Min(mine))
  IN IF text = Blank THEN kept
     ELSE IF mine = {} THEN Append(kept, Note(a, "module", text)) ELSE [d.notes EXCEPT ![Min(mine)].text = text]

(* The saver of wireBrowserAnnotations: the entry of that address, however it
   is written, takes the text; an empty one goes. *)
SavedNote(d, a, text) ==
  LET mine == {i \in DOMAIN d.notes : d.notes[i].a = a}
      kept == IF mine = {} THEN d.notes ELSE RemoveAt(d.notes, Min(mine))
  IN IF text = Blank THEN kept
     ELSE IF mine = {} THEN Append(kept, Note(a, "module", text)) ELSE [d.notes EXCEPT ![Min(mine)].text = text]

(* editComment: in the viewer's own list and, unless it is frozen, in the
   store and in the other viewers. *)
EditNote(d, i, a, text) ==
  IF d.views[i].h = 0 THEN [d EXCEPT !.views[i].notes[a] = text]
  ELSE [d EXCEPT !.notes = SavedNote(d, a, text),
                 !.views = [j \in DOMAIN @ |-> IF @[j].h = 0 THEN @[j] ELSE [@[j] EXCEPT !.notes[a] = text]]]

AskNote ==
  /\ On("notes")
  /\ \E i \in DOMAIN dbg.views, a \in Code : Dialog([Frame("note") EXCEPT !.id = a, !.since = i])

NoteAnswered ==
  /\ Running("note", "ask")
  /\ Answered({Answer(TRUE, dbg, 0)} \cup
              IF Top.since \in DOMAIN dbg.views
              THEN UNION {Done(EditNote(dbg, Top.since, Top.id, t)) : t \in Notes \cup {Blank}} ELSE {})

(* Mutant: the open viewers keep the comments of the table before. *)
ReplaceStoreOnly(d, store) == [d EXCEPT !.notes = store]

(* replaceAnnotations, for every viewer that is not frozen. *)
ReplaceNotes(d, store) ==
  [d EXCEPT !.notes = store,
            !.views = [i \in DOMAIN @ |-> IF @[i].h = 0 THEN @[i] ELSE [@[i] EXCEPT !.notes = Shows(store)]]]

(* loadCheatTableModel: the records, the question whether the table's Lua may
   run, then the comments. *)
LoadNotes ==
  /\ On("notes") /\ CanUser
  /\ \E k \in DOMAIN NoteTables :
       stack' = Call([Frame("table") EXCEPT !.id = k])
  /\ Spend /\ ret' = "" /\ UNCHANGED dbg /\ Keep

TableRecords ==
  /\ Running("table", "enter")
  /\ ContinueAfter([Top EXCEPT !.at = "records"], Sub([Frame("load") EXCEPT !.want = TRUE]))
  /\ UNCHANGED <<dbg, left>> /\ Keep

TableLoaded ==
  /\ Running("table", "records")
  /\ \/ ret = "fail" /\ Return("fail") /\ UNCHANGED dbg
     \/ ret # "fail" /\ Return("ok") /\ dbg' = ReplaceNotes(dbg, NoteTables[Top.id])
     \/ ret # "fail" /\ Continue([Top EXCEPT !.at = "ask"]) /\ UNCHANGED dbg
  /\ UNCHANGED left /\ Keep

TableAsked ==
  /\ Running("table", "ask")
  /\ Return("ok") /\ dbg' = ReplaceNotes(dbg, NoteTables[Top.id])
  /\ UNCHANGED left /\ Keep

-----------------------------------------------------------------------------
ViewerNext ==
  \/ NewViewer \/ CloseViewer \/ RefreshSigns \/ ToggleFromView \/ SetFromView \/ RunFromView
  \/ EditBytes \/ AskBytes \/ BytesAnswered
  \/ AskNote \/ NoteAnswered \/ LoadNotes \/ TableRecords \/ TableLoaded \/ TableAsked

(* The user closes the debugger's window. *)
CloseDebugger ==
  /\ On("debug") /\ CanUser /\ dbg.win.open
  /\ users' = [users EXCEPT !["debugger"] = 0]
  /\ dbg' = Closed(dbg)
  /\ Spend
  /\ UNCHANGED <<rows, nextId, wrapped, proc, stack, ret, patches, made, orders, editor, finder, blind, scen,
                 target, scanned, pause, wait, outside, saved>>

Next ==
  /\ ~outside.closed
  /\ \/ (WindowNext \/ (ListNext /\ UNCHANGED winVars)) /\ Follows
     \/ DebuggerNext
     \/ ViewerNext
     \/ CloseDebugger

Start == Init /\ dbg = NoDebug

Spec == Start /\ [][Next]_all

-----------------------------------------------------------------------------
(* Properties *)

(* No command was given over a stop the window had not shown yet, and no exec
   waits to be shown. *)
Settled == dbg.ses.on /\ ~dbg.win.early /\ ~Contains(dbg.ses.queue, "exec")

ListedOn == {i \in DOMAIN dbg.win.rows : dbg.win.rows[i].on /\ ~dbg.win.rows[i].asked}

(* The list of breakpoints is the truth: every trap in the program is listed
   as enabled or is the one of run-to-cursor, and every enabled breakpoint is
   armed, after refused removals, new programs, re-arming and one-shot stops. *)
TrapsListed ==
  Settled => /\ \A b \in dbg.ses.bps : b.active =>
                  b.id = dbg.win.rtc \/ \E i \in DOMAIN dbg.win.rows : dbg.win.rows[i].on /\ dbg.win.rows[i].id = b.id
             /\ \A i \in ListedOn : \E b \in dbg.ses.bps : b.active /\ b.id = dbg.win.rows[i].id

(* No edit of a viewer or of the debugger replaces the trap of an enabled
   breakpoint, also when the breakpoint came while the edit asked. *)
TrapsKept ==
  Settled => \A i \in ListedOn : ~dbg.win.rows[i].hw => dbg.text[dbg.win.rows[i].addr] = "trap"

(* Once every event is handled and no step runs, the debugger shows the target
   as stopped exactly when it is, where it is: a refused continue, a false
   condition and a lost thread included. *)
ShownStop ==
  (dbg.win.open /\ dbg.ses.queue = <<>> /\ ~dbg.win.stepping /\ ~dbg.win.early)
    => /\ dbg.win.ui = "stopped" <=> (dbg.ses.on /\ dbg.ses.stopped)
       /\ dbg.win.ui = "stopped" => dbg.win.rip = dbg.ses.pc

(* Every viewer of the target shows the comments the table will save, each
   address having one, whoever edited them and whichever table was loaded. *)
NotesAgree ==
  /\ \A i \in Live(dbg) : dbg.views[i].notes = Shows(dbg.notes)
  /\ \A i, j \in DOMAIN dbg.notes : dbg.notes[i].a = dbg.notes[j].a => i = j

(* A viewer works on the target that is open, or is frozen. *)
ViewersLive == \A i \in DOMAIN dbg.views : dbg.views[i].h \in {0, target.h}

(* What the debugger's window and the viewers show and keep is so. *)
ViewsTrue == TrapsListed /\ TrapsKept /\ ShownStop /\ NotesAgree /\ ViewersLive
=============================================================================
