---------------------------- MODULE AddressList ----------------------------
(***************************************************************************)
(* The cheat table's records (AddressListModel) and the script editor,     *)
(* which share one auto assembler on the user-interface thread.            *)
(*                                                                         *)
(* Everything here runs on one thread, yet nothing is atomic: switching a  *)
(* record on or off runs the script's Lua, shows error boxes and calls Lua *)
(* callbacks, and each of those may run further operations of the list     *)
(* before the first one continues.  `stack` holds the operations that have *)
(* been entered and not left, the innermost last; an operation that is     *)
(* `Pumping` lets others start on top of it.  The code's reentrancy flags  *)
(* (scriptBusy_, mutationBusy_, AutoAsmUiOperation) are what the stack     *)
(* holds.                                                                  *)
(***************************************************************************)
EXTENDS Integers, Sequences, FiniteSets, SequencesExt

CONSTANTS
  MaxId,       \* numeric_limits<int>::max(): the last id before the wrap
  Scenarios    \* the starting points, see MCMainWindow

ASSUME MaxIdAssumption == MaxId \in Nat \ {0}

-----------------------------------------------------------------------------
(* The rows as plain data: how record ids are handed out and imported, and *)
(* how moving, grouping, indenting and deleting rows rearranges the tree   *)
(* that the indents stand for (core/address_list.hpp and the functions of  *)
(* the model that use it).                                                 *)

(* One record.  `shown` and `frozen` are the target the displayed value was
   read from and the one a frozen value was taken from (0: no value); `undo`
   is the patch the record can still take back, `order` when it was made. *)
Row(id, kind, indent) ==
  [id |-> id, kind |-> kind, indent |-> indent, text |-> 1, on |-> FALSE,
   shown |-> 0, frozen |-> 0, undo |-> 0, order |-> 0]

IdsOf(rs) == {rs[i].id : i \in DOMAIN rs}

(* The row of an id, 0 when no record has it. *)
RowOfId(rs, id) ==
  IF id \in IdsOf(rs) THEN CHOOSE i \in DOMAIN rs : rs[i].id = id /\ \A j \in 1 .. i - 1 : rs[j].id # id ELSE 0

-----------------------------------------------------------------------------
(* Ids *)

(* The k-th id after `nx`, wrapping past MaxId to 1. *)
Later(nx, k) == ((nx - 1 + k) % MaxId) + 1

(* Mutant: after the wrap the next id is taken without looking for it. *)
AllocIdBlind(rs, nx, wr) == [id |-> nx, next |-> Later(nx, 1), wrapped |-> wr \/ nx = MaxId]

(* allocId: until the counter wraps its next value is free; afterwards the
   next value no record has. *)
AllocId(rs, nx, wr) ==
  LET free(k) == (~wr /\ k = 0 /\ nx < MaxId) \/ Later(nx, k) \notin IdsOf(rs)
      k == CHOOSE k \in 0 .. MaxId - 1 : free(k) /\ \A j \in 0 .. k - 1 : ~free(j)
  IN [id |-> Later(nx, k), next |-> Later(nx, k + 1), wrapped |-> wr \/ nx + k >= MaxId]

HasFreeId(rs) == Cardinality(IdsOf(rs)) < MaxId

MaxOf(S) == CHOOSE m \in S \cup {0} : \A n \in S : n <= m

(* fromJson's ids: the first record that brings an id keeps it, every other
   one takes a fresh id that no imported record brings either (id 0 here: the
   record brings none). *)
ImportIds(arr) ==
  LET given == {arr[i].id : i \in DOMAIN arr} \ {0}
      largest == MaxOf(given)
      step(s, r) ==
        IF r.id # 0 /\ r.id \notin s.used
        THEN [s EXCEPT !.used = @ \cup {r.id}, !.out = Append(@, r.id)]
        ELSE LET k == CHOOSE k \in 0 .. MaxId - 1 :
                        /\ Later(s.fresh, k) \notin given \cup s.used
                        /\ \A j \in 0 .. k - 1 : Later(s.fresh, j) \in given \cup s.used
                 id == Later(s.fresh, k)
             IN [used |-> s.used \cup {id}, fresh |-> Later(id, 1), out |-> Append(s.out, id)]
  IN FoldLeft(step, [used |-> {}, fresh |-> (largest % MaxId) + 1, out |-> <<>>], arr).out

(* The counter after an import. *)
NextAfter(ids) == (MaxOf(ids) % MaxId) + 1

-----------------------------------------------------------------------------
(* The tree the indents stand for *)

(* descendantRange: the last of the rows nested under row i. *)
LastUnder(rs, i) ==
  CHOOSE e \in i .. Len(rs) :
    /\ \A j \in i + 1 .. e : rs[j].indent > rs[i].indent
    /\ e = Len(rs) \/ rs[e + 1].indent <= rs[i].indent

(* The row above that row i is nested under, 0 at the top level. *)
ParentRow(rs, i) == MaxOf({j \in 1 .. i - 1 : rs[j].indent < rs[i].indent})

(* The id of a record's parent, 0 at the top level. *)
ParentId(rs, i) == IF ParentRow(rs, i) = 0 THEN 0 ELSE rs[ParentRow(rs, i)].id

(* expandGroupDeletion: a selected row takes the rows nested under it. *)
WithSubtrees(rs, sel) == UNION {i .. LastUnder(rs, i) : i \in sel}

(* Mutant: a move takes the record without the rows nested under it. *)
MoveBlockAlone(rs, src, dest, root) ==
  LET rest == RemoveAt(rs, src)
      at == IF dest > src THEN dest - 1 ELSE dest
  IN InsertAt(rest, at, rs[src])

(* moveEntryBlock: the record and the rows under it, put before the row that
   is at `dest` now, the whole block re-indented when `root` is not -1. *)
MoveBlock(rs, src, dest, root) ==
  LET end == LastUnder(rs, src)
      by == IF root = -1 THEN 0 ELSE root - rs[src].indent
      raised == [i \in 1 .. end - src + 1 |->
                  [rs[src + i - 1] EXCEPT !.indent = IF @ + by < 0 THEN 0 ELSE @ + by]]
      before == SubSeq(rs, 1, src - 1)
      after == SubSeq(rs, end + 1, Len(rs))
  IN IF dest \in src .. end + 1 THEN before \o raised \o after
     ELSE IF dest < src
     THEN SubSeq(rs, 1, dest - 1) \o raised \o SubSeq(rs, dest, src - 1) \o after
     ELSE before \o SubSeq(rs, end + 1, dest - 1) \o raised \o SubSeq(rs, dest, Len(rs))

(* moveEntry: past the previous or the next sibling and what is under it; at
   the end of its group a record stays where it is. *)
MoveEntry(rs, i, up) ==
  LET level == rs[i].indent
      before == MaxOf({j \in 1 .. i - 1 : rs[j].indent <= level})
      next == LastUnder(rs, i) + 1
  IN IF up
     THEN IF before = 0 \/ rs[before].indent # level THEN rs ELSE MoveBlock(rs, i, before, -1)
     ELSE IF next > Len(rs) \/ rs[next].indent # level THEN rs
          ELSE MoveBlock(rs, i, LastUnder(rs, next) + 1, -1)

(* shiftIndentRows for one selected row: with the rows under it, at most one
   level below the row above. *)
ShiftIndent(rs, i, delta) ==
  LET room == IF i = 1 THEN 0 ELSE rs[i - 1].indent + 1 - rs[i].indent
      by == IF delta > 0 THEN (IF room < delta THEN room ELSE delta)
            ELSE IF -rs[i].indent > delta THEN -rs[i].indent ELSE delta
  IN [j \in DOMAIN rs |-> IF j \in i .. LastUnder(rs, i)
                          THEN [rs[j] EXCEPT !.indent = IF @ + by < 0 THEN 0 ELSE @ + by]
                          ELSE rs[j]]

(* groupSelection: a new group at the first selected row, at the shallowest
   selected indent, the selected rows gathered under it. *)
GroupRows(rs, sel, header) ==
  LET picked == SetToSortSeq(sel, <)
      rest == SetToSortSeq(DOMAIN rs \ sel, <)
      first == Head(picked)
      shallow == CHOOSE n \in {rs[i].indent : i \in sel} : \A i \in sel : n <= rs[i].indent
      above == SelectSeq(rest, LAMBDA i : i < first)
      below == SelectSeq(rest, LAMBDA i : i > first)
  IN [k \in DOMAIN above |-> rs[above[k]]]
       \o <<[header EXCEPT !.indent = shallow]>>
       \o [k \in DOMAIN picked |-> [rs[picked[k]] EXCEPT !.indent = @ + 1]]
       \o [k \in DOMAIN below |-> rs[below[k]]]

(* fromJson's indents: at most one level below the row before. *)
ClampIndents(rs) ==
  FoldLeft(LAMBDA out, r : Append(out, [r EXCEPT !.indent =
             LET room == IF out = <<>> THEN 0 ELSE Last(out).indent + 1
             IN IF @ < room THEN @ ELSE room]), <<>>, rs)

(* cleanupOrder: the records by descending order of their patches, row order
   among equals. *)
CleanupOrder(rs) ==
  LET before(i, j) == rs[i].order > rs[j].order \/ (rs[i].order = rs[j].order /\ i < j)
  IN [k \in DOMAIN rs |-> rs[SetToSortSeq(DOMAIN rs, before)[k]].id]

-----------------------------------------------------------------------------
(* The list *)

VARIABLES
  rows,      \* entries_
  nextId,    \* nextId_
  wrapped,   \* idWrapped_
  proc,      \* proc_, the target the list works on: a handle, 0 for none
  stack,     \* the operations under way, innermost last
  ret,       \* what the operation just left returned to the one below it
  patches,   \* what scripts changed in a target: {[n, on]}
  made,      \* patches ever made
  orders,    \* AutoAsmUiOperation::order_
  editor,    \* one script editor: open, its handle, its undo
  finder,    \* the target a code finder traces, 0 for none
  blind,     \* the handles whose memory cannot be read
  scen,      \* the scenario
  left       \* the budgets of events, nested events and failures left

listVars == <<rows, nextId, wrapped, proc, stack, ret, patches, made, orders, editor, finder, blind, scen, left>>

-----------------------------------------------------------------------------
(* Operations under way *)

NoTarget == [pid |-> 0, kind |-> "none"]

Frame(op) == [op |-> op, at |-> "enter", id |-> 0, want |-> FALSE, todo |-> <<>>, new |-> <<>>,
              back |-> FALSE, h |-> 0, since |-> 0, to |-> NoTarget]

(* A call whose caller waits for the answer. *)
Sub(f) == [f EXCEPT !.back = TRUE]

(* setEntryActive(rowOfId(id), want), called from another operation. *)
Switch(id, want) == Sub([Frame("switch") EXCEPT !.id = id, !.want = want])

Top == Last(stack)

Call(f) == Append(stack, f)

(* The innermost operation goes on as f, or goes on as f after calling g. *)
Continue(f) == stack' = Append(Front(stack), f) /\ ret' = ""
ContinueAfter(f, g) == stack' = Front(stack) \o <<f, g>> /\ ret' = ""

(* The innermost operation returns r. *)
Return(r) == stack' = Front(stack) /\ ret' = (IF Top.back THEN r ELSE "")

Running(op, at) == stack # <<>> /\ Top.op = op /\ Top.at = at

(* Where an operation waits in Lua code, a callback or a message box, so that
   others can start inside it. *)
Pumping(f) == f.op \in {"box", "connect"} \/ f.at \in {"lua", "report", "told", "ask", "work"}

Frames == {stack[i] : i \in DOMAIN stack}

(* The running script's Lua and the box that reports its failure are inside
   the busy scope; the callback that follows a success is not. *)
ScriptBusy == \E f \in Frames : f.op = "switch" /\ f.at \in {"lua", "report"}

MutationBusy == \E f \in Frames : f.op \in {"all", "drop", "load", "text"}

(* AutoAsmUiOperation *)
Purposes ==
  {IF f.op = "release" THEN "Retire" ELSE IF f.want THEN "Execute" ELSE "Cleanup" :
     f \in {g \in Frames : \/ g.op = "switch" /\ g.at \in {"lua", "report"}
                           \/ g.op = "editor" /\ g.at = "lua"
                           \/ g.op = "release" /\ g.at # "enter"}}

Allowed(purpose) == \A p \in Purposes : purpose = "Cleanup" /\ p = "Retire"

Retiring == "Retire" \in Purposes

(* The event loop runs: timers and queued calls are delivered. *)
EventsRun == stack # <<>> => Pumping(Top)

(* A modal dialog or box is open; a scan's worker runs (scanInProgress_). *)
Modal == \E f \in Frames : f.op \in {"box", "connect"} \/ f.at \in {"report", "ask"}
Scanning == \E f \in Frames : f.op = "scan" /\ f.at = "work"

(* An event can start now: with nothing under way, or inside an operation that
   is pumping.  A dialog and a scan keep the user's input out, hotkeys and Lua
   timers come through. *)
CanNest == \/ stack = <<>> /\ left.user > 0
           \/ stack # <<>> /\ Pumping(Top) /\ left.nested > 0
CanUser == CanNest /\ ~Modal /\ ~Scanning

Spend == left' = IF stack = <<>> THEN [left EXCEPT !.user = @ - 1] ELSE [left EXCEPT !.nested = @ - 1]

(* The scenario allows this event. *)
On(event) == event \in scen.events

-----------------------------------------------------------------------------
(* setEntryActive *)

Index == RowOfId(rows, Top.id)
Record == rows[Index]
SetRow(r) == rows' = [rows EXCEPT ![Index] = r]

(* hasSavedUndo *)
Pending == Record.undo # 0

(* Mutant: a record switched off by flag alone is enabled without undoing
   what it still has in the target. *)
SwitchEnterNoUndo ==
  /\ Running("switch", "enter")
  /\ IF \/ Index = 0
        \/ ScriptBusy
        \/ Top.want /\ (MutationBusy \/ Retiring) THEN Return("fail")
     ELSE IF Record.on = Top.want /\ ~(Pending /\ ~Top.want) THEN Return("ok")
     ELSE Continue([Top EXCEPT !.at = "run"])
  /\ UNCHANGED <<rows, nextId, wrapped, proc, patches, made, orders, editor, finder, blind, scen, left>>

(* The guards, and the undo that must come before a second enable. *)
SwitchEnter ==
  /\ Running("switch", "enter")
  /\ IF \/ Index = 0
        \/ ScriptBusy
        \/ Top.want /\ (MutationBusy \/ Retiring) THEN Return("fail")
     ELSE IF Record.on = Top.want /\ ~(Pending /\ ~Top.want) THEN Return("ok")
     ELSE IF Top.want /\ Pending /\ ~Record.on
     THEN ContinueAfter([Top EXCEPT !.at = "again"], Switch(Top.id, FALSE))
     ELSE Continue([Top EXCEPT !.at = "run"])
  /\ UNCHANGED <<rows, nextId, wrapped, proc, patches, made, orders, editor, finder, blind, scen, left>>

SwitchAgain ==
  /\ Running("switch", "again")
  /\ IF ret = "fail" \/ Index = 0 THEN Return("fail") ELSE Continue([Top EXCEPT !.at = "run"])
  /\ UNCHANGED <<rows, nextId, wrapped, proc, patches, made, orders, editor, finder, blind, scen, left>>

(* The switch itself: the record and what the value it freezes comes from. *)
Switched(r, want, shown) == [r EXCEPT !.on = want, !.shown = shown, !.frozen = IF want THEN shown ELSE 0]

(* A script, or what is left of one, goes to the assembler; a value is read
   again before it is frozen, and without one nothing is frozen. *)
SwitchRun ==
  /\ Running("switch", "run")
  /\ LET scripted == Record.kind = "script" \/ Pending
         shown == IF proc = 0 THEN Record.shown ELSE IF proc \in blind THEN 0 ELSE proc
     IN CASE scripted /\ proc = 0 ->
               Continue([Top EXCEPT !.at = "told", !.op = "box"]) /\ UNCHANGED <<rows, finder>>
          [] scripted /\ proc # 0 /\ ~Allowed(IF Top.want THEN "Execute" ELSE "Cleanup") ->
               Return("fail") /\ UNCHANGED <<rows, finder>>
          [] scripted /\ proc # 0 /\ Allowed(IF Top.want THEN "Execute" ELSE "Cleanup") ->
               Continue([Top EXCEPT !.at = "lua", !.h = proc]) /\ finder' = 0 /\ UNCHANGED rows
          [] ~scripted /\ Record.kind = "value" /\ Top.want /\ shown = 0 ->
               /\ Continue([Top EXCEPT !.at = "told", !.op = "box"])
               /\ SetRow([Record EXCEPT !.shown = 0]) /\ UNCHANGED finder
          [] ~scripted /\ Record.kind = "value" /\ Top.want /\ shown # 0 ->
               Continue([Top EXCEPT !.at = "told"]) /\ SetRow(Switched(Record, TRUE, shown)) /\ UNCHANGED finder
          [] OTHER ->
               /\ Continue([Top EXCEPT !.at = "told"])
               /\ SetRow(Switched(Record, Top.want, Record.shown)) /\ UNCHANGED finder
  /\ UNCHANGED <<nextId, wrapped, proc, patches, made, orders, editor, blind, scen, left>>

(* What the assembler can answer: [ok, undo], with a fresh patch n.  Enabling
   may change nothing worth undoing, or fail and leave a part behind;
   disabling may fail and keep what it could not undo. *)
Answers(want, undo, n) ==
  IF want THEN {[ok |-> TRUE, undo |-> n]}
               \cup (IF left.fail > 0 THEN {[ok |-> TRUE, undo |-> 0], [ok |-> FALSE, undo |-> 0], [ok |-> FALSE, undo |-> n]} ELSE {})
  ELSE {[ok |-> TRUE, undo |-> 0]} \cup (IF left.fail > 0 THEN {[ok |-> FALSE, undo |-> undo]} ELSE {})

(* The patches after the assembler answered. *)
Patched(want, undo, a, h) ==
  IF want THEN IF a.undo = 0 THEN patches ELSE patches \cup {[n |-> a.undo, on |-> h]}
  ELSE IF a.ok THEN {p \in patches : p.n # undo} ELSE patches

Spent(want, a) == IF a.ok /\ (a.undo # 0 \/ ~want) THEN left ELSE [left EXCEPT !.fail = @ - 1]

(* execute or disable ended: its undo is the record's from now on, and a
   failure that leaves some keeps the record on. *)
SwitchLua ==
  /\ Running("switch", "lua")
  /\ IF Index = 0
     THEN /\ Return("fail")
          /\ UNCHANGED <<rows, patches, made, orders, left>>
     ELSE \E a \in Answers(Top.want, Record.undo, made + 1) :
            LET stamped == [Record EXCEPT
                              !.undo = a.undo,
                              !.order = IF Top.want /\ a.undo # 0 THEN orders + 1
                                        ELSE IF a.undo = 0 THEN 0 ELSE @]
            IN /\ patches' = Patched(Top.want, Record.undo, a, Top.h)
               /\ made' = IF Top.want /\ a.undo # 0 THEN made + 1 ELSE made
               /\ orders' = IF Top.want /\ a.undo # 0 THEN orders + 1 ELSE orders
               /\ left' = Spent(Top.want, a)
               /\ SetRow(IF a.ok THEN Switched(stamped, Top.want, Record.shown)
                         ELSE IF a.undo # 0 THEN [stamped EXCEPT !.on = TRUE] ELSE stamped)
               /\ Continue([Top EXCEPT !.at = IF a.ok THEN "told" ELSE "report"])
  /\ UNCHANGED <<nextId, wrapped, proc, editor, finder, blind, scen>>

(* The box that reported a failure closes; the callback returns. *)
SwitchLeave ==
  /\ stack # <<>> /\ Top.at \in {"report", "told"}
  /\ \/ Top.op = "switch" /\ Return(IF Top.at = "told" THEN "ok" ELSE "fail")
     \/ Top.op = "box" /\ Return("fail")
  /\ UNCHANGED <<rows, nextId, wrapped, proc, patches, made, orders, editor, finder, blind, scen, left>>

-----------------------------------------------------------------------------
(* Operations on several records *)

(* deactivateAll, setAllActive(true): the ids one by one; the first refusal
   ends a deactivation, and none ends an activation. *)
SweepAll ==
  /\ \/ Running("all", "enter") \/ Running("every", "enter")
  /\ IF Top.op = "all" /\ (\E f \in {stack[i] : i \in 1 .. Len(stack) - 1} :
                              \/ f.op \in {"all", "drop", "load", "text"}
                              \/ f.op = "switch" /\ f.at \in {"lua", "report"})
     THEN Return("fail")
     ELSE Continue([Top EXCEPT !.at = "each",
                               !.todo = IF Top.op = "all" THEN CleanupOrder(rows)
                                        ELSE [i \in DOMAIN rows |-> rows[i].id]])
  /\ UNCHANGED <<rows, nextId, wrapped, proc, patches, made, orders, editor, finder, blind, scen, left>>

SweepEach ==
  /\ \/ Running("all", "each") \/ Running("every", "each")
  /\ LET all == Top.op = "all"
         i == RowOfId(rows, Head(Top.todo))
         next == [Top EXCEPT !.todo = Tail(@)]
     IN IF all /\ ret = "fail" THEN Return("fail")
        ELSE IF Top.todo = <<>> THEN Return("ok")
        ELSE IF i = 0 \/ (~all /\ rows[i].kind = "group") THEN Continue(next)
        ELSE ContinueAfter(next, Switch(Head(Top.todo), ~all))
  /\ UNCHANGED <<rows, nextId, wrapped, proc, patches, made, orders, editor, finder, blind, scen, left>>

(* setData on the check box: a group's children first when it goes off (the
   newest patch first), after it when it goes on. *)
Children(i) == [k \in 1 .. LastUnder(rows, i) - i |-> rows[i + k].id]

ChildrenNewestFirst(i) ==
  LET ids == {rows[j].id : j \in i + 1 .. LastUnder(rows, i)}
  IN SelectSeq(CleanupOrder(rows), LAMBDA id : id \in ids)

TickEnter ==
  /\ Running("tick", "enter")
  /\ IF Index = 0 THEN Return("ok")
     ELSE LET kids == IF Record.kind # "group" THEN <<>>
                      ELSE IF Top.want THEN Children(Index) ELSE ChildrenNewestFirst(Index)
          IN Continue([Top EXCEPT !.at = IF Top.want THEN "self" ELSE "off", !.todo = kids])
  /\ UNCHANGED <<rows, nextId, wrapped, proc, patches, made, orders, editor, finder, blind, scen, left>>

TickOff ==
  /\ Running("tick", "off")
  /\ IF ret = "fail" THEN Return("fail")
     ELSE IF Top.todo = <<>> THEN Continue([Top EXCEPT !.at = "self"])
     ELSE IF RowOfId(rows, Head(Top.todo)) = 0 THEN Continue([Top EXCEPT !.todo = Tail(@)])
     ELSE ContinueAfter([Top EXCEPT !.todo = Tail(@)], Switch(Head(Top.todo), FALSE))
  /\ UNCHANGED <<rows, nextId, wrapped, proc, patches, made, orders, editor, finder, blind, scen, left>>

TickSelf ==
  /\ Running("tick", "self")
  /\ IF Index = 0 THEN Return("ok")
     ELSE ContinueAfter([Top EXCEPT !.at = "on"], Switch(Top.id, Top.want))
  /\ UNCHANGED <<rows, nextId, wrapped, proc, patches, made, orders, editor, finder, blind, scen, left>>

TickOn ==
  /\ \/ Running("tick", "on") \/ Running("tick", "rest")
  /\ IF Top.at = "on" /\ ret = "fail" THEN Return("fail")
     ELSE IF Top.todo = <<>> THEN Return("ok")
     ELSE IF RowOfId(rows, Head(Top.todo)) = 0 THEN Continue([Top EXCEPT !.at = "rest", !.todo = Tail(@)])
     ELSE ContinueAfter([Top EXCEPT !.at = "rest", !.todo = Tail(@)], Switch(Head(Top.todo), Top.want))
  /\ UNCHANGED <<rows, nextId, wrapped, proc, patches, made, orders, editor, finder, blind, scen, left>>

-----------------------------------------------------------------------------
(* Operations that change which records there are *)

(* The flags that refuse a change of the list's rows, as a frame on top of
   the others sees them. *)
Below == {stack[i] : i \in 1 .. Len(stack) - 1}
RowsHeld == \/ \E f \in Below : f.op \in {"all", "drop", "load", "text"}
            \/ \E f \in Below : f.op = "switch" /\ f.at \in {"lua", "report"}

(* removeEntries: the selected rows (by id here) with their subtrees are
   switched off, newest patch first, and then erased. *)
DropEnter ==
  /\ Running("drop", "enter")
  /\ IF RowsHeld \/ Retiring THEN Return("fail")
     ELSE LET picked == {i \in DOMAIN rows : rows[i].id \in {Top.new[k] : k \in DOMAIN Top.new}}
              gone == WithSubtrees(rows, picked)
              newer(i, j) == rows[i].order > rows[j].order \/ (rows[i].order = rows[j].order /\ i < j)
          IN Continue([Top EXCEPT !.at = "each", !.todo = SetToSortSeq(gone, newer), !.new = SetToSortSeq(gone, <)])
  /\ UNCHANGED <<rows, nextId, wrapped, proc, patches, made, orders, editor, finder, blind, scen, left>>

DropEach ==
  /\ Running("drop", "each")
  /\ IF ret = "fail" THEN Return("fail") /\ UNCHANGED rows
     ELSE IF Top.todo # <<>>
     THEN /\ ContinueAfter([Top EXCEPT !.todo = Tail(@)], Switch(rows[Head(Top.todo)].id, FALSE))
          /\ UNCHANGED rows
     ELSE /\ Return("ok")
          /\ LET gone == {Top.new[k] : k \in DOMAIN Top.new}
                 kept == SetToSortSeq(DOMAIN rows \ gone, <)
             IN rows' = [k \in DOMAIN kept |-> rows[kept[k]]]
  /\ UNCHANGED <<nextId, wrapped, proc, patches, made, orders, editor, finder, blind, scen, left>>

(* fromJson: a loaded table replaces the records (`want`); a paste keeps them
   and adds copies without ids, switched off.  A kept record keeps its undo. *)
Incoming ==
  LET arr == IF Top.want THEN Top.new
             ELSE rows \o [i \in DOMAIN Top.new |-> [Top.new[i] EXCEPT !.id = 0]]
      ids == ImportIds(arr)
  IN ClampIndents([i \in DOMAIN arr |-> [arr[i] EXCEPT !.id = ids[i]]])

LoadEnter ==
  /\ Running("load", "enter")
  /\ IF RowsHeld \/ Retiring THEN Return("fail")
     ELSE LET in == Incoming
              kept == IF Top.want THEN {} ELSE IdsOf(rows)
          IN Continue([Top EXCEPT !.at = "each", !.new = in,
                                  !.todo = SelectSeq(CleanupOrder(rows), LAMBDA id : id \notin kept)])
  /\ UNCHANGED <<rows, nextId, wrapped, proc, patches, made, orders, editor, finder, blind, scen, left>>

LoadEach ==
  /\ Running("load", "each")
  /\ IF ret = "fail" THEN Return("fail") /\ UNCHANGED <<rows, nextId, wrapped>>
     ELSE IF Top.todo # <<>>
     THEN /\ ContinueAfter([Top EXCEPT !.todo = Tail(@)], Switch(Head(Top.todo), FALSE))
          /\ UNCHANGED <<rows, nextId, wrapped>>
     ELSE /\ Return("ok")
          /\ rows' = Top.new
          /\ nextId' = NextAfter(IdsOf(Top.new))
          /\ wrapped' = (MaxId \in IdsOf(Top.new))
  /\ UNCHANGED <<proc, patches, made, orders, editor, finder, blind, scen, left>>

(* updateScriptEntryById: the old script is undone before its text changes.
   endFreezeForFormatChange: a freeze ends with the format it was taken in. *)
TextEnter ==
  /\ \/ Running("text", "enter") \/ Running("format", "enter")
  /\ LET text == Top.op = "text"
         freeze == Index # 0 /\ Record.on /\ Record.kind = "value"
     IN IF Index = 0 \/ (text /\ (RowsHeld \/ Retiring)) THEN Return("fail")
        ELSE IF text \/ freeze THEN ContinueAfter([Top EXCEPT !.at = "set"], Switch(Top.id, FALSE))
        ELSE Continue([Top EXCEPT !.at = "set"])
  /\ UNCHANGED <<rows, nextId, wrapped, proc, patches, made, orders, editor, finder, blind, scen, left>>

TextSet ==
  /\ \/ Running("text", "set") \/ Running("format", "set")
  /\ IF ret = "fail" \/ Index = 0 THEN Return("fail") /\ UNCHANGED rows
     ELSE /\ Return("ok")
          /\ SetRow(IF Top.op = "text" THEN [Record EXCEPT !.text = 3 - @] ELSE [Record EXCEPT !.shown = 0])
  /\ UNCHANGED <<nextId, wrapped, proc, patches, made, orders, editor, finder, blind, scen, left>>

-----------------------------------------------------------------------------
(* What starts them *)

(* A check box (the user) or a toggle hotkey; Lua's Active property goes to
   the record alone. *)
Toggle ==
  /\ On("toggle") /\ CanNest
  /\ \E i \in DOMAIN rows :
       stack' = Call([Frame("tick") EXCEPT !.id = rows[i].id, !.want = ~rows[i].on])
  /\ Spend /\ ret' = ""
  /\ UNCHANGED <<rows, nextId, wrapped, proc, patches, made, orders, editor, finder, blind, scen>>

LuaSetActive ==
  /\ On("lua") /\ CanNest
  /\ \E i \in DOMAIN rows, want \in BOOLEAN :
       stack' = Call([Frame("switch") EXCEPT !.id = rows[i].id, !.want = want])
  /\ Spend /\ ret' = ""
  /\ UNCHANGED <<rows, nextId, wrapped, proc, patches, made, orders, editor, finder, blind, scen>>

(* Enable all, Disable all. *)
SetAllActive ==
  /\ On("all") /\ CanUser
  /\ \E op \in {"all", "every"} : stack' = Call(Frame(op))
  /\ Spend /\ ret' = ""
  /\ UNCHANGED <<rows, nextId, wrapped, proc, patches, made, orders, editor, finder, blind, scen>>

(* removeEntries by the user, deleteById from Lua. *)
RemoveRecords ==
  /\ On("remove") /\ CanNest
  /\ \E i \in DOMAIN rows : stack' = Call([Frame("drop") EXCEPT !.new = <<rows[i].id>>])
  /\ Spend /\ ret' = ""
  /\ UNCHANGED <<rows, nextId, wrapped, proc, patches, made, orders, editor, finder, blind, scen>>

(* A table is loaded (the loader switches every record off first), or records
   are pasted. *)
LoadTable ==
  /\ On("load") /\ CanUser
  /\ \E t \in scen.tables : stack' = Call([Frame("load") EXCEPT !.new = t, !.want = TRUE])
  /\ Spend /\ ret' = ""
  /\ UNCHANGED <<rows, nextId, wrapped, proc, patches, made, orders, editor, finder, blind, scen>>

Paste ==
  /\ On("paste") /\ CanUser /\ rows # <<>> /\ HasFreeId(rows)
  /\ \E i \in DOMAIN rows :
       stack' = Call([Frame("load") EXCEPT !.new = <<[Row(0, rows[i].kind, rows[i].indent) EXCEPT !.shown = rows[i].shown]>>])
  /\ Spend /\ ret' = ""
  /\ UNCHANGED <<rows, nextId, wrapped, proc, patches, made, orders, editor, finder, blind, scen>>

(* Lua's Script property and the editor's Save to Table; a change of type,
   codec or byte order. *)
ChangeText ==
  /\ On("text") /\ CanNest
  /\ \E i \in DOMAIN rows, op \in {"text", "format"} :
       /\ rows[i].kind = IF op = "text" THEN "script" ELSE "value"
       /\ stack' = Call([Frame(op) EXCEPT !.id = rows[i].id])
  /\ Spend /\ ret' = ""
  /\ UNCHANGED <<rows, nextId, wrapped, proc, patches, made, orders, editor, finder, blind, scen>>

(* disableAllWithoutExecute: the flags only; what scripts changed stays, and
   so does the undo. *)
DisableWithoutExecute ==
  /\ On("flags") /\ CanNest /\ ~ScriptBusy /\ ~MutationBusy
  /\ rows' = [i \in DOMAIN rows |-> IF rows[i].kind = "group" THEN rows[i]
                                    ELSE [rows[i] EXCEPT !.on = FALSE, !.frozen = 0]]
  /\ Spend
  /\ UNCHANGED <<nextId, wrapped, proc, stack, ret, patches, made, orders, editor, finder, blind, scen>>

(* addEntry, addScriptEntry, addGroup: at the end, also while others run. *)
AddRecord ==
  /\ On("add") /\ CanNest /\ HasFreeId(rows) /\ Len(rows) < MaxId
  /\ LET a == AllocId(rows, nextId, wrapped)
     IN /\ \E kind \in scen.kinds : rows' = Append(rows, Row(a.id, kind, 0))
        /\ nextId' = a.next
        /\ wrapped' = a.wrapped
  /\ Spend
  /\ UNCHANGED <<proc, stack, ret, patches, made, orders, editor, finder, blind, scen>>

(* Move Up and Move Down, a drop between rows or onto a group, indent and
   outdent, and a new group around the selected rows.  All are refused while
   a script or a change of the rows is under way. *)
MoveRow ==
  /\ On("arrange") /\ CanUser /\ ~ScriptBusy /\ ~MutationBusy
  /\ \E i \in DOMAIN rows, up \in BOOLEAN : rows' = MoveEntry(rows, i, up)
  /\ Spend
  /\ UNCHANGED <<nextId, wrapped, proc, stack, ret, patches, made, orders, editor, finder, blind, scen>>

(* dropMimeData: between two rows or in the empty area after the last (before
   = Len(rows) + 1) the block keeps its indent; onto a group it becomes the
   group's first child, onto any other row it goes before that row. *)
DropBetween(i, before) == rows' = MoveBlock(rows, i, before, -1)
DropOnto(i, j) ==
  IF rows[j].kind = "group" /\ i # j
  THEN rows' = MoveBlock(rows, i, j + 1, rows[j].indent + 1)
  ELSE rows' = MoveBlock(rows, i, j, -1)

DragRow(i) ==
  /\ On("arrange") /\ CanUser /\ ~ScriptBusy /\ ~MutationBusy
  /\ \/ \E before \in 1 .. Len(rows) + 1 : DropBetween(i, before)
     \/ \E j \in DOMAIN rows : DropOnto(i, j)
  /\ Spend
  /\ UNCHANGED <<nextId, wrapped, proc, stack, ret, patches, made, orders, editor, finder, blind, scen>>

IndentRow ==
  /\ On("arrange") /\ CanUser /\ ~ScriptBusy /\ ~MutationBusy
  /\ \E i \in DOMAIN rows, delta \in {-1, 1} : rows' = ShiftIndent(rows, i, delta)
  /\ Spend
  /\ UNCHANGED <<nextId, wrapped, proc, stack, ret, patches, made, orders, editor, finder, blind, scen>>

GroupSelected ==
  /\ On("arrange") /\ CanUser /\ ~ScriptBusy /\ ~MutationBusy /\ HasFreeId(rows)
  /\ LET a == AllocId(rows, nextId, wrapped)
     IN /\ \E sel \in SUBSET DOMAIN rows \ {{}} : rows' = GroupRows(rows, sel, Row(a.id, "group", 0))
        /\ nextId' = a.next
        /\ wrapped' = a.wrapped
  /\ Spend
  /\ UNCHANGED <<proc, stack, ret, patches, made, orders, editor, finder, blind, scen>>

(* A value typed in the list or set by a hotkey is written to the target and
   becomes the frozen value of a frozen record. *)
SetValue ==
  /\ On("value") /\ CanNest /\ proc # 0 /\ proc \notin blind
  /\ \E i \in DOMAIN rows :
       /\ rows[i].kind = "value"
       /\ rows' = [rows EXCEPT ![i].shown = proc, ![i].frozen = IF rows[i].on THEN proc ELSE 0]
  /\ Spend
  /\ UNCHANGED <<nextId, wrapped, proc, stack, ret, patches, made, orders, editor, finder, blind, scen>>

-----------------------------------------------------------------------------
(* The script editor *)

NoEditor == [open |-> FALSE, h |-> 0, undo |-> 0, order |-> 0]

(* onExecute and cleanupInjection, from its buttons, and as the window closes
   (`since` 1: it closes if the cleanup succeeds). *)
EditorUse ==
  /\ On("editor") /\ CanUser /\ editor.open
  /\ \E want, closing \in BOOLEAN :
       /\ want => ~closing
       /\ stack' = Call([Frame("editor") EXCEPT !.want = want, !.since = IF closing THEN 1 ELSE 0])
  /\ Spend /\ ret' = ""
  /\ UNCHANGED <<rows, nextId, wrapped, proc, patches, made, orders, editor, finder, blind, scen>>

EditorEnter ==
  /\ Running("editor", "enter")
  /\ LET busy == \E f \in Below : f.op = "editor"
         closed == Top.since = 1
     IN CASE busy \/ (Top.want /\ editor.order # 0) -> Return("fail") /\ UNCHANGED <<editor, finder>>
          [] ~busy /\ ~Top.want /\ editor.order = 0 ->
               Return("ok") /\ editor' = (IF closed THEN NoEditor ELSE editor) /\ UNCHANGED finder
          [] ~busy /\ (Top.want <=> editor.order = 0) /\ (editor.h = 0 \/ ~Allowed(IF Top.want THEN "Execute" ELSE "Cleanup")) ->
               Return("fail") /\ UNCHANGED <<editor, finder>>
          [] OTHER -> Continue([Top EXCEPT !.at = "lua", !.h = editor.h]) /\ finder' = 0 /\ UNCHANGED editor
  /\ UNCHANGED <<rows, nextId, wrapped, proc, patches, made, orders, blind, scen, left>>

(* The editor keeps what its script changed until it is undone. *)
EditorLua ==
  /\ Running("editor", "lua")
  /\ \E a \in Answers(Top.want, editor.undo, made + 1) :
       /\ patches' = Patched(Top.want, editor.undo, a, Top.h)
       /\ made' = IF Top.want /\ a.undo # 0 THEN made + 1 ELSE made
       /\ orders' = IF Top.want /\ (a.ok \/ a.undo # 0) THEN orders + 1 ELSE orders
       /\ left' = Spent(Top.want, a)
       /\ editor' = IF Top.want
                    THEN IF a.ok \/ a.undo # 0 THEN [editor EXCEPT !.undo = a.undo, !.order = orders + 1] ELSE editor
                    ELSE IF ~a.ok THEN [editor EXCEPT !.undo = a.undo]
                    ELSE IF Top.since = 1 THEN NoEditor ELSE [editor EXCEPT !.undo = 0, !.order = 0]
       /\ Return(IF a.ok THEN "ok" ELSE "fail")
  /\ UNCHANGED <<rows, nextId, wrapped, proc, finder, blind, scen>>

-----------------------------------------------------------------------------
ListNext ==
  \/ SwitchEnter \/ SwitchAgain \/ SwitchRun \/ SwitchLua \/ SwitchLeave
  \/ SweepAll \/ SweepEach \/ TickEnter \/ TickOff \/ TickSelf \/ TickOn
  \/ DropEnter \/ DropEach \/ LoadEnter \/ LoadEach \/ TextEnter \/ TextSet
  \/ Toggle \/ LuaSetActive \/ SetAllActive \/ RemoveRecords \/ LoadTable \/ Paste
  \/ ChangeText \/ DisableWithoutExecute \/ AddRecord \/ SetValue
  \/ MoveRow \/ (\E i \in DOMAIN rows : DragRow(i)) \/ IndentRow \/ GroupSelected
  \/ EditorUse \/ EditorEnter \/ EditorLua
=============================================================================
