--------------------------- MODULE MCMainWindow ---------------------------
(***************************************************************************)
(* The main window with its debugger and viewers, and the table files it   *)
(* loads and saves, with the scenarios TLC starts from.                    *)
(***************************************************************************)
EXTENDS MemoryViewer, TableFile

FrontendInit == Start /\ FileInit("file" \in scen.events)
FrontendNext ==
  \/ Next /\ UNCHANGED tab
  \/ FileNext /\ UNCHANGED all
FrontendSpec == FrontendInit /\ [][FrontendNext]_<<all, tab>>

(* The undo of every change is owned by the record that made it, ids are
   unique, and what is saved is what is loaded again. *)
RecordsOwned == OwnersKnown /\ TablesKept

Local2 == [pid |-> 2, kind |-> "local"]
Gdb3 == [pid |-> 3, kind |-> "gdb"]
Remote4 == [pid |-> 4, kind |-> "ceserver"]

Budget(user, nested, fail, die, hits) ==
  [user |-> user, nested |-> nested, fail |-> fail, die |-> die, hits |-> hits]

Base == [rows |-> <<Row(1, "script", 0), Row(2, "script", 0)>>, nextId |-> 3, pids |-> {1, 2},
         targets |-> {Local2}, unreadable |-> {}, tables |-> {}, kinds |-> {"value"}, events |-> {},
         left |-> Budget(3, 1, 1, 0, 0)]

(* Scripts switched on and off, deleted and edited inside one another; the
   target is replaced; both together, less deeply nested. *)
Scripts == [Base EXCEPT !.events = {"toggle", "lua", "remove"}, !.left = Budget(3, 2, 1, 0, 0)]
Replacing == [Base EXCEPT !.events = {"toggle", "attach"}, !.left = Budget(3, 2, 1, 0, 0)]
Both == [Base EXCEPT !.events = {"toggle", "lua", "remove", "attach"}, !.left = Budget(3, 1, 1, 0, 0)]

(* Scripts switched off by flag alone; nothing runs inside their switching. *)
Flags == [Base EXCEPT !.events = {"toggle", "lua", "flags", "attach"}, !.left = Budget(4, 0, 1, 0, 0)]

(* The editor's script among the records'. *)
Editing == [Base EXCEPT !.events = {"toggle", "editor", "leave", "all"}, !.left = Budget(5, 0, 1, 0, 0)]

(* Another table over records that could not all be undone; pasted copies. *)
Tables == [Base EXCEPT !.events = {"toggle", "load", "paste", "text", "save"},
                       !.tables = {<<Row(2, "value", 0), Row(2, "group", 1), Row(0, "value", 3)>>},
                       !.left = Budget(3, 1, 1, 0, 0)]

(* Ids at the end of the counter, groups and their children. *)
Trees == [Base EXCEPT !.rows = <<Row(1, "group", 0), Row(2, "value", 1), Row(4, "value", 0)>>, !.nextId = 5,
                      !.events = {"arrange", "add", "remove", "toggle", "load", "sample"}, !.kinds = {"group"},
                      !.tables = {<<Row(5, "value", 0), Row(5, "group", 1)>>},
                      !.left = Budget(3, 0, 0, 0, 0)]

(* Frozen values across an exit, an unreadable target and a pause; and nested
   more deeply, with less else. *)
Freezing == [Base EXCEPT !.rows = <<Row(1, "value", 0), Row(2, "script", 0)>>, !.unreadable = {2},
                         !.events = {"toggle", "value", "attach", "exit", "pause", "text"},
                         !.left = Budget(3, 1, 0, 1, 0)]
Nested == [Freezing EXCEPT !.events = {"toggle", "value", "attach", "exit"}, !.left = Budget(3, 2, 0, 1, 0)]

(* Groups whose children are switched with them, left and deleted. *)
Groups == [Base EXCEPT !.rows = <<Row(1, "group", 0), Row(2, "script", 1), Row(3, "script", 1)>>, !.nextId = 4,
                       !.events = {"toggle", "exit", "leave"}, !.left = Budget(3, 1, 1, 1, 0)]
Deleting == [Groups EXCEPT !.events = {"toggle", "remove"}]

(* A scan, a snapshot and the windows while the target changes. *)
Scanning1 == [Base EXCEPT !.rows = <<Row(1, "value", 0)>>, !.targets = {Local2, Gdb3}, !.pids = {1, 2, 3},
                          !.events = {"scan", "attach", "exit", "pause", "toggle"}, !.left = Budget(4, 1, 0, 1, 0)]

Windows == [Base EXCEPT !.rows = <<Row(1, "script", 0)>>, !.targets = {Local2, Remote4}, !.pids = {1, 2, 4},
                        !.events = {"windows", "editor", "finder", "connect", "toggle", "exit", "close"},
                        !.left = Budget(3, 1, 0, 1, 0)]

(* A hit that comes late: after another choice, under a dialog, during a scan. *)
Waiting == [Base EXCEPT !.rows = <<Row(1, "script", 0)>>, !.targets = {Local2, Gdb3}, !.pids = {1, 2, 3},
                        !.events = {"wait", "attach", "toggle", "scan", "leave", "exit"},
                        !.left = Budget(3, 1, 0, 1, 2)]

(* The debugger's commands: breakpoints of every kind, steps, run-to-cursor,
   refused requests. *)
Debugging == [Base EXCEPT !.rows = <<>>, !.nextId = 1, !.events = {"windows", "debug", "cursor", "rows"},
                          !.left = Budget(5, 0, 1, 0, 2)]
Conditions == [Debugging EXCEPT !.events = {"windows", "debug", "condition", "exec", "step"}, !.left = Budget(5, 0, 1, 0, 2)]
Stops == [Debugging EXCEPT !.events = {"windows", "debug", "step", "signal", "exit", "rows"}, !.left = Budget(5, 0, 0, 1, 2)]

(* Viewers that edit bytes, set breakpoints and comment. *)
Bytes == [Debugging EXCEPT !.events = {"windows", "edit", "gutter", "glyphs", "run"}, !.left = Budget(5, 0, 0, 0, 1)]
Comments == [Debugging EXCEPT !.events = {"windows", "views", "notes", "leave", "exit"}, !.left = Budget(5, 0, 0, 1, 0)]

(* A table that is not loaded because a record's undo failed. *)
Loading == [Base EXCEPT !.rows = <<Row(1, "script", 0)>>, !.events = {"windows", "toggle", "notes"}, !.left = Budget(4, 0, 1, 0, 0)]

(* Table files alone. *)
FileWork == [Base EXCEPT !.rows = <<>>, !.nextId = 1, !.events = {"file"}, !.left = Budget(0, 0, 0, 0, 0)]

Limits(fails, edits, saves, stops) == [fails |-> fails, edits |-> edits, saves |-> saves, stops |-> stops]
Plain == Surroundings(FALSE, TRUE, TRUE, FALSE)
Placed(file, env, limits) == [file |-> file, env |-> env, left |-> limits]
Rec(id, parent, f, hk) == [id |-> id, parent |-> parent, f |-> f, hk |-> hk]
Table(recs) == [NoTable EXCEPT !.recs = recs]
Json(t) == File("json", "", WriteJson(t))
Xml(hks) == File("xml", "", [head |-> <<>>, tree |-> <<[id |-> 0, depth |-> 0, f |-> WriteFields(Fields("value", "Int32")), hk |-> hks]>>])

(* Hotkeys of every kind, in every order. *)
SomeHotkeys == {Hotkey(0, 65, ""), Hotkey(0, 66, ""), Hotkey(1, 65, ""), Hotkey(2, 66, ""), Hotkey(5, 65, "x"), Hotkey(5, 65, "y"),
                Hotkey(6, 65, ""), Hotkey(6, 66, "2"), Hotkey(7, 65, "3"), Hotkey(7, 66, ""), Hotkey(0, 0, ""),
                [Hotkey(0, 65, "") EXCEPT !.on = FALSE]}
HotkeyFiles == {Placed(Xml(hks), Plain, Limits(0, 2, 0, 0)) : hks \in SeqOf(SomeHotkeys, 2)}
               \cup {Placed(Xml(hks), Plain, Limits(0, 1, 0, 0)) : hks \in [1 .. 3 -> {h \in SomeHotkeys : h.action \in {0, 1, 7}}]}

(* Every nesting of three records, with ids that are taken. *)
TreeFiles == {Placed(Json(Table([i \in 1 .. 3 |-> Rec(t[i][1], t[i][2], Fields("value", "Int32"), NoHotkeys)])), Plain, Limits(0, 0, 0, 0))
              : t \in [1 .. 3 -> {0, 1, 3} \X {NoParent, 0, 1, 3}]}

Values == {[Fields("value", type) EXCEPT !.length = length, !.signed = signed, !.order = order, !.freeze = 1]
             : type \in {"Int32", "String", "UnicodeString", "ByteArray", "Grouped"}, length \in {0, 4}, signed \in BOOLEAN, order \in {"auto", "big"}}
Chains == {[Fields(kind, "Int32") EXCEPT !.text = text, !.offsets = offsets, !.address = address]
             : kind \in {"value", "group"}, text \in {NoText, Text("base", <<>>, TRUE), Text("base", <<8>>, TRUE), Text("base", <<8>>, FALSE)},
               offsets \in {<<>>, <<16>>}, address \in {0}}
          \cup {[Fields("value", "Int32") EXCEPT !.address = 4096],
                [Fields("value", "Int32") EXCEPT !.text = Text("unsupported", <<>>, TRUE), !.lost = Text("base", <<Symbol>>, TRUE)],
                [Fields("value", "Int32") EXCEPT !.text = Text("other", <<>>, TRUE), !.lost = Text("base", <<Symbol>>, TRUE)]}
GroupFields == {[Fields("group", "Int32") EXCEPT !.options = options, !.cascade = cascade] : options \in {"", "off", "on"}, cascade \in BOOLEAN}
           \cup {[Fields("script", "Int32") EXCEPT !.lua = "lua"]}
FieldFiles == {Placed(Json(Table(<<Rec(0, NoParent, f, NoHotkeys)>>)), Plain, Limits(0, 0, 1, 0)) : f \in Values \cup Chains \cup GroupFields}

(* Saves with failing calls, and stops between the calls. *)
SavedFile == Json([Table(<<Rec(0, NoParent, Fields("value", "Int32"), NoHotkeys)>>) EXCEPT
                     !.head = [tag \in {"Comment", "LuaScript"} |-> IF tag = "LuaScript" THEN "s" ELSE ""], !.notes = <<"n">>])
SaveFiles == {Placed(SavedFile, Surroundings(shared, writable, readable, root), Limits(2, 0, 2, 1))
                : shared \in BOOLEAN, writable \in BOOLEAN, readable \in BOOLEAN, root \in BOOLEAN}
MCFiles == HotkeyFiles \cup TreeFiles \cup FieldFiles \cup SaveFiles

MCNoteTables == <<<<Note(1, "plain", "x")>>, <<>>>>

SafetyScenarios ==
  {FileWork, Debugging, Conditions, Stops, Bytes, Comments, Loading, Scripts, Replacing, Both, Flags, Editing, Tables, Trees, Freezing,
   Nested, Groups, Deleting, Scanning1, Windows, Waiting}
=============================================================================
