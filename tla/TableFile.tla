----------------------------- MODULE TableFile -----------------------------
(***************************************************************************)
(* A cheat table and its file: the load of any of the three formats, the   *)
(* edits of its hotkeys, and a save, call by call, that may fail at each   *)
(* call, die between two of them, or lose its machine's power.             *)
(*                                                                         *)
(* tab.path is what a reader of the file sees, tab.disk the contents the   *)
(* path may turn out to hold after a power loss.                           *)
(***************************************************************************)
EXTENDS TableText, Bags

CONSTANT Files      \* what the path may hold at first, with its surroundings

VARIABLE tab

-----------------------------------------------------------------------------
(* Contents *)

File(fmt, pass, body) == [fmt |-> fmt, pass |-> pass, body |-> body]
NoFile == File("none", "", <<>>)
Torn == File("torn", "", <<>>)
Whole(f) == f.fmt # "torn"

NoTable == [head |-> [tag \in {"Comment", "LuaScript"} |-> ""], notes |-> <<>>, recs |-> <<>>]

(* What the path is: whether a rename would change the file's identity, we may
   write and read it, and run as root; how many calls may fail, how many edits
   are made, and whether the process or the machine stops. *)
Surroundings(shared, writable, readable, root) == [shared |-> shared, writable |-> writable, readable |-> readable, root |-> root]

NoSave == [pc |-> "idle", new |-> NoFile, old |-> NoFile, from |-> {NoFile}, temp |-> NoFile, flushed |-> FALSE, way |-> "rename", result |-> "none", fails |-> 0]

Unused == [on |-> FALSE, file |-> NoFile, disk |-> {}, open |-> FALSE, mem |-> NoTable, want |-> <<>>, clash |-> FALSE,
           env |-> Surroundings(FALSE, TRUE, TRUE, FALSE), save |-> NoSave, stray |-> FALSE, cut |-> FALSE,
           left |-> [fails |-> 0, edits |-> 0, saves |-> 0, stops |-> 0]]

FileInit(used) ==
  \E f \in IF used THEN Files ELSE {[file |-> NoFile, env |-> Unused.env, left |-> Unused.left]} :
    tab = [Unused EXCEPT !.on = used, !.file = f.file, !.disk = {f.file}, !.env = f.env, !.left = f.left,
                         !.save.old = f.file, !.save.from = {f.file}]

Idle == tab.on /\ tab.save.pc = "idle"

-----------------------------------------------------------------------------
(* Loads *)

(* The hotkeys of each record of a file, each as often as it is there. *)
BagOf(hs) == [h \in Range(hs) |-> Cardinality({i \in DOMAIN hs : hs[i] = h})]
HotkeysOf(file) ==
  IF file.fmt = "xml" THEN [i \in DOMAIN file.body.tree |-> BagOf(file.body.tree[i].hk)]
  ELSE [i \in DOMAIN file.body.recs |-> BagOf(WriteHotkeys(file.body.recs[i].hk))]

Read(file) == IF file.fmt = "xml" THEN ReadXml(file.body) ELSE ReadJson(file.body)

(* loadAuto, and loadProtected with the password the user gives.  A file cut
   short is refused, unless it is an XML one: that is a table without records. *)
Load ==
  /\ Idle /\ ~tab.open
  /\ \/ /\ tab.file.fmt \in {"xml", "json", "protected"}
        /\ tab.file.fmt = "xml" => Accepts(tab.file.body)
        /\ tab' = [tab EXCEPT !.open = TRUE, !.mem = Read(tab.file), !.want = HotkeysOf(tab.file), !.clash = FALSE, !.save.result = "none"]
     \/ /\ tab.file = Torn
        /\ tab' = [tab EXCEPT !.open = TRUE, !.mem = NoTable, !.want = <<>>, !.clash = FALSE, !.save.result = "none"]

(* Another table instead. *)
Close == Idle /\ tab.open /\ tab' = [tab EXCEPT !.open = FALSE, !.mem = NoTable, !.want = <<>>, !.save.result = "none"]

-----------------------------------------------------------------------------
(* Edits of hotkeys *)

(* Another hotkey of the slot, kept beside the one that fills it, has the key. *)
Shares(hk, s, key) ==
  \E i \in DOMAIN hk.kept : LET k == hk.kept[i] IN ~k.bound /\ Usable(k.h) /\ SlotOf(k.h.action) = s /\ Key(k.h.vk) = key

Edited(i, hk, want, clash) ==
  /\ Idle /\ tab.open /\ tab.left.edits > 0
  /\ tab' = [tab EXCEPT !.mem.recs[i].hk = hk, !.want[i] = want, !.clash = @ \/ clash, !.left.edits = @ - 1, !.save.result = "none"]

(* The hotkey a slot stands for, as the file would have it. *)
Meaning(hk, s) ==
  IF hk.keys[s] = "" THEN {}
  ELSE {Hotkey(IF s = 0 THEN 0 ELSE Action[s], Vk(hk.keys[s]), CASE s = 0 -> "" [] s = 1 -> hk.value [] OTHER -> hk.step)}

(* The one it was filled from, where the slot is as it was loaded. *)
Filler(hk, s) ==
  LET own == {k \in Range(hk.kept) : /\ k.bound /\ SlotOf(k.h.action) = s /\ Key(k.h.vk) = hk.keys[s]
                                     /\ s = 1 => k.h.value = hk.value
                                     /\ s >= 2 => k.step = hk.step}
  IN IF own # {} THEN {k.h : k \in own} ELSE Meaning(hk, s)

(* The hotkeys as the user wants them: those of the slots that changed are
   replaced, the others stay. *)
Replaced(want, old, new, slots) ==
  (want (-) SetToBag(UNION {Filler(old, s) : s \in slots})) (+) SetToBag(UNION {Filler(new, s) : s \in slots})

(* setHotkeyKeys *)
SetHotkeyKeys(i, key) ==
  LET old == tab.mem.recs[i].hk
      new == [old EXCEPT !.keys[0] = key]
  IN key # old.keys[0] /\ Edited(i, new, Replaced(tab.want[i], old, new, {0}), Shares(old, 0, key))

StepGiven(step) == IF step = "" THEN "1" ELSE step

(* setValueHotkeys, with one of the dialog's fields changed. *)
SetValueHotkeys(i, keys, value, step) ==
  LET old == tab.mem.recs[i].hk
      new == [old EXCEPT !.keys = [keys EXCEPT ![0] = old.keys[0]], !.value = value, !.step = StepGiven(step)]
      slots == {s \in 1 .. 3 : \/ new.keys[s] # old.keys[s]
                               \/ s = 1 /\ new.value # old.value
                               \/ s >= 2 /\ new.step # old.step}
  IN Edited(i, new, Replaced(tab.want[i], old, new, slots),
            \E s \in slots : Shares(old, s, new.keys[s]))

EditHotkeys ==
  \E i \in DOMAIN tab.mem.recs :
    LET hk == tab.mem.recs[i].hk
    IN \/ \E key \in {"", "A", "B", "C"} : SetHotkeyKeys(i, key)
       \/ \E s \in 1 .. 3, key \in {"", "A", "C"} : SetValueHotkeys(i, [hk.keys EXCEPT ![s] = key], hk.value, hk.step)
       \/ \E value \in {"x", "y"} : SetValueHotkeys(i, hk.keys, value, hk.step)
       \/ \E step \in {"", "2"} : SetValueHotkeys(i, hk.keys, hk.value, step)

-----------------------------------------------------------------------------
(* A save *)

At(pc) == tab.on /\ tab.save.pc = pc
MayFail == tab.left.fails > 0

(* The call fails, and the save goes on at pc, or ends. *)
Failing(t, pc) == [t EXCEPT !.left.fails = @ - 1, !.save.fails = @ + 1, !.save.pc = pc]
Ended(t, result) == [t EXCEPT !.save.pc = "idle", !.save.result = result]
Refused(t) == Ended(Failing(t, "idle"), "failed")
InPlace(t) == [t EXCEPT !.save.pc = "rewrite", !.save.way = "place"]
Unlinked(t) == [t EXCEPT !.save.temp = NoFile]

(* save, saveJson and saveProtected, then the start of writeFileAtomically:
   a file we may not write is left, one whose identity matters is rewritten. *)
Save(fmt) ==
  /\ Idle /\ tab.open /\ tab.left.saves > 0
  /\ LET body == IF fmt = "xml" THEN WriteXml(tab.mem) ELSE WriteJson(tab.mem)
         t == [tab EXCEPT !.left.saves = @ - 1,
                          !.save = [NoSave EXCEPT !.pc = "temp", !.new = File(fmt, IF fmt = "protected" THEN "p" ELSE "", body), !.old = tab.file, !.from = tab.disk]]
     IN tab' = IF tab.file # NoFile /\ ~tab.env.writable THEN Ended(t, "refused")
               ELSE IF tab.file # NoFile /\ tab.env.shared THEN InPlace(t) ELSE t

(* open of a new name: a directory that takes no file still lets us rewrite. *)
OpenTemp ==
  /\ At("temp")
  /\ \/ tab' = [tab EXCEPT !.save.temp = Torn, !.save.pc = IF tab.save.old = NoFile THEN "fill" ELSE "own"]
     \/ MayFail /\ tab.save.old # NoFile /\ tab' = InPlace(Failing(tab, "temp"))
     \/ MayFail /\ tab' = Refused(tab)

(* fchown and fchmod *)
GiveOwner ==
  /\ At("own")
  /\ \/ tab' = [tab EXCEPT !.save.pc = "fill"]
     \/ MayFail /\ ~tab.env.root /\ tab' = InPlace(Unlinked(Failing(tab, "own")))
     \/ MayFail /\ tab' = Unlinked(Refused(tab))

(* writeAll *)
Fill ==
  /\ At("fill")
  /\ \/ tab' = [tab EXCEPT !.save.temp = tab.save.new, !.save.pc = "flush"]
     \/ MayFail /\ tab' = Unlinked(Refused(tab))

(* Mutant: the temporary file is renamed before it is on the disk. *)
FlushLater == At("flush") /\ tab' = [tab EXCEPT !.save.pc = "rename"]

(* fsync and close *)
Flush ==
  /\ At("flush")
  /\ \/ tab' = [tab EXCEPT !.save.flushed = TRUE, !.save.pc = "rename"]
     \/ MayFail /\ tab' = Unlinked(Refused(tab))

(* rename: readers see the new file; the disk may keep the old name. *)
Rename ==
  /\ At("rename")
  /\ \/ tab' = [Unlinked(tab) EXCEPT !.file = tab.save.new, !.disk = @ \cup {IF tab.save.flushed THEN tab.save.new ELSE Torn}, !.save.pc = "durable"]
     \/ MayFail /\ tab.save.old # NoFile /\ tab' = InPlace(Unlinked(Failing(tab, "rename")))
     \/ MayFail /\ tab' = Unlinked(Refused(tab))

(* The directory's fsync; its failure is not told. *)
MakeDurable ==
  /\ At("durable")
  /\ \/ tab' = Ended([tab EXCEPT !.disk = {tab.file}], "saved")
     \/ MayFail /\ tab' = Ended(Failing(tab, "durable"), "saved")

(* writeFileInPlace: the space first, then the bytes, then the length, then
   the disk. *)
Reserve ==
  /\ At("rewrite")
  /\ \/ tab' = [tab EXCEPT !.save.pc = "bytes"]
     \/ MayFail /\ tab' = Refused(tab)
     \/ /\ MayFail
        /\ tab' = [Refused(tab) EXCEPT !.file = IF tab.env.readable THEN tab.save.old ELSE Torn,
                                       !.disk = @ \cup {Torn}]

Overwrite ==
  /\ At("bytes")
  /\ \/ tab' = [tab EXCEPT !.file = Torn, !.disk = @ \cup {Torn}, !.save.pc = "cut"]
     \/ MayFail /\ tab' = [Failing(tab, "back") EXCEPT !.file = Torn, !.disk = @ \cup {Torn}]

CutToSize ==
  /\ At("cut")
  /\ \/ tab' = [tab EXCEPT !.file = tab.save.new, !.disk = @ \cup {tab.save.new}, !.save.pc = "settle"]
     \/ MayFail /\ tab' = Failing(tab, "back")

(* fsync, and close: when only the close fails the save is told to have failed,
   although the new table is there and stays. *)
Settle ==
  /\ At("settle")
  /\ \/ tab' = Ended([tab EXCEPT !.disk = {tab.file}], "saved")
     \/ MayFail /\ tab' = Failing(tab, "back")
     \/ MayFail /\ tab' = [Refused(tab) EXCEPT !.disk = {tab.file}]

(* The old bytes, where we could read them; what this does is not told. *)
PutBack ==
  /\ At("back")
  /\ \/ ~tab.env.readable /\ tab' = Ended(tab, "failed")
     \/ tab.env.readable /\ tab' = Ended([tab EXCEPT !.file = tab.save.old, !.disk = {tab.save.old}], "failed")
     \/ tab.env.readable /\ MayFail /\ tab' = Ended([Failing(tab, "back") EXCEPT !.file = Torn], "failed")
     \/ tab.env.readable /\ MayFail /\ tab' = Ended([Failing(tab, "back") EXCEPT !.file = tab.save.old], "failed")

(* The process stops, or the machine. *)
Stopped(t) ==
  [t EXCEPT !.open = FALSE, !.mem = NoTable, !.want = <<>>, !.save.pc = "idle", !.save.temp = NoFile, !.save.result = "died",
            !.stray = @ \/ t.save.temp # NoFile, !.cut = @ \/ t.save.way = "place",
            !.left.stops = @ - 1]
ProcessDies == tab.on /\ tab.left.stops > 0 /\ tab' = Stopped(tab)
LosesPower == /\ tab.on /\ tab.left.stops > 0
              /\ \E f \in tab.disk : tab' = [Stopped(tab) EXCEPT !.file = f, !.disk = {f}]

FileNext ==
  \/ Load \/ Close \/ EditHotkeys \/ \E fmt \in {"xml", "json", "protected"} : Save(fmt)
  \/ OpenTemp \/ GiveOwner \/ Fill \/ Flush \/ Rename \/ MakeDurable
  \/ Reserve \/ Overwrite \/ CutToSize \/ Settle \/ PutBack \/ ProcessDies \/ LosesPower

-----------------------------------------------------------------------------
(* Properties *)

(* At every moment, also after the process died or the power was lost, the
   path holds the old table or the new one, whole: only a rewrite in place may
   leave a part, and only when it is stopped, cannot put the old bytes back, or
   fails twice.  A save that is told to have succeeded is what readers find; one
   that is told to have failed, at one call and with a file we may read, left
   the old table, or the new one where it is safe on the disk: only the close
   after a rewrite is told of that late.  No temporary file outlives a save. *)
FileWhole ==
  LET s == tab.save
  IN tab.on =>
       /\ s.way = "rename" => tab.disk \cup {tab.file} \subseteq s.from \cup {s.old, s.new}
       /\ Idle /\ s.fails <= 1 /\ tab.env.readable /\ ~tab.cut /\ (\A f \in s.from : Whole(f)) => Whole(tab.file)
       /\ s.result = "saved" => tab.file = s.new /\ tab.disk \subseteq s.from \cup {s.new}
       /\ s.result = "failed" /\ s.fails <= 1 /\ tab.env.readable =>
            tab.file = s.old \/ (s.way = "place" /\ tab.file = s.new /\ tab.disk = {s.new})
       /\ Idle => s.temp = NoFile

(* What is written has exactly the hotkeys of the file that was loaded, less
   those the user replaced, and every key a slot shows is shown again after a
   load; an edit of one slot never brings back or removes another's. *)
HotkeysKept ==
  tab.open /\ ~tab.clash =>
    \A i \in DOMAIN tab.mem.recs :
      LET hk == tab.mem.recs[i].hk
          back == ReadHotkeys(WriteHotkeys(hk))
      IN /\ BagOf(WriteHotkeys(hk)) = tab.want[i]
         /\ \A s \in Slots : hk.keys[s] # "" => back.keys[s] = Key(Vk(hk.keys[s]))
         /\ hk.keys[1] # "" => back.value = hk.value
         /\ (hk.keys[2] # "" \/ hk.keys[3] # "") /\ (\A s \in {2, 3} : \A h \in Filler(hk, s) : h.value = hk.step) => back.step = hk.step

UniqueIds(recs) == \A i, j \in DOMAIN recs : recs[i].id = recs[j].id => i = j

(* The levels above a record, counted as far as a file goes. *)
Depth(recs, i) ==
  LET RECURSIVE Up(_, _)
      Up(k, n) == IF HolderRow(recs, k) = 0 \/ n >= MaxDepth THEN n ELSE Up(HolderRow(recs, k), n + 1)
  IN Up(i, 0)

(* The meaning of a record's fields is the same. *)
SameFields(f, g) ==
  /\ g.kind = f.kind /\ g.signed = f.signed /\ g.order = f.order /\ g.freeze = f.freeze /\ g.lua = f.lua
  /\ f.kind # "script" => Meant(g) = Meant(f)
  /\ f.kind = "value" => (f.type \notin {"Grouped", "All"} => g.type = f.type) /\ (f.type \in Sized => g.length = f.length)
  /\ f.options # "" => g.options = f.options
  /\ f.kind = "group" /\ f.options = "" => g.cascade = f.cascade

(* The table t, written with its records in this order, is the table back. *)
SameTable(t, order, back) ==
  /\ Len(back.recs) = Len(t.recs) /\ {order[k].row : k \in DOMAIN order} = DOMAIN t.recs
  /\ UniqueIds(back.recs)
  /\ \A k \in DOMAIN back.recs :
       LET i == order[k].row
           r == t.recs[i]
       IN /\ SameFields(r.f, back.recs[k].f)
          /\ UniqueIds(t.recs) => back.recs[k].id = r.id
          /\ UniqueIds(t.recs) /\ Depth(t.recs, i) < MaxDepth /\ HolderRow(t.recs, i) # 0 => back.recs[k].parent = r.parent
  /\ back.head = t.head /\ back.notes = t.notes

(* A save and a load keep the table: every record once, with its fields, its
   place under its group and its id, however the records are nested, in cycles
   or with ids that are taken; the table's own texts; and no table is written
   that a load refuses. *)
RecordsKept ==
  tab.open => /\ Accepts(WriteXml(tab.mem))
              /\ SameTable(tab.mem, WriteTree(tab.mem.recs), ReadXml(WriteXml(tab.mem)))
              /\ ReadJson(WriteJson(tab.mem)) = tab.mem

(* What is saved is what is loaded again. *)
TablesKept == FileWhole /\ HotkeysKept /\ RecordsKept
=============================================================================
