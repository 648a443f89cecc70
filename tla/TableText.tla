----------------------------- MODULE TableText -----------------------------
(***************************************************************************)
(* What a cheat table becomes in its file, and what a file becomes as a    *)
(* table.                                                                  *)
(*                                                                         *)
(* A table is [head, notes, recs]: its own texts, the comments at          *)
(* addresses, its records.  A record is [id, parent, f, hk]: its fields    *)
(* and its hotkeys.  A document is [head, tree]: the leaves outside the    *)
(* records, each with the section it is in, and the records' elements in   *)
(* the order of the file, each with its depth.  An absent element has the  *)
(* text "".                                                                *)
(***************************************************************************)
EXTENDS Integers, Sequences, FiniteSets, SequencesExt

CONSTANTS MaxDepth,    \* kMaxEntryDepth
          TopId        \* the largest id

ASSUME TextConstants == MaxDepth \in Nat \ {0} /\ TopId \in Nat \ {0}

-----------------------------------------------------------------------------
(* Keys: the texts of the window, the virtual-key codes of the file *)

Vk(k) == CASE k = "" -> 0 [] k = "A" -> 65 [] k = "B" -> 66 [] k = "C" -> 67 [] OTHER -> 187
Key(v) == CASE v = 0 -> "" [] v = 65 -> "A" [] v = 66 -> "B" [] v = 67 -> "C" [] OTHER -> "="

(* A hotkey of the file: an action (0 toggles, 1-4 its variants, 5 sets,
   6 increases, 7 decreases), a key, a value, and whether it is enabled. *)
Hotkey(action, vk, value) == [action |-> action, vk |-> vk, value |-> value, on |-> TRUE]

Usable(h) == h.vk # 0 /\ h.on
SlotOf(action) == IF action <= 4 THEN 0 ELSE action - 4
Slots == 0 .. 3
Action == <<5, 6, 7>>

(* The hotkeys of a record: the four slots' keys, the value the second one
   sets, the step of the last two, and the elements kept as they were. *)
NoHotkeys == [keys |-> [s \in Slots |-> ""], value |-> "", step |-> "", kept |-> <<>>]
Kept(h, bound, step) == [h |-> h, bound |-> bound, step |-> step]

FirstWhere(s, P(_)) == LET mine == {i \in DOMAIN s : P(s[i])} IN IF mine = {} THEN 0 ELSE CHOOSE i \in mine : \A j \in mine : i <= j

(* The hotkey that fills a slot: the first enabled one of its kind, a plain
   toggle before its variants. *)
BoundBy(hs, s) ==
  IF s # 0 THEN FirstWhere(hs, LAMBDA h : Usable(h) /\ h.action = Action[s])
  ELSE LET plain == FirstWhere(hs, LAMBDA h : Usable(h) /\ h.action = 0)
       IN IF plain # 0 THEN plain ELSE FirstWhere(hs, LAMBDA h : Usable(h) /\ h.action \in 1 .. 4)

(* The step that increase and decrease share: the first one given. *)
StepOf(hs) ==
  LET two == {i \in {BoundBy(hs, 2), BoundBy(hs, 3)} \ {0} : hs[i].value # ""}
  IN IF two = {} THEN "" ELSE hs[CHOOSE i \in two : \A j \in two : i <= j].value

(* Which elements are kept: those that fill no slot, those that say what the
   slot cannot (another action, another step), and those whose key another
   one of the slot has. *)
Keeps(hs, i) ==
  LET h == hs[i]  s == SlotOf(h.action)
  IN \/ i # BoundBy(hs, s)
     \/ s = 0 /\ h.action # 0
     \/ s >= 2 /\ h.value # StepOf(hs)
     \/ \E j \in DOMAIN hs : j # i /\ Usable(hs[j]) /\ SlotOf(hs[j].action) = s /\ Key(hs[j].vk) = Key(h.vk)

(* The hotkeys a record loads with. *)
ReadHotkeys(hs) ==
  LET by == [s \in Slots |-> BoundBy(hs, s)]
      marks == [i \in DOMAIN hs |-> Kept(hs[i], i = by[SlotOf(hs[i].action)],
                                         IF i = by[SlotOf(hs[i].action)] /\ SlotOf(hs[i].action) >= 2 THEN StepOf(hs) ELSE "")]
      order == SelectSeq([i \in DOMAIN hs |-> i], LAMBDA i : Keeps(hs, i))
  IN [keys |-> [s \in Slots |-> IF by[s] = 0 THEN "" ELSE Key(hs[by[s]].vk)],
      value |-> IF by[1] = 0 THEN "" ELSE hs[by[1]].value,
      step |-> StepOf(hs),
      kept |-> [i \in DOMAIN order |-> marks[order[i]]]]

(* Mutant: a kept element is written whatever its slot holds now. *)
HoldsAlways(hk, k) == TRUE

(* A kept element that filled a slot is written while the slot still says
   what it said. *)
Holds(hk, k) ==
  LET s == SlotOf(k.h.action)
  IN /\ Usable(k.h)
     /\ hk.keys[s] = Key(k.h.vk)
     /\ s = 1 => hk.value = k.h.value
     /\ s >= 2 => hk.step = k.step

(* The hotkeys a record is written with: each slot's own, unless a kept
   element binds its key, then the kept ones. *)
WriteHotkeys(hk) ==
  LET kept == SelectSeq(hk.kept, LAMBDA k : k.bound => Holds(hk, k))
      Binds(s) == \E i \in DOMAIN kept : Usable(kept[i].h) /\ SlotOf(kept[i].h.action) = s /\ Key(kept[i].h.vk) = hk.keys[s]
      own == SelectSeq(<<0, 1, 2, 3>>, LAMBDA s : hk.keys[s] # "" /\ ~Binds(s))
      Own(s) == Hotkey(IF s = 0 THEN 0 ELSE Action[s], Vk(hk.keys[s]),
                       CASE s = 0 -> "" [] s = 1 -> hk.value [] OTHER -> hk.step)
  IN [i \in DOMAIN own |-> Own(own[i])] \o [i \in DOMAIN kept |-> kept[i].h]

-----------------------------------------------------------------------------
(* Addresses: a number, or an expression that may be a chain of offsets *)

(* [base, chain, plain]: a text; plain when it is written as
   buildPointerExpression writes its chain. *)
Text(base, chain, plain) == [base |-> base, chain |-> chain, plain |-> plain]
NoText == Text("", <<>>, TRUE)

(* An offset that is not a number. *)
Symbol == 99

Fields(kind, type) ==
  [kind |-> kind, type |-> type, length |-> 0, text |-> NoText, offsets |-> <<>>, address |-> 0,
   lost |-> NoText, signed |-> TRUE, order |-> "auto", freeze |-> 0, options |-> "", cascade |-> TRUE, lua |-> ""]

(* Mutant: offsets beside an expression are taken for its own chain. *)
SplitAlways(f) == [text |-> Text(f.text.base, <<>>, TRUE), offsets |-> f.text.chain]

(* A chain that is written plainly becomes a base and its offsets. *)
Split(f) ==
  IF f.offsets = <<>> /\ f.text.chain # <<>> /\ f.text.plain
  THEN [text |-> Text(f.text.base, <<>>, TRUE), offsets |-> f.text.chain]
  ELSE [text |-> f.text, offsets |-> f.offsets]

(* keepsUnparsedPointer *)
IsLost(f) == f.lost # NoText /\ f.offsets = <<>> /\ f.text.base = "unsupported"

(* writeAddressAndOffsets *)
WriteAddress(f, fallback) ==
  IF IsLost(f) THEN [text |-> Text(f.lost.base, <<>>, TRUE), offsets |-> f.lost.chain, number |-> 0]
  ELSE [text |-> Split(f).text, offsets |-> Split(f).offsets,
        number |-> IF Split(f).text = NoText /\ fallback THEN f.address ELSE 0]

(* The address a record loads with: one offset that cannot be read takes all
   of the address away, and the texts are kept. *)
ReadAddress(f, a) ==
  IF Contains(a.offsets, Symbol)
  THEN [f EXCEPT !.text = Text("unsupported", <<>>, TRUE), !.lost = Text(a.text.base, a.offsets, TRUE)]
  ELSE [f EXCEPT !.text = a.text, !.offsets = a.offsets, !.address = a.number]

-----------------------------------------------------------------------------
(* Records *)

(* The types that have a length, and the types that a name says. *)
Sized == {"String", "UnicodeString", "ByteArray"}
TypeName(t) == CASE t = "UnicodeString" -> "String" [] t \in {"Grouped", "All"} -> "Int32" [] OTHER -> t

UnicodeMark(f) == IF f.type = "UnicodeString" THEN "1" ELSE "0"

(* writeEntryFields: what is at its default is not written. *)
WriteFields(f) ==
  LET valued == f.kind = "value"
      none == [text |-> NoText, offsets |-> <<>>, number |-> 0]
  IN [kind |-> f.kind,
      address |-> CASE valued -> WriteAddress(f, TRUE)
                    [] f.kind = "group" -> IF f.text # NoText \/ f.offsets # <<>> \/ IsLost(f) THEN WriteAddress(f, FALSE) ELSE none
                    [] OTHER -> [none EXCEPT !.text = f.text],
      type |-> IF valued THEN TypeName(f.type) ELSE "",
      unicode |-> IF valued /\ f.type \in {"String", "UnicodeString"} THEN UnicodeMark(f) ELSE "",
      length |-> IF valued /\ f.type \in Sized THEN f.length ELSE 0,
      signed |-> IF f.signed THEN "" ELSE "0",
      order |-> IF f.order = "auto" THEN "" ELSE f.order,
      freeze |-> f.freeze,
      options |-> IF f.options # "" THEN f.options ELSE IF f.kind = "group" /\ ~f.cascade THEN "off" ELSE "",
      lua |-> f.lua]

(* The fields an element loads with. *)
ReadFields(t) ==
  ReadAddress([Fields(t.kind, IF t.kind = "group" \/ t.type = "" THEN "Int32"
                              ELSE IF t.type = "String" /\ t.unicode = "1" THEN "UnicodeString" ELSE t.type)
                 EXCEPT !.length = IF t.kind = "group" THEN 0 ELSE t.length,
                        !.signed = t.signed # "0",
                        !.order = IF t.order = "" THEN "auto" ELSE t.order,
                        !.freeze = t.freeze,
                        !.options = t.options,
                        !.cascade = t.options # "off",
                        !.lua = t.lua],
              t.address)

(* An expression over the base, as the list and Lua show it. *)
Meant(f) ==
  CASE f.lost # NoText /\ IsLost(f) -> <<"lost", f.lost.base, f.lost.chain>>
    [] OTHER -> <<IF f.text = NoText THEN "number" ELSE f.text.base, f.text.chain \o f.offsets, f.address>>

-----------------------------------------------------------------------------
(* Trees *)

NoParent == -1

(* The rows of the children of row i: the first record of an id is the one
   its children name. *)
HolderRow(recs, i) ==
  LET p == recs[i].parent
      first == FirstWhere(recs, LAMBDA r : r.id = p)
  IN IF p = NoParent \/ first = 0 \/ first = i THEN 0 ELSE first

(* Mutant: a record whose parent is written later, or never, is not written. *)
WriteTreeOnce(recs) ==
  LET RECURSIVE Put(_, _, _)
      Put(i, depth, out) ==
        IF \E k \in DOMAIN out : out[k].row = i THEN out
        ELSE FoldLeftDomain(LAMBDA acc, c : IF HolderRow(recs, c) = i /\ depth + 1 < MaxDepth THEN Put(c, depth + 1, acc) ELSE acc,
                            Append(out, [row |-> i, depth |-> depth]), recs)
  IN FoldLeftDomain(LAMBDA acc, i : IF HolderRow(recs, i) = 0 THEN Put(i, 0, acc) ELSE acc, <<>>, recs)

(* writeEntry: the roots with what is under them, down to the depth a load
   accepts, then whatever is left (deeper records, cycles). *)
WriteTree(recs) ==
  LET RECURSIVE Put(_, _, _)
      Put(i, depth, out) ==
        IF \E k \in DOMAIN out : out[k].row = i THEN out
        ELSE FoldLeftDomain(LAMBDA acc, c : IF HolderRow(recs, c) = i /\ depth + 1 < MaxDepth THEN Put(c, depth + 1, acc) ELSE acc,
                            Append(out, [row |-> i, depth |-> depth]), recs)
      roots == FoldLeftDomain(LAMBDA acc, i : IF HolderRow(recs, i) = 0 THEN Put(i, 0, acc) ELSE acc, <<>>, recs)
  IN FoldLeftDomain(LAMBDA acc, i : Put(i, 0, acc), roots, recs)

(* Mutant: the id after the largest one, also after the last. *)
NextIdWraps(used) == IF used = {} THEN 1 ELSE (Max(used) % TopId) + 1

(* The id after the largest one, or the first gap when that is the last id. *)
NextId(used) ==
  IF used = {} THEN 1
  ELSE IF Max(used) < TopId THEN Max(used) + 1
  ELSE Min((1 .. TopId) \ used)

(* A record without an id, or with one that is taken, gets the next one. *)
IdFor(used, id) == IF id >= 0 /\ id \notin used THEN id ELSE NextId(used)

(* parseCheatEntriesBlock: ids in the order of the file, each record under
   the last one that is one level less deep. *)
ReadTree(tree) ==
  FoldLeft(LAMBDA acc, t :
             LET id == IdFor({acc[k].id : k \in DOMAIN acc}, t.id)
                 above == {k \in DOMAIN acc : acc[k].depth = t.depth - 1}
             IN Append(acc, [id |-> id, depth |-> t.depth, f |-> ReadFields(t.f), hk |-> ReadHotkeys(t.hk),
                             parent |-> IF above = {} THEN NoParent ELSE acc[CHOOSE k \in above : \A j \in above : j <= k].id]),
           <<>>, tree)

-----------------------------------------------------------------------------
(* Tables *)

Leaf(sec, tag, text) == [sec |-> sec, tag |-> tag, text |-> text]
HeadTags == <<"Comment", "LuaScript">>

(* The table's own texts come first, then a comment a section. *)
WriteHead(t) ==
  SelectSeq([i \in 1 .. Len(HeadTags) |-> Leaf("", HeadTags[i], t.head[HeadTags[i]])], LAMBDA l : l.text # "")
  \o [i \in DOMAIN t.notes |-> Leaf("DisassemblerComments", "Comment", t.notes[i])]

(* Sections have elements of the same names: they are no header. *)
HeadText(head, tag) ==
  LET i == FirstWhere(head, LAMBDA l : l.sec = "" /\ l.tag = tag) IN IF i = 0 THEN "" ELSE head[i].text

(* writeTableXml *)
WriteXml(t) ==
  LET order == WriteTree(t.recs)
  IN [head |-> WriteHead(t),
      tree |-> [k \in DOMAIN order |-> [id |-> t.recs[order[k].row].id, depth |-> order[k].depth,
                                        f |-> WriteFields(t.recs[order[k].row].f), hk |-> WriteHotkeys(t.recs[order[k].row].hk)]]]

(* loadFromString *)
Accepts(doc) == \A k \in DOMAIN doc.tree : doc.tree[k].depth < MaxDepth
ReadXml(doc) ==
  LET recs == ReadTree(doc.tree)
  IN [head |-> [tag \in Range(HeadTags) |-> HeadText(doc.head, tag)],
      notes |-> LET own == SelectSeq(doc.head, LAMBDA l : l.sec = "DisassemblerComments" /\ l.text # "")
                IN [i \in DOMAIN own |-> own[i].text],
      recs |-> [i \in DOMAIN recs |-> [id |-> recs[i].id, parent |-> recs[i].parent, f |-> recs[i].f, hk |-> recs[i].hk]]]

(* writeTableJson and readTableJson: the options first, then the flags that
   were written because they are off. *)
WriteJson(t) ==
  [t EXCEPT !.recs = [i \in DOMAIN t.recs |->
     [id |-> t.recs[i].id, parent |-> t.recs[i].parent, f |-> t.recs[i].f, hk |-> t.recs[i].hk, off |-> ~t.recs[i].f.cascade]]]
ReadJson(d) ==
  LET Cascade(r) == r.f.options # "off" /\ ~r.off
  IN [d EXCEPT !.recs = [i \in DOMAIN d.recs |->
        [id |-> d.recs[i].id, parent |-> d.recs[i].parent, hk |-> d.recs[i].hk, f |-> [d.recs[i].f EXCEPT !.cascade = Cascade(d.recs[i])]]]]
=============================================================================
