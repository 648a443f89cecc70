------------------------------ MODULE LuaEngine ------------------------------
(***************************************************************************)
(* The Lua engine with all that scripts can make, on one stack of calls,   *)
(* and scripting/lua_memrec.cpp: the records of the address list as        *)
(* scripts see them.  A script may keep a record for ever; the window      *)
(* loads other tables meanwhile, whose records have the same numbers, and  *)
(* the engine may be given another list.                                   *)
(***************************************************************************)
EXTENDS LuaObjects

CONSTANTS Lists, MaxRecords

ASSUME ListsAssumption == None \notin Lists /\ MaxRecords \in Nat

VARIABLES
    lists,    \* list -> [gen: tables loaded, recs: id -> the record (ghost number), next]
    tab       \* the engine's list, its generation, the callbacks and the script's records

recVars == <<lists, tab>>

Empty == [x \in {} |-> 0]
NoList == [gen |-> 0, recs |-> Empty, next |-> 1]

\* The registry's entries: the list, ce_addresslist_generation, the table of
\* callbacks by id (with, as a ghost, the record they were given to) and its
\* generation; refs: the MemRecRefs that scripts hold.
NoTab == [list |-> None, gen |-> 0, cbs |-> Empty, cbsGen |-> -1, refs |-> {}, made |-> 0, bad |-> FALSE]

Replaced == IF tab.list = None THEN 0 ELSE lists[tab.list].gen

\* pushMemRec and checkMemRec.
RefTo(id, uid) == [id |-> id, gen |-> tab.gen, rep |-> Replaced, uid |-> uid]

\* A check that only asks for the list.
ValidInList(ref) == ref.gen = tab.gen
Valid(ref) == ref.gen = tab.gen /\ (tab.list # None => ref.rep = Replaced)

\* A table of callbacks that outlives the loaded table.
CallbacksOfAnyTable == tab.cbs

\* The current table's callbacks: those of an earlier table are dropped.
Callbacks == IF tab.cbsGen = Replaced THEN tab.cbs ELSE Empty

Rec(id) == IF tab.list # None /\ id \in DOMAIN lists[tab.list].recs THEN lists[tab.list].recs[id] ELSE 0
With(f, k, v) == [x \in DOMAIN f \cup {k} |-> IF x = k THEN v ELSE f[x]]
Without(f, k) == [x \in DOMAIN f \ {k} |-> f[x]]

-----------------------------------------------------------------------------
\* setAddressList: another list is another generation without callbacks.
SetAddressList ==
    /\ Idle /\ Spend("tables")
    /\ \E l \in Lists \cup {None} :
        tab' = IF l = tab.list THEN tab ELSE [tab EXCEPT !.list = l, !.gen = @ + 1, !.cbs = Empty]
    /\ UNCHANGED <<scen, frames, eng, lists>>

\* The window loads a table: the records are numbered from 1 again.
LoadTable ==
    /\ Idle /\ Spend("tables")
    /\ \E l \in Lists, n \in 0 .. MaxRecords :
        lists' = [lists EXCEPT ![l] = [gen |-> @.gen + 1, next |-> n + 1, recs |-> [i \in 1 .. n |-> tab.made + i]]]
    /\ tab' = [tab EXCEPT !.made = @ + MaxRecords]
    /\ UNCHANGED <<scen, frames, eng>>

\* createMemoryRecord and createGroup.
CreateRecord ==
    /\ Op("records") /\ tab.list # None /\ lists[tab.list].next <= MaxRecords
    /\ LET l == lists[tab.list]  uid == tab.made + 1 IN
        /\ lists' = [lists EXCEPT ![tab.list].recs = With(@, l.next, uid), ![tab.list].next = @ + 1]
        /\ tab' = [tab EXCEPT !.made = uid, !.refs = @ \cup {RefTo(l.next, uid)}]
    /\ UNCHANGED <<scen, frames, eng>>

\* A script's loadTable adds the file's records to the list as new ones.
AppendTable ==
    /\ Op("records") /\ tab.list # None
    /\ \E n \in 1 .. MaxRecords :
        LET l == lists[tab.list] IN
        /\ l.next + n - 1 <= MaxRecords
        /\ lists' = [lists EXCEPT ![tab.list].next = @ + n,
                                  ![tab.list].recs = [i \in DOMAIN l.recs \cup (l.next .. l.next + n - 1) |->
                                                      IF i >= l.next THEN tab.made + i - l.next + 1 ELSE l.recs[i]]]
        /\ tab' = [tab EXCEPT !.made = @ + n]
    /\ UNCHANGED <<scen, frames, eng>>

\* getMemoryRecord, ...ByID, ...ByDescription, getChild and getParent.
FindRecord ==
    /\ Op("records") /\ tab.list # None
    /\ \E id \in DOMAIN lists[tab.list].recs : tab' = [tab EXCEPT !.refs = @ \cup {RefTo(id, Rec(id))}]
    /\ UNCHANGED <<scen, frames, eng, lists>>

\* An operation on a record reaches the record it was got for, or none.
Reach(ref) == tab.bad \/ Rec(ref.id) \notin {0, ref.uid}

UseRecord ==
    /\ Op("records")
    /\ \E ref \in tab.refs : Valid(ref) /\ tab' = [tab EXCEPT !.bad = Reach(ref)]
    /\ UNCHANGED <<scen, frames, eng, lists>>

\* OnActivate and OnDeactivate.
SetCallback ==
    /\ Op("records")
    /\ \E ref \in tab.refs :
        /\ Valid(ref)
        /\ tab' = [tab EXCEPT !.cbs = With(Callbacks, ref.id, ref.uid), !.cbsGen = Replaced]
    /\ UNCHANGED <<scen, frames, eng, lists>>

DeleteRecord ==
    /\ Op("records")
    /\ \E ref \in tab.refs :
        /\ Valid(ref)
        /\ lists' = IF tab.list = None THEN lists ELSE [lists EXCEPT ![tab.list].recs = Without(@, ref.id)]
        /\ tab' = [tab EXCEPT !.bad = Reach(ref), !.cbs = Without(Callbacks, ref.id), !.cbsGen = Replaced]
    /\ UNCHANGED <<scen, frames, eng>>

\* The record is switched, by the user or a script: its function runs, with a
\* new reference to the record.
Activate ==
    /\ Spend("activations") /\ tab.list # None
    /\ \E id \in DOMAIN lists[tab.list].recs :
        IF id \in DOMAIN Callbacks
        THEN /\ Push([k |-> "script"])
             /\ tab' = [tab EXCEPT !.cbs = Callbacks, !.cbsGen = Replaced, !.refs = @ \cup {RefTo(id, Rec(id))},
                                   !.bad = @ \/ Callbacks[id] # Rec(id)]
        ELSE tab' = [tab EXCEPT !.cbs = Callbacks, !.cbsGen = Replaced] /\ UNCHANGED frames
    /\ UNCHANGED <<scen, eng, lists>>

-----------------------------------------------------------------------------
RecordsInit == lists = [l \in Lists |-> NoList] /\ tab = NoTab

RecordsNext ==
    \/ SetAddressList \/ LoadTable \/ CreateRecord \/ AppendTable \/ FindRecord \/ UseRecord
    \/ SetCallback \/ DeleteRecord \/ Activate

\* Neither an operation through a kept record nor a record's function ever
\* reaches a record of another table or list that has the same number.
RecordsReached == ~tab.bad

-----------------------------------------------------------------------------
(* The engine: targets, objects and records.                               *)

vars == <<luaVars, objVars, recVars>>

Init == TargetInit /\ ObjectsInit /\ RecordsInit

Next ==
    \/ gui /\ TargetNext /\ UNCHANGED <<objVars, recVars>>
    \/ ObjectsNext /\ UNCHANGED recVars
    \/ gui /\ RecordsNext /\ UNCHANGED objVars

\* The bindings and the event loop run on.  Handlers, callbacks and options
\* end, and the script pumps the debugger's events again and again, as
\* scripts that use breakpoints must.
Fairness ==
    /\ WF_vars((Execute \/ PumpEnds \/ PumpTakes) /\ UNCHANGED <<objVars, recVars>>)
    /\ WF_vars((NextTimer \/ TimersDone) /\ UNCHANGED recVars)
    /\ SF_vars((HandlerReturns \/ HandlerFails \/ OptionsDone) /\ UNCHANGED <<objVars, recVars>>)
    /\ SF_vars(CallReturns /\ UNCHANGED recVars)
    /\ SF_vars(PumpEvents /\ UNCHANGED <<objVars, recVars>>)

Spec == Init /\ [][Next]_vars /\ Fairness

\* Nothing that was freed is used, and nothing stays of a target, an object or
\* a table that is gone, except the names that scripts registered for a target.
NothingStale == eng.bad = {} /\ EngineAgrees /\ SlotsOwned /\ RecordsReached
=============================================================================
