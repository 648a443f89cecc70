----------------------------- MODULE LuaObjects -----------------------------
(***************************************************************************)
(* The objects scripts make and the functions they give them: timers,      *)
(* hotkeys and threads of scripting/lua_bindings.cpp and lua_engine.cpp,   *)
(* and the widgets and menu items of scripting/lua_gui.cpp.  A function is *)
(* kept in a slot of Lua's registry; a slot that is given back is used     *)
(* again for the next function of any object.                              *)
(***************************************************************************)
EXTENDS LuaTarget

CONSTANTS Slots        \* the registry's slots

ASSUME SlotsAssumption == Slots \subseteq Nat \ {0}

VARIABLES
    reg,      \* slot -> the function in it, or 0
    objs,     \* the objects, numbered in the order of creation
    gui,      \* guiLuaState: whether the window's bindings still have a state
    made      \* functions made so far

objVars == <<reg, objs, gui, made>>

Events == {"tick", "press", "run", "click", "close"}
NoSlot == 0

\* kind: timer, hotkey, thread, widget or menu; state: live, dying (deleteLater
\* was called) or gone; kept: who keeps a thread's state; slot and want: the slot of each event's function, and
\* (ghost) the function the script gave it.
Object(kind) == [kind |-> kind, state |-> "live", on |-> TRUE, running |-> FALSE, done |-> FALSE, kept |-> {"userdata"},
                 slot |-> [v \in Events |-> NoSlot], want |-> [v \in Events |-> 0]]

EventsOf(kind) == CASE kind = "timer" -> {"tick"} [] kind = "hotkey" -> {"press"} [] kind = "thread" -> {"run"}
                    [] kind = "widget" -> {"click", "close"} [] kind = "menu" -> {"click"}

FreeSlot(r) == CHOOSE s \in Slots : r[s] = 0
SlotsLeft(r) == \E s \in Slots : r[s] = 0

\* luaL_unref.  Giving back a slot that holds another object's function is bad.
Unref(r, slot) == IF slot = NoSlot THEN r ELSE [r EXCEPT ![slot] = 0]
UnrefBad(o, v) == IF o.slot[v] # NoSlot /\ reg[o.slot[v]] # o.want[v] THEN {<<"slot", o.slot[v]>>} ELSE {}

Bad(b) == eng' = [eng EXCEPT !.bad = @ \cup b]
Is(i, kind) == i \in DOMAIN objs /\ objs[i].kind = kind /\ objs[i].state # "gone"

-----------------------------------------------------------------------------
(* Making objects and giving them functions.                               *)
Create ==
    /\ Op("objects") /\ Len(objs) < scen.objects
    /\ \E kind \in scen.kinds \ {"menu"} : objs' = Append(objs, Object(kind))
    /\ UNCHANGED <<scen, frames, eng, reg, gui, made>>

\* Replacing a function without giving its slot back loses the slot.
RebindKeepingSlot(r, o, v) == r

\* A function is replaced: the old one's slot is given back.
Rebind(r, o, v) == Unref(r, o.slot[v])

Bind ==
    /\ Op("bind")
    /\ \E i \in DOMAIN objs, v \in Events :
        LET o == objs[i]
            r == Rebind(reg, o, v) IN
        /\ v \in EventsOf(o.kind) /\ o.state # "gone" /\ o.kind # "menu"
        /\ o.kind = "thread" => o.slot[v] = NoSlot /\ ~o.done
        /\ SlotsLeft(r)
        /\ reg' = [r EXCEPT ![FreeSlot(r)] = made + 1]
        /\ objs' = [objs EXCEPT ![i].slot[v] = FreeSlot(r), ![i].want[v] = made + 1]
        /\ Bad(UnrefBad(o, v))
    /\ made' = made + 1
    /\ UNCHANGED <<scen, frames, gui>>

\* Setting the event to nil.
Unbind ==
    /\ Op("bind")
    /\ \E i \in DOMAIN objs, v \in {"tick", "click", "close"} :
        LET o == objs[i] IN
        /\ o.slot[v] # NoSlot /\ o.state # "gone" /\ o.kind # "menu"
        /\ reg' = Unref(reg, o.slot[v])
        /\ objs' = [objs EXCEPT ![i].slot[v] = NoSlot, ![i].want[v] = 0]
        /\ Bad(UnrefBad(o, v))
    /\ UNCHANGED <<scen, frames, gui, made>>

\* A menu item keeps its function for the session.
AddMainMenuItem ==
    /\ Op("objects") /\ "menu" \in scen.kinds /\ Len(objs) < scen.objects /\ SlotsLeft(reg)
    /\ LET s == FreeSlot(reg) IN
        /\ reg' = [reg EXCEPT ![s] = made + 1]
        /\ objs' = Append(objs, [Object("menu") EXCEPT !.slot["click"] = s, !.want["click"] = made + 1])
    /\ made' = made + 1
    /\ UNCHANGED <<scen, frames, eng, gui>>

Enable ==
    /\ Op("objects")
    /\ \E i \in DOMAIN objs : (Is(i, "timer") \/ Is(i, "hotkey")) /\ objs' = [objs EXCEPT ![i].on = ~@]
    /\ UNCHANGED <<scen, frames, eng, reg, gui, made>>

-----------------------------------------------------------------------------
(* Running a function.  want is what the object was given; the slot must   *)
(* still hold it.                                                          *)
Call(i, v) ==
    /\ Push([k |-> "callback", obj |-> i, event |-> v, slot |-> objs[i].slot[v], fn |-> objs[i].want[v]])
    /\ Bad(IF reg[objs[i].slot[v]] # objs[i].want[v] THEN {<<"called", i, v>>} ELSE {})

\* The user clicks: the window's event loop runs the connected functions.
Click ==
    /\ Idle /\ gui
    /\ \E i \in DOMAIN objs :
        /\ objs[i].kind \in {"widget", "menu"} /\ objs[i].state # "gone" /\ objs[i].slot["click"] # NoSlot
        /\ Spend("clicks") /\ Call(i, "click")
    /\ UNCHANGED <<scen, reg, objs, gui, made>>

\* hotkey.trigger runs the function inside the call.
Trigger ==
    /\ Op("objects")
    /\ \E i \in DOMAIN objs :
        /\ Is(i, "hotkey") /\ objs[i].on /\ objs[i].slot["press"] # NoSlot /\ Call(i, "press")
    /\ UNCHANGED <<scen, reg, objs, gui, made>>

\* A call that relies on the userdata to keep the thread's state.
RunUnheld(o) == [o EXCEPT !.running = TRUE]
RunHeld(o) == [o EXCEPT !.running = TRUE, !.kept = @ \cup {"call"}]

\* createThread and thread.resume run it, too, unless it runs already.
RunThread ==
    /\ Op("objects")
    /\ \E i \in DOMAIN objs :
        /\ Is(i, "thread") /\ ~objs[i].running /\ ~objs[i].done /\ objs[i].slot["run"] # NoSlot
        /\ objs' = [objs EXCEPT ![i] = RunHeld(@)]
        /\ Call(i, "run")
    /\ UNCHANGED <<scen, reg, gui, made>>

Terminate ==
    /\ Op("objects")
    /\ \E i \in DOMAIN objs : Is(i, "thread") /\ ~objs[i].done /\ objs' = [objs EXCEPT ![i].done = TRUE]
    /\ UNCHANGED <<scen, frames, eng, reg, gui, made>>

-----------------------------------------------------------------------------
(* Timers.  pumpTimers collects the due ones first and looks at each again *)
(* when its turn comes.                                                    *)
Due(i) == Is(i, "timer") /\ objs[i].on /\ objs[i].slot["tick"] # NoSlot

PumpTimers ==
    /\ Idle /\ Spend("clicks")
    /\ \E due \in SUBSET {i \in DOMAIN objs : Due(i)} :
        /\ due # {}
        /\ Push([k |-> "timers", due |-> SetToSortSeq(due, <)])
    /\ UNCHANGED <<scen, eng, objVars>>

\* A turn that trusts what was collected.
StillDueWhenCollected(i) == TRUE
StillDue(i) == Due(i)

NextTimer ==
    /\ ~Idle /\ Top.k = "timers" /\ Top.due # <<>>
    /\ LET i == Head(Top.due)
           rest == Append(Front(frames), [k |-> "timers", due |-> Tail(Top.due)])
       IN IF StillDue(i)
          THEN /\ Len(frames) < MaxDepth
               /\ frames' = Append(rest, [k |-> "callback", obj |-> i, event |-> "tick",
                                          slot |-> objs[i].slot["tick"], fn |-> objs[i].want["tick"]])
               /\ Bad(IF objs[i].slot["tick"] = NoSlot \/ reg[objs[i].slot["tick"]] # objs[i].want["tick"]
                      THEN {<<"called", i, "tick">>} ELSE {})
          ELSE frames' = rest /\ UNCHANGED eng
    /\ UNCHANGED <<scen, left, objVars>>

TimersDone ==
    /\ ~Idle /\ Top.k = "timers" /\ Top.due = <<>>
    /\ frames' = Front(frames)
    /\ UNCHANGED <<scen, left, eng, objVars>>

-----------------------------------------------------------------------------
(* The end of objects.                                                     *)
Forget(o, vs) == [o EXCEPT !.slot = [v \in Events |-> IF v \in vs THEN NoSlot ELSE @[v]],
                           !.want = [v \in Events |-> IF v \in vs THEN 0 ELSE @[v]]]
GiveBack(r, o, vs) == [s \in Slots |-> IF \E v \in vs : o.slot[v] = s THEN 0 ELSE r[s]]
GiveBackBad(o, vs) == UNION {UnrefBad(o, v) : v \in vs}

\* object_destroy of a timer, hotkey.destroy (which leaves the object), and
\* the collector's __gc of a hotkey or a thread, which a script may also call.
Destroy ==
    /\ Op("destroy")
    /\ \E i \in DOMAIN objs, final \in BOOLEAN :
        LET o == objs[i]  vs == EventsOf(o.kind) IN
        /\ o.kind \in {"timer", "hotkey", "thread"} /\ o.state = "live"
        /\ ~final => o.kind = "hotkey"
        /\ reg' = GiveBack(reg, o, vs)
        /\ objs' = [objs EXCEPT ![i] = [Forget(o, vs) EXCEPT !.on = FALSE,
                                             !.state = IF final THEN "gone" ELSE @,
                                             !.kept = IF final THEN @ \ {"userdata"} ELSE @]]
        /\ Bad(GiveBackBad(o, vs))
    /\ UNCHANGED <<scen, frames, gui, made>>

\* widget.destroy, or the user closing a form: the object goes when the event
\* loop runs again, so a handler may destroy its own widget.
DestroyLater ==
    /\ Op("destroy")
    /\ \E i \in DOMAIN objs : Is(i, "widget") /\ objs' = [objs EXCEPT ![i].state = "dying"]
    /\ UNCHANGED <<scen, frames, eng, reg, gui, made>>

\* The object's destroyed() signal: trackDestroyed drops the click's function,
\* then the OnClose function runs and is dropped.
WidgetDies ==
    /\ Idle
    /\ \E i \in DOMAIN objs :
        LET o == objs[i] IN
        /\ Is(i, "widget") /\ o.state = "dying"
        /\ reg' = GiveBack(reg, o, {"click"})
        /\ objs' = [objs EXCEPT ![i] = [Forget(o, {"click"}) EXCEPT !.state = "gone"]]
        /\ IF gui /\ o.slot["close"] # NoSlot
           THEN /\ Push([k |-> "callback", obj |-> i, event |-> "close", slot |-> o.slot["close"], fn |-> o.want["close"]])
                /\ Bad(GiveBackBad(o, {"click"}) \cup
                       (IF reg[o.slot["close"]] # o.want["close"] THEN {<<"called", i, "close">>} ELSE {}))
           ELSE Bad(GiveBackBad(o, {"click"})) /\ UNCHANGED frames
    /\ UNCHANGED <<scen, left, gui, made>>

\* What follows a function: a thread's state is kept by the running call even
\* when the callback collected it; a closed widget's function is given back.
CallReturns ==
    /\ ~Idle /\ Top.k = "callback"
    /\ frames' = Front(frames)
    /\ LET o == objs[Top.obj] IN
       CASE Top.event = "run" ->
                /\ objs' = [objs EXCEPT ![Top.obj].running = FALSE, ![Top.obj].done = TRUE,
                                        ![Top.obj].kept = @ \ {"call"}]
                /\ Bad(IF o.kept = {} THEN {<<"thread", Top.obj>>} ELSE {}) /\ UNCHANGED reg
         [] Top.event = "close" /\ gui ->
                /\ reg' = Unref(reg, Top.slot) /\ objs' = [objs EXCEPT ![Top.obj] = Forget(o, {"close"})]
                /\ Bad(IF reg[Top.slot] # Top.fn THEN {<<"slot", Top.slot>>} ELSE {})
         [] OTHER -> UNCHANGED <<eng, reg, objs>>
    /\ UNCHANGED <<scen, left, gui, made>>

\* ~MainWindow: the target's users let go, then the bindings lose the state
\* before it is closed.
Shutdown ==
    /\ Idle /\ gui /\ Spend("close")
    /\ gui' = FALSE
    /\ objs' = [i \in DOMAIN objs |-> Forget([objs[i] EXCEPT !.state = IF @ = "live" THEN "dying" ELSE @], Events)]
    /\ reg' = [s \in Slots |-> 0]
    /\ eng' = [Free(SetOwnedCeserverClient(SetProcess(eng, None), None), eng.win) EXCEPT !.win = None]
    /\ UNCHANGED <<scen, frames, made>>

-----------------------------------------------------------------------------
ObjectsInit == reg = [s \in Slots |-> 0] /\ objs = <<>> /\ gui = TRUE /\ made = 0

ObjectsNext ==
    \/ Create \/ Bind \/ Unbind \/ AddMainMenuItem \/ Enable
    \/ Click \/ Trigger \/ RunThread \/ Terminate
    \/ PumpTimers \/ NextTimer \/ TimersDone
    \/ Destroy \/ DestroyLater \/ WidgetDies \/ CallReturns \/ Shutdown

\* Every function an object was given is in a slot of its own, and every slot
\* in use is some object's, or that of the OnClose function that is running.
SlotsOwned ==
    /\ \A i \in DOMAIN objs, v \in Events :
        objs[i].slot[v] # NoSlot => reg[objs[i].slot[v]] = objs[i].want[v]
    /\ \A s \in Slots : reg[s] # 0 => \E i \in DOMAIN objs, v \in Events : objs[i].slot[v] = s
=============================================================================
