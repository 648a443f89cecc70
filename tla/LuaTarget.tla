------------------------------ MODULE LuaTarget ------------------------------
(***************************************************************************)
(* scripting/lua_engine.cpp and the target and debugger bindings of        *)
(* scripting/lua_bindings.cpp.  One Lua state runs on the window's thread: *)
(* scripts, and the callbacks and debugger handlers they installed.  All   *)
(* of them share the engine's target, which each of them may replace.  The *)
(* tracer's thread queues the stops of the debugged program for            *)
(* debug_pumpEvents.                                                       *)
(***************************************************************************)
EXTENDS Integers, Sequences, FiniteSets, SequencesExt

CONSTANTS None, Pids, MaxDepth, Scenarios

\* Handles of the four kinds of targets; a remote one needs its client.
Handles == [n : Nat, kind : {"host", "local", "remote", "gdb"}, pid : Pids, client : Nat \cup {None}]

\* A debug session: its program, its image and the number of its stop.
Sessions == [of : Handles, attached : BOOLEAN, gen : Nat, stop : Nat, first : Nat]

ASSUME LuaAssumption == None \notin Nat \cup Handles \cup Sessions

VARIABLES
    scen,     \* [ops, calls, budget]: what this instance exercises
    left,     \* steps left of the scripts, the window and the programs
    frames,   \* the Lua calls in progress, the innermost last
    eng       \* the engine, the handles and the debugged program

luaVars == <<scen, left, frames, eng>>

NoEngine ==
    [proc |-> None, owned |-> None, client |-> None, reg |-> None, syms |-> None, loaded |-> FALSE, names |-> {},
     bps |-> {}, hooks |-> {}, sess |-> None, queue |-> <<>>,
     win |-> None, live |-> {}, clients |-> {}, dead |-> {}, n |-> 0, excused |-> {}, bad |-> {}, mixed |-> {}]

Handle(n, kind, pid, c) == [n |-> n, kind |-> kind, pid |-> pid, client |-> c]

\* The Lua code that runs now: a script, a handler, a callback, or a
\* metamethod of an options table that a binding is reading.
Top == Last(frames)
LuaRuns == frames # <<>> /\ Top.k \in {"script", "handler", "callback", "options"}
Idle == frames = <<>>
Push(f) == Len(frames) < MaxDepth /\ frames' = Append(frames, f)
Op(name) == LuaRuns /\ name \in scen.ops /\ left.calls > 0 /\ left' = [left EXCEPT !.calls = @ - 1]
Spend(k) == left[k] > 0 /\ left' = [left EXCEPT ![k] = @ - 1]
InHand == {frames[i].hit.stop : i \in {j \in DOMAIN frames : frames[j].k = "handler"}}

-----------------------------------------------------------------------------
(* Handles.  `bad` collects every use of something that was freed.         *)
Use(e, hs) == [e EXCEPT !.bad = @ \cup (hs \ e.live)]

\* The destructor of a remote handle closes it through its client.
Free(e, h) ==
    IF h = None THEN e
    ELSE [Use(e, {h}) EXCEPT !.live = @ \ {h},
                             !.bad = @ \cup (IF h.client # None /\ h.client \notin e.clients THEN {h} ELSE {})]

EndSession(e) == IF e.sess = None THEN e ELSE [Use(e, {e.sess.of}) EXCEPT !.sess = None]

\* All that is of the target goes, but not the names that scripts registered:
\* the resolver and the registry keep those, with the addresses they had.
ResetTarget(e) ==
    LET a == EndSession(e)
        b == IF a.proc # None /\ a.hooks # {} THEN Use(a, {a.proc}) ELSE a
    IN [b EXCEPT !.queue = <<>>, !.hooks = {}, !.syms = None, !.loaded = FALSE, !.bps = {},
                 !.excused = @ \cup InHand]

SetProcess(e, h) ==
    IF h = e.proc THEN e
    ELSE LET a == ResetTarget(e) IN [Free(a, a.owned) EXCEPT !.owned = None, !.proc = h, !.reg = h]

\* A replacement that frees the old handle before the session that uses it ends.
SetOwnedFreeingFirst(e, h) ==
    [ResetTarget(Free(e, e.owned)) EXCEPT !.owned = h, !.proc = h, !.reg = h, !.live = @ \cup {h}]

SetOwnedProcess(e, h) ==
    LET a == ResetTarget(e)
    IN [Free(a, a.owned) EXCEPT !.owned = h, !.proc = h, !.reg = h, !.live = @ \cup {h}]

\* A replacement of the connection while the old remote handle still needs it.
SetClientFirst(e, c) ==
    SetProcess([e EXCEPT !.client = c, !.clients = (@ \ {e.client}) \cup ({c} \ {None})], None)

SetOwnedCeserverClient(e, c) ==
    [SetProcess(e, None) EXCEPT !.client = c, !.clients = (@ \ {e.client}) \cup ({c} \ {None})]

-----------------------------------------------------------------------------
(* The host: the main window opens processes and runs scripts.             *)

\* releaseTargetUsers makes the engine let go before the handle is freed.
HostSwitch ==
    /\ Idle /\ "host" \in scen.ops /\ Spend("host")
    /\ \E pid \in Pids \ eng.dead :
        LET a == Free(SetProcess(eng, None), eng.win)
            h == Handle(a.n + 1, "host", pid, None)
        IN eng' = SetProcess([a EXCEPT !.n = @ + 1, !.win = h, !.live = @ \cup {h}], h)
    /\ UNCHANGED <<scen, frames>>

\* The console, a table's script or a menu runs code; the window gives the
\* engine its own process again first.
Execute ==
    /\ Idle /\ frames' = <<[k |-> "script"]>>
    /\ \E e \in {eng, SetProcess(eng, eng.win)} : eng' = [e EXCEPT !.reg = e.proc]
    /\ UNCHANGED <<scen, left>>

\* A call of Lua code returns, or fails: both unwind to the caller.  Handlers,
\* callbacks and options are unwound by what called them.
Return == /\ ~Idle /\ Top.k = "script"
          /\ frames' = Front(frames)
          /\ UNCHANGED <<scen, left, eng>>

-----------------------------------------------------------------------------
(* Bindings that choose a target.                                          *)
OpenProcess ==
    /\ Op("open")
    /\ \E pid \in Pids \ eng.dead :
        eng' = SetOwnedProcess([eng EXCEPT !.n = @ + 1], Handle(eng.n + 1, "local", pid, None))
    /\ UNCHANGED <<scen, frames>>

ConnectToCeserver ==
    /\ Op("ceserver")
    /\ \E pid \in Pids :
        LET c == eng.n + 1
            h == Handle(eng.n + 2, "remote", pid, c)
        IN eng' = SetOwnedProcess(SetOwnedCeserverClient([eng EXCEPT !.n = @ + 2], c), h)
    /\ UNCHANGED <<scen, frames>>

DisconnectProcess ==
    /\ Op("disconnect")
    /\ LET a == IF eng.proc # None /\ eng.proc.kind = "gdb" THEN Use(eng, {eng.proc}) ELSE eng
       IN eng' = SetOwnedCeserverClient(SetProcess(a, None), None)
    /\ UNCHANGED <<scen, frames>>

-----------------------------------------------------------------------------
(* Bindings that use the target.  Each takes the handle from the registry  *)
(* when it needs it, and the first symbol lookup after a switch loads the  *)
(* symbols of the target.                                                  *)
LoadSymbols(e) ==
    IF e.syms = None /\ ~e.loaded /\ e.reg # None
    THEN [Use(e, {e.reg}) EXCEPT !.syms = e.reg, !.loaded = TRUE] ELSE e

\* An address is a number or an expression.
AtAddress == {eng, LoadSymbols(eng)}
OnTarget(e) == IF e.reg = None THEN e ELSE Use(e, {e.reg})
TargetCall(states) == Op("use") /\ (\E e \in states : eng' = OnTarget(e)) /\ UNCHANGED <<scen, frames>>

TargetInfo == TargetCall({eng})
ReadMemory == TargetCall(AtAddress)
WriteMemory == TargetCall(AtAddress)
RegionFiles == TargetCall(AtAddress)
ModulesAndAllocation == TargetCall({eng})
NamesOfAddresses == TargetCall({LoadSymbols(eng)})
InjectLibrary == TargetCall(AtAddress)
Disassemble == TargetCall({eng})
NopInstruction == TargetCall({eng})
InjectionScripts == TargetCall(AtAddress)
FindWhat == TargetCall({eng})
FindReferences == TargetCall({eng})
Exports == TargetCall({eng})
CallGraph == TargetCall({eng})
GdbRegisters == TargetCall({eng})
AobScan == TargetCall({eng})
AobModule == TargetCall({eng})

\* Names that scripts registered, by the program they were registered for.
Named(e) == [e EXCEPT !.names = @ \cup {IF eng.reg = None THEN None ELSE eng.reg.pid}]

\* autoAssemble exports the names a script registered to the resolver.
AutoAssemble ==
    /\ Op("names")
    /\ eng' \in IF eng.reg = None THEN {eng}
                ELSE {Use(eng, {eng.reg}), Named(LoadSymbols(Use(eng, {eng.reg})))}
    /\ UNCHANGED <<scen, frames>>

\* registerSymbol needs no target; unregisterSymbol finds the name of whatever
\* program it was registered for, and may leave others of it.
UserSymbols ==
    /\ Op("names")
    /\ eng' \in {Named(LoadSymbols(eng)), LoadSymbols(eng)}
              \cup {[LoadSymbols(eng) EXCEPT !.names = @ \ {p}] : p \in eng.names}
    /\ UNCHANGED <<scen, frames>>

\* reinitializeSymbolhandler loads the target's symbols again.
ReinitializeSymbols ==
    /\ Op("names")
    /\ eng' = IF eng.reg = None THEN eng ELSE [OnTarget(LoadSymbols(eng)) EXCEPT !.syms = eng.reg]
    /\ UNCHANGED <<scen, frames>>

CreateSimpleHook ==
    /\ Op("hook") /\ eng.reg # None
    /\ \E ok \in BOOLEAN :
        eng' = [Use(eng, {eng.reg}) EXCEPT !.hooks = IF ok THEN @ \cup {eng.reg} ELSE @]
    /\ UNCHANGED <<scen, frames>>

\* A hook whose code could not be restored stays listed.
RemoveSimpleHook ==
    /\ Op("hook") /\ eng.reg # None /\ eng.hooks # {}
    /\ \E ok \in BOOLEAN :
        eng' = [Use(eng, {eng.reg}) EXCEPT !.hooks = IF ok THEN {} ELSE @]
    /\ UNCHANGED <<scen, frames>>

-----------------------------------------------------------------------------
(* Bindings that read an options table first: a metamethod of the table is *)
(* Lua code and may do anything, so the handle is taken afterwards.        *)
OptionKinds == {"value", "scan", "pointers", "trace", "gdb"}

ReadOptions ==
    /\ Op("options")
    /\ \E o \in OptionKinds : Push([k |-> "options", op |-> o, of |-> eng.reg])
    /\ UNCHANGED <<scen, eng>>

OptionsEnd(op, es) ==
    /\ ~Idle /\ Top.k = "options" /\ Top.op = op
    /\ frames' = Front(frames)
    /\ eng' \in {eng} \cup es                  \* an option may be refused
    /\ UNCHANGED <<scen, left>>

\* The handle remembered from before the options were read.
TargetNowEarly(e) == IF Top.of = None THEN e ELSE Use(e, {Top.of})
TargetNow(e) == OnTarget(e)

TypedValue == OptionsEnd("value", {TargetNow(e) : e \in AtAddress})
MemScan == OptionsEnd("scan", {TargetNow(eng)})
PointerScan == OptionsEnd("pointers", {TargetNow(eng)})
BreakAndTrace == OptionsEnd("trace", {TargetNow(eng)})

\* The guest becomes the target; a connection to a ceserver is given up.
ConnectToGdb ==
    OptionsEnd("gdb", {SetOwnedProcess(SetOwnedCeserverClient([eng EXCEPT !.n = @ + 1], None),
                                       Handle(eng.n + 1, "gdb", pid, None)) : pid \in Pids})

OptionsDone == TypedValue \/ MemScan \/ PointerScan \/ BreakAndTrace \/ ConnectToGdb

-----------------------------------------------------------------------------
(* The debugger.  A stop has a number; 0 is a running program.             *)
Attached(e) == e.sess # None /\ e.sess.attached

\* debugSession(): the session, attached on first use; only a local program
\* can be attached, and attaching leaves it stopped.
DebugSession(e) ==
    IF Attached(e) THEN {e}
    ELSE LET a == EndSession(e)
         IN {a} \cup (IF a.proc = None \/ a.proc.kind \notin {"host", "local"} \/ a.proc.pid \in a.dead THEN {}
                      ELSE {[Use(a, {a.proc}) EXCEPT
                                !.n = @ + 1, !.sess = [of |-> a.proc, attached |-> TRUE, gen |-> 0, stop |-> a.n + 1,
                                                         first |-> a.n + 1]]})

Continue(e) == IF Attached(e) THEN [e EXCEPT !.sess.stop = 0] ELSE e

\* A script that lets the program go on itself makes the hits it did not
\* pump yet, and the one in hand, old.
Excuse(e) == [e EXCEPT !.excused = @ \cup InHand \cup {e.queue[i].stop : i \in DOMAIN e.queue}]

SetBreakpoint ==
    /\ Op("breakpoint")
    /\ \E e \in DebugSession(eng) :
        eng' = IF Attached(e) THEN [Continue(Excuse(e)) EXCEPT !.bps = @ \cup {e.sess.of}]
               ELSE [e EXCEPT !.bps = @ \cup {None}]
    /\ UNCHANGED <<scen, frames>>

\* An entry whose breakpoint the session refuses to remove is kept.
RemoveBreakpoint ==
    /\ Op("breakpoint")
    /\ \E b \in eng.bps :
        \/ eng' = [(IF b # None /\ Attached(eng) THEN Use(eng, {eng.sess.of}) ELSE eng) EXCEPT !.bps = @ \ {b}]
        \/ b # None /\ Attached(eng) /\ eng' = Use(eng, {eng.sess.of})
    /\ UNCHANGED <<scen, frames>>

ContinueFromBreakpoint ==
    /\ Op("continue") /\ eng' = IF Attached(eng) THEN Continue(Excuse(eng)) ELSE eng
    /\ UNCHANGED <<scen, frames>>

\* Register and stack access never attaches.
Registers ==
    /\ Op("registers") /\ eng' = IF Attached(eng) THEN Use(eng, {eng.sess.of}) ELSE eng
    /\ UNCHANGED <<scen, frames>>

-----------------------------------------------------------------------------
(* The debugged program and the tracer's thread.                           *)
Hit(e, type) == [type |-> type, stop |-> e.n, of |-> e.sess.of, gen |-> e.sess.gen]

\* The event callback, on the tracer's thread.
Queued(e, type) == [e EXCEPT !.queue = Append(IF type = "exec" THEN <<>> ELSE @, Hit(e, type))]

ProgramStops ==
    /\ Attached(eng) /\ eng.sess.stop = 0 /\ Spend("stops")
    /\ \E type \in {"breakpoint", "exiting"} :
        eng' = Queued([eng EXCEPT !.n = @ + 1, !.sess.stop = eng.n + 1], type)
    /\ UNCHANGED <<scen, frames>>

ProgramExecs ==
    /\ Attached(eng) /\ eng.sess.stop = 0 /\ Spend("execs")
    /\ eng' = Queued([eng EXCEPT !.n = @ + 1, !.sess.stop = eng.n + 1, !.sess.gen = @ + 1], "exec")
    /\ UNCHANGED <<scen, frames>>

ProgramExits ==
    /\ Attached(eng) /\ Spend("exits")
    /\ eng' = [eng EXCEPT !.sess.attached = FALSE, !.sess.stop = 0, !.dead = @ \cup {eng.sess.of.pid}]
    /\ UNCHANGED <<scen, frames>>

-----------------------------------------------------------------------------
(* debug_pumpEvents.                                                       *)
PumpEvents ==
    /\ LuaRuns /\ "pump" \in scen.ops /\ Attached(eng)
    /\ Push([k |-> "pump"])
    /\ UNCHANGED <<scen, left, eng>>

\* nextDebugHit times out: the binding returns.
PumpEnds ==
    /\ ~Idle /\ Top.k = "pump" /\ eng.queue = <<>>
    /\ frames' = Front(frames)
    /\ UNCHANGED <<scen, left, eng>>

\* The next hit; one of another image, or without a session, is dropped.
PumpTakes ==
    /\ ~Idle /\ Top.k = "pump" /\ eng.queue # <<>>
    /\ \E e \in DebugSession([eng EXCEPT !.queue = Tail(@)]) :
        LET hit == Head(eng.queue) IN
        IF ~Attached(e) \/ e.sess.gen # hit.gen THEN eng' = e /\ UNCHANGED frames
        ELSE /\ eng' = IF hit.type = "exec" THEN [e EXCEPT !.bps = {}] ELSE e
             /\ frames' = Append(Front(frames), [k |-> "handler", hit |-> hit])
    /\ UNCHANGED <<scen, left>>

\* mixed: registers of one stop written at another of the program, unless a
\* script made the hit old, or written to another image.
PutBack(e, hit) ==
    IF hit.stop # e.sess.stop /\ (hit.stop \notin e.excused \/ hit.gen # e.sess.gen)
    THEN [e EXCEPT !.mixed = @ \cup {<<hit.stop, e.sess.stop>>}] ELSE e

\* Resuming for an old hit makes the queued ones old, too.
Resume(e, hit) == Continue(IF hit.stop = e.sess.stop THEN e ELSE Excuse(e))

\* A version that writes the registers without asking which program they are of.
WriteBackAnyImage(e, hit) ==
    IF ~Attached(e) THEN e
    ELSE LET a == IF hit.type # "exiting" THEN PutBack(e, hit) ELSE e IN Resume(a, hit)

\* A version that lets the program go on before the edits are written.
WriteBackAfterResume(e, hit) ==
    IF ~Attached(e) \/ e.sess.gen # hit.gen THEN e
    ELSE LET a == Resume(e, hit)
         IN IF hit.type # "exiting" /\ e.sess.of.pid = hit.of.pid THEN PutBack(a, hit) ELSE a

\* The handler's edits go to the thread that stopped, if the session still
\* knows it, and the program goes on.
WriteBack(e, hit) ==
    IF ~Attached(e) \/ e.sess.gen # hit.gen THEN e
    ELSE LET a == IF hit.type # "exiting" /\ e.sess.of.pid = hit.of.pid THEN PutBack(e, hit) ELSE e
         IN Resume(a, hit)

HandlerReturns ==
    /\ ~Idle /\ Top.k = "handler"
    /\ \E e \in DebugSession(eng) : eng' = WriteBack(e, Top.hit)
    /\ frames' = Append(Front(frames), [k |-> "pump"])
    /\ UNCHANGED <<scen, left>>

\* A failing handler that leaves the program stopped.
FailedHandlerFreezes(e, hit) == e
FailedHandler(e, hit) == IF Attached(e) /\ e.sess.gen = hit.gen THEN Resume(e, hit) ELSE e

\* The error ends debug_pumpEvents as well; hits behind it stay queued.
HandlerFails ==
    /\ ~Idle /\ Top.k = "handler"
    /\ \E e \in DebugSession(eng) : eng' = FailedHandler(e, Top.hit)
    /\ frames' = Front(frames)
    /\ UNCHANGED <<scen, left>>

-----------------------------------------------------------------------------
TargetInit ==
    /\ scen \in Scenarios
    /\ left = scen.budget
    /\ frames = <<>>
    /\ eng = NoEngine

PumpNext == PumpEnds \/ PumpTakes \/ HandlerReturns \/ HandlerFails

TargetNext ==
    \/ HostSwitch \/ Execute \/ Return
    \/ OpenProcess \/ ConnectToCeserver \/ DisconnectProcess
    \/ TargetInfo \/ ReadMemory \/ WriteMemory \/ RegionFiles \/ ModulesAndAllocation \/ NamesOfAddresses
    \/ InjectLibrary \/ Disassemble \/ NopInstruction \/ InjectionScripts \/ FindWhat \/ FindReferences
    \/ Exports \/ CallGraph \/ GdbRegisters \/ AobScan \/ AobModule
    \/ AutoAssemble \/ UserSymbols \/ ReinitializeSymbols \/ CreateSimpleHook \/ RemoveSimpleHook
    \/ ReadOptions \/ OptionsDone
    \/ SetBreakpoint \/ RemoveBreakpoint \/ ContinueFromBreakpoint \/ Registers
    \/ ProgramStops \/ ProgramExecs \/ ProgramExits
    \/ PumpEvents \/ PumpNext

-----------------------------------------------------------------------------
\* What the engine keeps of a target is of this one, which exists: the
\* registry's handle, the session, the queued hits, the hooks, the symbols of
\* its modules, the listed breakpoints, and the connection a remote target
\* needs.  (The names that scripts registered are theirs, and stay.)
EngineAgrees ==
    /\ eng.reg = eng.proc /\ eng.proc \in eng.live \cup {None}
    /\ eng.owned \in {None, eng.proc}
    /\ eng.proc # None /\ eng.proc.client # None => eng.proc.client \in eng.clients /\ eng.client = eng.proc.client
    /\ eng.sess # None => eng.sess.of = eng.proc
    /\ \A i \in DOMAIN eng.queue : eng.queue[i].of = eng.proc
    /\ eng.hooks \subseteq {eng.proc} /\ eng.syms \in {None, eng.proc}
    /\ eng.bps \subseteq {None, eng.proc}
    /\ eng.clients = {eng.client} \ {None}
    /\ eng.live = {eng.owned, eng.win} \ {None}

\* The registers a handler saw and edited go back to the stop they were read
\* at, never to another program image, and to a later stop only when the script
\* itself let the program go on, or switched targets in the handler.
RegistersKept == eng.mixed = {}

\* A stop that was reported, and that the script did not end itself; the one
\* of attaching is never reported.
StopPending ==
    Attached(eng) /\ eng.sess.stop \notin eng.excused \cup {0, eng.sess.first}

\* It ends: a script that keeps pumping never leaves the program frozen at a
\* stop, also when the handler fails or the program was replaced meanwhile.
StopsResume == []<>~StopPending
=============================================================================
