--------------------------- MODULE LuaEngineProofs ---------------------------
(***************************************************************************)
(* Machine-checked proofs about the Lua engine, for any scripts, number of *)
(* programs, slots, lists and nested calls.                                *)
(***************************************************************************)
EXTENDS LuaEngine, TLAPS

IsSeq(s) == \E S : s \in Seq(S)

Fields == {"proc", "owned", "client", "reg", "syms", "loaded", "bps", "hooks", "sess", "queue",
           "win", "live", "clients", "dead", "n", "excused", "bad", "mixed"}

\* The engine's target and its connection exist; the window's handle is never
\* one the engine owns.
TargetOK(e) ==
  /\ e.n \in Nat
  /\ e.proc \in Handles \cup {None} /\ e.reg = e.proc
  /\ e.win = None \/ (e.win \in Handles /\ e.win.kind = "host" /\ e.win.client = None)
  /\ e.owned = None \/ (e.owned = e.proc /\ e.owned.kind # "host")
  /\ e.proc = None \/ e.proc \in {e.owned, e.win}
  /\ e.live = {e.owned, e.win} \ {None}
  /\ e.client \in Nat \cup {None}
  /\ e.clients = {e.client} \ {None}
  /\ e.proc # None /\ e.proc.client # None => e.client = e.proc.client

\* All that is kept of a target is of this one.
KeptOK(e) ==
  /\ e.hooks \subseteq {e.proc} /\ e.syms \in {None, e.proc} /\ e.bps \subseteq {None, e.proc}
  /\ e.sess # None =>
       /\ e.proc # None /\ e.sess \in Sessions /\ e.sess.of = e.proc /\ e.sess.stop <= e.n
       /\ e.sess.attached => e.proc.pid \notin e.dead
  /\ IsSeq(e.queue)
  /\ \A i \in DOMAIN e.queue : e.queue[i].of = e.proc

\* The engine, with no use of anything freed and no registers misplaced.
EngOK(e) == Fields \subseteq DOMAIN e /\ TargetOK(e) /\ KeptOK(e) /\ e.bad = {} /\ e.mixed = {}

-----------------------------------------------------------------------------
(* Hits, queued or in a handler's hands *)

\* A hit is old (a script let the program go on, or changed the target in its
\* handler), or its program is dead, or its stop lasts as long as its image.
HitOK(e, h) ==
  /\ h.stop \in Nat /\ 0 < h.stop /\ h.stop <= e.n /\ h.gen \in Nat
  /\ \/ h.stop \in e.excused
     \/ h.of.pid \in e.dead
     \/ /\ Attached(e) /\ h.of = e.sess.of /\ h.gen <= e.sess.gen
        /\ h.gen = e.sess.gen => h.stop = e.sess.stop

InHandler(fr, i) == i \in DOMAIN fr /\ fr[i].k = "handler"

\* No stop is reported twice.
HitsOK(e, fr) ==
  /\ \A i \in DOMAIN fr : InHandler(fr, i) => HitOK(e, fr[i].hit)
  /\ \A i \in DOMAIN e.queue : HitOK(e, e.queue[i])
  /\ \A i, j \in DOMAIN fr : InHandler(fr, i) /\ InHandler(fr, j) /\ i # j => fr[i].hit.stop # fr[j].hit.stop
  /\ \A i, j \in DOMAIN e.queue : i # j => e.queue[i].stop # e.queue[j].stop
  /\ \A i \in DOMAIN fr, j \in DOMAIN e.queue : InHandler(fr, i) => fr[i].hit.stop # e.queue[j].stop

-----------------------------------------------------------------------------
(* Objects and their functions *)

Kept(o) ==
  /\ {"kind", "state", "on", "running", "done", "kept", "slot", "want"} \subseteq DOMAIN o
  /\ Events \subseteq DOMAIN o.slot /\ Events \subseteq DOMAIN o.want
  /\ \A v \in Events : /\ o.slot[v] \in Slots \cup {NoSlot} /\ o.want[v] \in Nat
                       /\ o.slot[v] # NoSlot => o.want[v] # 0

\* No slot is two functions'.
ObjectsOK ==
  /\ made \in Nat
  /\ IsSeq(objs) /\ Slots \subseteq DOMAIN reg
  /\ \A i \in DOMAIN objs : Kept(objs[i])
  /\ \A i, j \in DOMAIN objs, v, w \in Events :
       objs[i].slot[v] # NoSlot /\ objs[i].slot[v] = objs[j].slot[w] => i = j /\ v = w

\* A running function: a thread's state is kept by the call, and runs once; a
\* closed widget's function stays in its slot until it returns.
CallOK(f) ==
  /\ f.obj \in DOMAIN objs /\ f.event \in Events
  /\ f.event = "run" => objs[f.obj].running /\ "call" \in objs[f.obj].kept
  /\ f.event = "close" /\ gui =>
       /\ objs[f.obj].state = "gone" /\ objs[f.obj].kind = "widget"
       /\ f.slot # NoSlot /\ objs[f.obj].slot["close"] = f.slot /\ objs[f.obj].want["close"] = f.fn

InCall(fr, i) == i \in DOMAIN fr /\ fr[i].k = "callback"

CallsOK(fr) ==
  /\ \A i \in DOMAIN fr : InCall(fr, i) => CallOK(fr[i])
  /\ \A i, j \in DOMAIN fr : InCall(fr, i) /\ InCall(fr, j) /\ i # j /\ fr[i].event = fr[j].event /\ fr[i].event \in {"run", "close"}
       => fr[i].obj # fr[j].obj

-----------------------------------------------------------------------------
(* Records *)

Now == lists[tab.list]

\* A reference of this list and table has a number that was given out, and
\* names the record it was made for unless that is deleted.
RefOK(ref) ==
  /\ ref.gen \in Nat /\ ref.rep \in Nat /\ ref.id \in Nat /\ ref.gen <= tab.gen
  /\ ref.gen = tab.gen =>
       /\ tab.list # None /\ ref.rep <= Now.gen
       /\ ref.rep = Now.gen => ref.id < Now.next /\ (ref.id \in DOMAIN Now.recs => Now.recs[ref.id] = ref.uid)

RecordsOK ==
  /\ {"list", "gen", "cbs", "cbsGen", "refs", "made", "bad"} \subseteq DOMAIN tab
  /\ tab.list \in Lists \cup {None} /\ tab.gen \in Nat /\ tab.made \in Nat /\ tab.cbsGen \in Int /\ tab.bad = FALSE
  /\ Lists \subseteq DOMAIN lists
  /\ \A l \in Lists :
       /\ {"gen", "recs", "next"} \subseteq DOMAIN lists[l]
       /\ lists[l].gen \in Nat /\ lists[l].next \in Nat
       /\ \A id \in DOMAIN lists[l].recs : id \in Nat /\ id < lists[l].next
  /\ \A ref \in tab.refs : RefOK(ref)
  /\ DOMAIN tab.cbs # {} =>
       /\ tab.list # None /\ tab.cbsGen <= Now.gen
       /\ tab.cbsGen = Now.gen =>
            \A id \in DOMAIN tab.cbs :
              id \in Nat /\ id < Now.next /\ (id \in DOMAIN Now.recs => tab.cbs[id] = Now.recs[id])

EngineInv == EngOK(eng) /\ IsSeq(frames) /\ HitsOK(eng, frames)
ScriptInv == ObjectsOK /\ SlotsOwned /\ CallsOK(frames)
IInv == EngineInv /\ ScriptInv /\ RecordsOK

-----------------------------------------------------------------------------
LEMMA UseLive ==
  ASSUME NEW e, NEW hs, Fields \subseteq DOMAIN e, e.bad = {}, hs \subseteq e.live
  PROVE  /\ DOMAIN Use(e, hs) = DOMAIN e
         /\ \A f \in Fields : Use(e, hs)[f] = e[f]
BY DEF Use, Fields

LEMMA EndSessionOK ==
  ASSUME NEW e, EngOK(e)
  PROVE  /\ DOMAIN EndSession(e) = DOMAIN e
         /\ \A f \in Fields \ {"sess"} : EndSession(e)[f] = e[f]
         /\ EndSession(e).sess = None
         /\ EngOK(EndSession(e))
<1>1. CASE e.sess = None
  BY <1>1 DEF EndSession
<1>2. CASE e.sess # None
  <2> DEFINE u == Use(e, {e.sess.of})
  <2>1. {e.sess.of} \subseteq e.live
    BY <1>2, LuaAssumption DEF EngOK, KeptOK, TargetOK
  <2>2. DOMAIN u = DOMAIN e /\ \A f \in Fields : u[f] = e[f]
    BY <2>1, UseLive DEF EngOK
  <2>3. EndSession(e) = [u EXCEPT !.sess = None]
    BY <1>2 DEF EndSession
  <2> DEFINE a == EndSession(e)
  <2> HIDE DEF u
  <2>4. DOMAIN a = DOMAIN e /\ (\A f \in Fields \ {"sess"} : a[f] = e[f]) /\ a.sess = None
    BY <2>2, <2>3 DEF EngOK, Fields
  <2> HIDE DEF a
  <2>5. EngOK(a)
    <3>1. a.proc = e.proc /\ a.owned = e.owned /\ a.client = e.client /\ a.reg = e.reg /\ a.win = e.win /\ a.live = e.live
          /\ a.clients = e.clients /\ a.n = e.n
      BY <2>4 DEF Fields
    <3>2. a.syms = e.syms /\ a.bps = e.bps /\ a.hooks = e.hooks /\ a.queue = e.queue /\ a.bad = e.bad /\ a.mixed = e.mixed
      BY <2>4 DEF Fields
    <3>3. TargetOK(a)
      BY <3>1 DEF EngOK, TargetOK
    <3>4. KeptOK(a)
      BY <3>1, <3>2, <2>4 DEF EngOK, KeptOK
    <3> QED BY <2>4, <3>2, <3>3, <3>4 DEF EngOK
  <2> QED BY <2>4, <2>5 DEF a
<1> QED BY <1>1, <1>2

-----------------------------------------------------------------------------
(* The engine's operations keep what they should *)

LEMMA NothingQueued == IsSeq(<<>>) /\ DOMAIN <<>> = {}
<1>1. <<>> \in Seq({})
  OBVIOUS
<1> QED BY <1>1 DEF IsSeq

\* An engine that differs in nothing is as good.
LEMMA SameFields ==
  ASSUME NEW e, NEW a, EngOK(e), Fields \subseteq DOMAIN a, \A f \in Fields : a[f] = e[f]
  PROVE  EngOK(a) /\ \A fr : HitsOK(e, fr) => HitsOK(a, fr)
<1>1. /\ a.proc = e.proc /\ a.owned = e.owned /\ a.client = e.client /\ a.reg = e.reg /\ a.win = e.win /\ a.live = e.live
      /\ a.clients = e.clients /\ a.n = e.n
  BY DEF Fields
<1>2. /\ a.syms = e.syms /\ a.bps = e.bps /\ a.hooks = e.hooks /\ a.queue = e.queue /\ a.bad = e.bad /\ a.mixed = e.mixed
      /\ a.sess = e.sess /\ a.dead = e.dead /\ a.excused = e.excused
  BY DEF Fields
<1>3. TargetOK(a)
  BY <1>1 DEF EngOK, TargetOK
<1>4. KeptOK(a)
  BY <1>1, <1>2 DEF EngOK, KeptOK
<1>5. EngOK(a)
  BY <1>2, <1>3, <1>4 DEF EngOK
<1>6. \A h : HitOK(e, h) => HitOK(a, h)
  BY <1>1, <1>2 DEF HitOK, Attached
<1>7. \A fr : HitsOK(e, fr) => HitsOK(a, fr)
  BY <1>2, <1>6 DEF HitsOK
<1> QED BY <1>5, <1>7

LEMMA UseKeeps ==
  ASSUME NEW e, NEW hs, EngOK(e), hs \subseteq e.live
  PROVE  /\ EngOK(Use(e, hs)) /\ \A fr : HitsOK(e, fr) => HitsOK(Use(e, hs), fr)
         /\ Fields \subseteq DOMAIN Use(e, hs) /\ \A f \in Fields : Use(e, hs)[f] = e[f]
<1>1. DOMAIN Use(e, hs) = DOMAIN e /\ \A f \in Fields : Use(e, hs)[f] = e[f]
  BY UseLive DEF EngOK
<1>2. Fields \subseteq DOMAIN Use(e, hs)
  BY <1>1 DEF EngOK
<1> QED BY <1>1, <1>2, SameFields

\* Hits stay good while the session they are of goes on, whatever gets old or
\* dies meanwhile.
LEMMA HitsKept ==
  ASSUME NEW e, NEW a, NEW fr, HitsOK(e, fr), e.n \in Nat, a.n \in Nat, e.n <= a.n, a.queue = e.queue,
         e.excused \subseteq a.excused, e.dead \subseteq a.dead, Attached(e) => a.sess = e.sess
  PROVE  HitsOK(a, fr)
<1>1. \A h : HitOK(e, h) => HitOK(a, h)
  <2> SUFFICES ASSUME NEW h, HitOK(e, h) PROVE HitOK(a, h)
    OBVIOUS
  <2>1. h.stop \in Nat /\ 0 < h.stop /\ h.stop <= a.n /\ h.gen \in Nat
    BY DEF HitOK
  <2>2. Attached(e) => Attached(a)
    BY DEF Attached
  <2> QED BY <2>1, <2>2 DEF HitOK
<1> QED BY <1>1 DEF HitsOK

\* Without a queue, when all hits in hand are old.
LEMMA HitsReset ==
  ASSUME NEW e, NEW a, HitsOK(e, frames), e.n \in Nat, a.n \in Nat, e.n <= a.n, a.queue = <<>>, InHand \subseteq a.excused
  PROVE  HitsOK(a, frames)
<1>1. \A i \in DOMAIN frames : InHandler(frames, i) => HitOK(a, frames[i].hit)
  <2> SUFFICES ASSUME NEW i \in DOMAIN frames, InHandler(frames, i) PROVE HitOK(a, frames[i].hit)
    OBVIOUS
  <2>1. frames[i].hit.stop \in a.excused
    BY DEF InHand, InHandler
  <2>2. HitOK(e, frames[i].hit)
    BY DEF HitsOK
  <2> QED BY <2>1, <2>2 DEF HitOK
<1> QED BY <1>1, NothingQueued DEF HitsOK

LEMMA ResetKeeps ==
  ASSUME NEW e, EngOK(e), HitsOK(e, frames)
  PROVE  LET r == ResetTarget(e) IN
         /\ EngOK(r) /\ HitsOK(r, frames)
         /\ \A f \in {"proc", "owned", "client", "reg", "win", "live", "clients", "dead", "n", "bad", "mixed"} : r[f] = e[f]
         /\ r.sess = None /\ r.queue = <<>> /\ r.hooks = {} /\ r.syms = None /\ r.bps = {} /\ InHand \subseteq r.excused
<1> DEFINE a == EndSession(e)
<1> DEFINE b == IF a.proc # None /\ a.hooks # {} THEN Use(a, {a.proc}) ELSE a
<1> DEFINE r == ResetTarget(e)
<1>1. /\ DOMAIN a = DOMAIN e /\ EngOK(a) /\ a.sess = None
      /\ \A f \in Fields \ {"sess"} : a[f] = e[f]
  BY EndSessionOK
<1> HIDE DEF a
<1>2. Fields \subseteq DOMAIN b /\ \A f \in Fields : b[f] = a[f]
  <2>1. CASE a.proc # None /\ a.hooks # {}
    <3>1. {a.proc} \subseteq a.live
      BY <1>1, <2>1, LuaAssumption DEF EngOK, TargetOK
    <3> QED BY <1>1, <2>1, <3>1, UseKeeps
  <2>2. CASE ~(a.proc # None /\ a.hooks # {})
    BY <1>1, <2>2 DEF EngOK
  <2> QED BY <2>1, <2>2
<1>3. r = [b EXCEPT !.queue = <<>>, !.hooks = {}, !.syms = None, !.loaded = FALSE, !.bps = {}, !.excused = @ \cup InHand]
  BY DEF ResetTarget, a
<1> HIDE DEF b, r
<1>4. /\ DOMAIN r = DOMAIN b
      /\ r.queue = <<>> /\ r.hooks = {} /\ r.syms = None /\ r.bps = {} /\ r.excused = b.excused \cup InHand
      /\ \A f \in Fields \ {"queue", "hooks", "syms", "loaded", "bps", "excused"} : r[f] = b[f]
  BY <1>2, <1>3 DEF Fields
<1>5. /\ r.proc = e.proc /\ r.owned = e.owned /\ r.client = e.client /\ r.reg = e.reg /\ r.win = e.win /\ r.live = e.live
      /\ r.clients = e.clients /\ r.n = e.n /\ r.dead = e.dead /\ r.bad = e.bad /\ r.mixed = e.mixed /\ r.sess = None
  BY <1>1, <1>2, <1>4 DEF Fields
<1>6. TargetOK(r)
  BY <1>5 DEF EngOK, TargetOK
<1>7. KeptOK(r)
  BY <1>4, <1>5, NothingQueued DEF KeptOK
<1>8. EngOK(r)
  BY <1>2, <1>4, <1>5, <1>6, <1>7 DEF EngOK
<1>9. HitsOK(r, frames)
  <2>1. e.n \in Nat
    BY DEF EngOK, TargetOK
  <2>2. r.n \in Nat /\ e.n <= r.n
    BY <2>1, <1>5
  <2> QED BY <1>4, <2>1, <2>2, HitsReset
<1> QED BY <1>4, <1>5, <1>8, <1>9 DEF r

\* A handle that exists, with its connection, is freed.
LEMMA FreeFields ==
  ASSUME NEW e, NEW h, Fields \subseteq DOMAIN e, e.bad = {},
         h # None => h \in e.live /\ (h.client # None => h.client \in e.clients),
         None \notin e.live
  PROVE  LET r == Free(e, h) IN
         /\ DOMAIN r = DOMAIN e /\ r.live = e.live \ {h} /\ r.bad = {}
         /\ \A f \in Fields \ {"live", "bad"} : r[f] = e[f]
<1>1. CASE h = None
  BY <1>1 DEF Free
<1>2. CASE h # None
  <2> DEFINE u == Use(e, {h})
  <2>1. DOMAIN u = DOMAIN e /\ \A f \in Fields : u[f] = e[f]
    BY <1>2, UseLive
  <2> DEFINE r == Free(e, h)
  <2>2. r = [u EXCEPT !.live = u.live \ {h}, !.bad = u.bad \cup {}]
    BY <1>2 DEF Free
  <2> HIDE DEF u, r
  <2>3. DOMAIN r = DOMAIN u /\ \A f \in Fields \ {"live", "bad"} : r[f] = u[f]
    BY <2>1, <2>2
  <2>4. r.live = u.live \ {h} /\ r.bad = u.bad \cup {}
    BY <2>1, <2>2 DEF Fields
  <2>5. u.live = e.live /\ u.bad = {}
    BY <2>1 DEF Fields
  <2> QED BY <2>1, <2>3, <2>4, <2>5 DEF r
<1> QED BY <1>1, <1>2

\* setProcess, for the window's own handle or none.
LEMMA SetProcessKeeps ==
  ASSUME NEW e, NEW h, EngOK(e), HitsOK(e, frames), h \in {None, e.win}
  PROVE  LET r == SetProcess(e, h) IN
         /\ EngOK(r) /\ HitsOK(r, frames)
         /\ r.proc = h /\ r.owned = None
         /\ \A f \in {"client", "win", "clients", "dead", "n"} : r[f] = e[f]
<1>1. CASE h = e.proc
  <2>1. SetProcess(e, h) = e
    BY <1>1 DEF SetProcess
  <2>2. e.owned = None
    BY <1>1, LuaAssumption DEF EngOK, TargetOK
  <2> QED BY <1>1, <2>1, <2>2
<1>2. CASE h # e.proc
  <2> DEFINE a == ResetTarget(e)
  <2> DEFINE b == Free(a, a.owned)
  <2> DEFINE r == SetProcess(e, h)
  <2>1. /\ EngOK(a) /\ HitsOK(a, frames)
        /\ \A f \in {"proc", "owned", "client", "reg", "win", "live", "clients", "dead", "n", "bad", "mixed"} : a[f] = e[f]
        /\ a.sess = None /\ a.queue = <<>> /\ a.hooks = {} /\ a.syms = None /\ a.bps = {} /\ InHand \subseteq a.excused
    BY ResetKeeps
  <2> HIDE DEF a
  <2>2. /\ Fields \subseteq DOMAIN a /\ a.bad = {} /\ None \notin a.live
        /\ a.owned # None => a.owned \in a.live /\ (a.owned.client # None => a.owned.client \in a.clients)
    BY <2>1 DEF EngOK, TargetOK
  <2>3. /\ DOMAIN b = DOMAIN a /\ b.live = a.live \ {a.owned} /\ b.bad = {}
        /\ \A f \in Fields \ {"live", "bad"} : b[f] = a[f]
    BY <2>2, FreeFields
  <2>4. r = [b EXCEPT !.owned = None, !.proc = h, !.reg = h]
    BY <1>2 DEF SetProcess, a
  <2> HIDE DEF b, r
  <2>5. /\ DOMAIN r = DOMAIN a /\ r.owned = None /\ r.proc = h /\ r.reg = h /\ r.live = a.live \ {a.owned} /\ r.bad = {}
        /\ \A f \in Fields \ {"live", "bad", "owned", "proc", "reg"} : r[f] = a[f]
    BY <2>2, <2>3, <2>4 DEF Fields
  <2>6. /\ r.client = e.client /\ r.win = e.win /\ r.clients = e.clients /\ r.n = e.n /\ r.dead = e.dead
        /\ r.mixed = a.mixed /\ r.sess = None /\ r.queue = <<>> /\ r.hooks = {} /\ r.syms = None /\ r.bps = {}
        /\ r.excused = a.excused
    BY <2>1, <2>5 DEF Fields
  <2>7. a.live = {e.owned, e.win} \ {None} /\ a.owned = e.owned /\ (e.owned # None => e.owned # e.win)
    BY <2>1 DEF EngOK, TargetOK
  <2>8. TargetOK(r)
    BY <2>5, <2>6, <2>7 DEF EngOK, TargetOK
  <2>9. KeptOK(r)
    BY <2>5, <2>6, NothingQueued DEF KeptOK
  <2>10. EngOK(r)
    BY <2>1, <2>2, <2>5, <2>6, <2>8, <2>9 DEF EngOK
  <2>11. HitsOK(r, frames)
    <3>1. a.n \in Nat /\ r.n \in Nat /\ a.n <= r.n
      BY <2>1, <2>6 DEF EngOK, TargetOK
    <3> QED BY <2>1, <2>6, <3>1, HitsReset
  <2> QED BY <2>5, <2>6, <2>10, <2>11 DEF r
<1> QED BY <1>1, <1>2

\* setOwnedProcess: the new handle needs no connection, or the engine's.
LEMMA SetOwnedKeeps ==
  ASSUME NEW e, NEW h \in Handles, EngOK(e), HitsOK(e, frames), h.kind # "host", h.client \in {None, e.client}
  PROVE  EngOK(SetOwnedProcess(e, h)) /\ HitsOK(SetOwnedProcess(e, h), frames)
<1> DEFINE a == ResetTarget(e)
<1> DEFINE b == Free(a, a.owned)
<1> DEFINE r == SetOwnedProcess(e, h)
<1>1. /\ EngOK(a) /\ HitsOK(a, frames)
      /\ \A f \in {"proc", "owned", "client", "reg", "win", "live", "clients", "dead", "n", "bad", "mixed"} : a[f] = e[f]
      /\ a.sess = None /\ a.queue = <<>> /\ a.hooks = {} /\ a.syms = None /\ a.bps = {} /\ InHand \subseteq a.excused
  BY ResetKeeps
<1> HIDE DEF a
<1>2. /\ Fields \subseteq DOMAIN a /\ a.bad = {} /\ None \notin a.live
      /\ a.owned # None => a.owned \in a.live /\ (a.owned.client # None => a.owned.client \in a.clients)
  BY <1>1 DEF EngOK, TargetOK
<1>3. /\ DOMAIN b = DOMAIN a /\ b.live = a.live \ {a.owned} /\ b.bad = {}
      /\ \A f \in Fields \ {"live", "bad"} : b[f] = a[f]
  BY <1>2, FreeFields
<1>4. r = [b EXCEPT !.owned = h, !.proc = h, !.reg = h, !.live = @ \cup {h}]
  BY DEF SetOwnedProcess, a
<1> HIDE DEF b, r
<1>5. /\ DOMAIN r = DOMAIN a /\ r.owned = h /\ r.proc = h /\ r.reg = h /\ r.live = (a.live \ {a.owned}) \cup {h}
      /\ r.bad = {}
      /\ \A f \in Fields \ {"live", "bad", "owned", "proc", "reg"} : r[f] = a[f]
  BY <1>2, <1>3, <1>4 DEF Fields
<1>6. /\ r.client = e.client /\ r.win = e.win /\ r.clients = e.clients /\ r.n = e.n /\ r.dead = e.dead
      /\ r.mixed = a.mixed /\ r.sess = None /\ r.queue = <<>> /\ r.hooks = {} /\ r.syms = None /\ r.bps = {}
      /\ r.excused = a.excused
  BY <1>1, <1>5 DEF Fields
<1>7. a.live = {e.owned, e.win} \ {None} /\ a.owned = e.owned /\ (e.owned # None => e.owned # e.win)
  BY <1>1 DEF EngOK, TargetOK
<1>8. h # None
  BY LuaAssumption
<1>9. TargetOK(r)
  BY <1>5, <1>6, <1>7, <1>8 DEF EngOK, TargetOK
<1>10. KeptOK(r)
  BY <1>5, <1>6, NothingQueued DEF KeptOK
<1>11. EngOK(r)
  BY <1>1, <1>2, <1>5, <1>6, <1>9, <1>10 DEF EngOK
<1>12. HitsOK(r, frames)
  <2>1. a.n \in Nat /\ r.n \in Nat /\ a.n <= r.n
    BY <1>1, <1>6 DEF EngOK, TargetOK
  <2> QED BY <1>1, <1>6, <2>1, HitsReset
<1> QED BY <1>11, <1>12 DEF r

\* setOwnedCeserverClient lets go of the target, then of the old connection.
LEMMA SetClientKeeps ==
  ASSUME NEW e, NEW c \in Nat \cup {None}, EngOK(e), HitsOK(e, frames)
  PROVE  LET r == SetOwnedCeserverClient(e, c) IN
         /\ EngOK(r) /\ HitsOK(r, frames) /\ r.client = c /\ r.n = e.n /\ r.proc = None
         /\ r.owned = None /\ r.win = e.win
<1> DEFINE a == SetProcess(e, None)
<1> DEFINE r == SetOwnedCeserverClient(e, c)
<1>1. /\ EngOK(a) /\ HitsOK(a, frames) /\ a.proc = None /\ a.owned = None
      /\ \A f \in {"client", "win", "clients", "dead", "n"} : a[f] = e[f]
  BY SetProcessKeeps
<1>2. r = [a EXCEPT !.client = c, !.clients = (a.clients \ {e.client}) \cup ({c} \ {None})]
  BY DEF SetOwnedCeserverClient
<1> HIDE DEF a, r
<1>3. Fields \subseteq DOMAIN a
  BY <1>1 DEF EngOK
<1>4. /\ DOMAIN r = DOMAIN a /\ r.client = c /\ r.clients = (a.clients \ {e.client}) \cup ({c} \ {None})
      /\ \A f \in Fields \ {"client", "clients"} : r[f] = a[f]
  BY <1>2, <1>3 DEF Fields
<1>5. /\ r.proc = a.proc /\ r.owned = a.owned /\ r.reg = a.reg /\ r.win = a.win /\ r.live = a.live /\ r.n = a.n
      /\ r.syms = a.syms /\ r.bps = a.bps /\ r.hooks = a.hooks /\ r.queue = a.queue /\ r.bad = a.bad /\ r.mixed = a.mixed
      /\ r.sess = a.sess /\ r.dead = a.dead /\ r.excused = a.excused
  BY <1>4 DEF Fields
<1>6. TargetOK(r)
  BY <1>1, <1>4, <1>5 DEF EngOK, TargetOK
<1>7. KeptOK(r)
  BY <1>1, <1>5 DEF EngOK, KeptOK
<1>8. EngOK(r)
  BY <1>1, <1>3, <1>4, <1>5, <1>6, <1>7 DEF EngOK
<1>9. HitsOK(r, frames)
  <2>1. a.n \in Nat /\ r.n \in Nat /\ a.n <= r.n
    BY <1>1, <1>5 DEF EngOK, TargetOK
  <2> QED BY <1>1, <1>5, <2>1, HitsKept
<1> QED BY <1>1, <1>4, <1>5, <1>8, <1>9 DEF r

\* Numbers given out.
LEMMA CountKeeps ==
  ASSUME NEW e, NEW m \in Nat, EngOK(e), HitsOK(e, frames), e.n <= m
  PROVE  LET r == [e EXCEPT !.n = m] IN
         EngOK(r) /\ HitsOK(r, frames) /\ r.n = m /\ \A f \in Fields \ {"n"} : r[f] = e[f]
<1> DEFINE r == [e EXCEPT !.n = m]
<1>1. DOMAIN r = DOMAIN e /\ r.n = m /\ \A f \in Fields \ {"n"} : r[f] = e[f]
  BY DEF EngOK, Fields
<1> HIDE DEF r
<1>2. /\ r.proc = e.proc /\ r.owned = e.owned /\ r.client = e.client /\ r.reg = e.reg /\ r.win = e.win /\ r.live = e.live
      /\ r.clients = e.clients /\ r.syms = e.syms /\ r.bps = e.bps /\ r.hooks = e.hooks /\ r.queue = e.queue
      /\ r.bad = e.bad /\ r.mixed = e.mixed /\ r.sess = e.sess /\ r.dead = e.dead /\ r.excused = e.excused
  BY <1>1 DEF Fields
<1>3. TargetOK(r)
  BY <1>1, <1>2 DEF EngOK, TargetOK
<1>4. KeptOK(r)
  <2>1. e.n \in Nat /\ \A x \in Nat : x <= e.n => x <= m
    BY DEF EngOK, TargetOK
  <2>2. e.sess # None => e.sess.stop \in Nat
    BY DEF EngOK, KeptOK, Sessions
  <2> QED BY <1>1, <1>2, <2>1, <2>2 DEF EngOK, KeptOK
<1>5. EngOK(r)
  BY <1>1, <1>2, <1>3, <1>4 DEF EngOK
<1>6. HitsOK(r, frames)
  <2>1. e.n \in Nat /\ r.n \in Nat /\ e.n <= r.n
    BY <1>1 DEF EngOK, TargetOK
  <2> QED BY <1>2, <2>1, HitsKept
<1> QED BY <1>1, <1>5, <1>6 DEF r

\* What is kept of the target changes: hooks, symbols and listed breakpoints.
LEMMA NotesKeep ==
  ASSUME NEW e, NEW r, NEW fr, EngOK(e), HitsOK(e, fr), DOMAIN r = DOMAIN e,
         \A f \in Fields \ {"hooks", "syms", "loaded", "bps"} : r[f] = e[f],
         r.hooks \subseteq {e.proc}, r.syms \in {None, e.proc}, r.bps \subseteq {None, e.proc}
  PROVE  EngOK(r) /\ HitsOK(r, fr)
<1>1. /\ r.proc = e.proc /\ r.owned = e.owned /\ r.client = e.client /\ r.reg = e.reg /\ r.win = e.win /\ r.live = e.live
      /\ r.clients = e.clients /\ r.n = e.n /\ r.queue = e.queue
      /\ r.bad = e.bad /\ r.mixed = e.mixed /\ r.sess = e.sess /\ r.dead = e.dead /\ r.excused = e.excused
  BY DEF Fields
<1>2. TargetOK(r)
  BY <1>1 DEF EngOK, TargetOK
<1>3. KeptOK(r)
  BY <1>1 DEF EngOK, KeptOK
<1>4. EngOK(r)
  BY <1>1, <1>2, <1>3 DEF EngOK
<1>5. HitsOK(r, fr)
  <2>1. e.n \in Nat /\ r.n \in Nat /\ e.n <= r.n
    BY <1>1 DEF EngOK, TargetOK
  <2> QED BY <1>1, <2>1, HitsKept
<1> QED BY <1>4, <1>5

\* The first symbol lookup.
LEMMA LoadKeeps ==
  ASSUME NEW e, NEW fr, EngOK(e), HitsOK(e, fr)
  PROVE  /\ EngOK(LoadSymbols(e)) /\ HitsOK(LoadSymbols(e), fr)
         /\ LoadSymbols(e).reg = e.reg /\ LoadSymbols(e).proc = e.proc /\ LoadSymbols(e).live = e.live
<1>1. CASE e.syms = None /\ ~e.loaded /\ e.reg # None
  <2> DEFINE u == Use(e, {e.reg})
  <2> DEFINE r == LoadSymbols(e)
  <2>1. {e.reg} \subseteq e.live /\ e.reg = e.proc
    BY <1>1, LuaAssumption DEF EngOK, TargetOK
  <2>2. EngOK(u) /\ HitsOK(u, fr) /\ Fields \subseteq DOMAIN u /\ \A f \in Fields : u[f] = e[f]
    BY <2>1, UseKeeps
  <2>3. r = [u EXCEPT !.syms = e.reg, !.loaded = TRUE]
    BY <1>1 DEF LoadSymbols
  <2> HIDE DEF u, r
  <2>4. /\ DOMAIN r = DOMAIN u /\ r.syms = e.reg
        /\ \A f \in Fields \ {"hooks", "syms", "loaded", "bps"} : r[f] = u[f]
        /\ r.hooks = u.hooks /\ r.bps = u.bps
    BY <2>2, <2>3 DEF Fields
  <2>5. /\ u.hooks \subseteq {u.proc} /\ u.bps \subseteq {None, u.proc} /\ r.proc = u.proc /\ u.proc = e.proc
        /\ r.reg = e.reg /\ r.live = e.live
    BY <2>2, <2>4 DEF EngOK, KeptOK, Fields
  <2>6. EngOK(r) /\ HitsOK(r, fr)
    BY <2>1, <2>2, <2>4, <2>5, NotesKeep
  <2> QED BY <2>5, <2>6 DEF r
<1>2. CASE ~(e.syms = None /\ ~e.loaded /\ e.reg # None)
  BY <1>2 DEF LoadSymbols
<1> QED BY <1>1, <1>2

LEMMA OnTargetKeeps ==
  ASSUME NEW e, NEW fr, EngOK(e), HitsOK(e, fr)
  PROVE  EngOK(OnTarget(e)) /\ HitsOK(OnTarget(e), fr) /\ OnTarget(e).proc = e.proc
<1>1. e.reg # None => {e.reg} \subseteq e.live
  BY LuaAssumption DEF EngOK, TargetOK
<1>2. "proc" \in Fields
  BY DEF Fields
<1> QED BY <1>1, <1>2, UseKeeps DEF OnTarget

-----------------------------------------------------------------------------
(* The debug session *)

LEMMA DebugKeeps ==
  ASSUME NEW e, NEW a, NEW fr, EngOK(e), HitsOK(e, fr), a \in DebugSession(e)
  PROVE  /\ EngOK(a) /\ HitsOK(a, fr)
         /\ \A f \in Fields \ {"sess", "n"} : a[f] = e[f]
<1>1. CASE Attached(e)
  BY <1>1 DEF DebugSession
<1>2. CASE ~Attached(e)
  <2> DEFINE b == EndSession(e)
  <2>1. /\ DOMAIN b = DOMAIN e /\ EngOK(b) /\ b.sess = None
        /\ \A f \in Fields \ {"sess"} : b[f] = e[f]
    BY EndSessionOK
  <2>2. a = b \/ (/\ b.proc # None /\ b.proc.pid \notin b.dead
                  /\ a = [Use(b, {b.proc}) EXCEPT
                            !.n = @ + 1, !.sess = [of |-> b.proc, attached |-> TRUE, gen |-> 0, stop |-> b.n + 1,
                                                   first |-> b.n + 1]])
    BY <1>2 DEF DebugSession
  <2> HIDE DEF b
  <2>3. e.n \in Nat /\ b.n = e.n /\ b.queue = e.queue /\ b.excused = e.excused /\ b.dead = e.dead
    BY <2>1 DEF EngOK, TargetOK, Fields
  <2>4. HitsOK(b, fr)
    BY <1>2, <2>3, HitsKept
  <2>5. CASE a = b
    BY <2>1, <2>4, <2>5
  <2>6. CASE /\ b.proc # None /\ b.proc.pid \notin b.dead
             /\ a = [Use(b, {b.proc}) EXCEPT
                       !.n = @ + 1, !.sess = [of |-> b.proc, attached |-> TRUE, gen |-> 0, stop |-> b.n + 1,
                                              first |-> b.n + 1]]
    <3> DEFINE u == Use(b, {b.proc})
    <3> DEFINE s == [of |-> b.proc, attached |-> TRUE, gen |-> 0, stop |-> b.n + 1, first |-> b.n + 1]
    <3>1. {b.proc} \subseteq b.live
      BY <2>1, <2>6, LuaAssumption DEF EngOK, TargetOK
    <3>2. Fields \subseteq DOMAIN u /\ \A f \in Fields : u[f] = b[f]
      BY <2>1, <3>1, UseKeeps
    <3>3. a = [u EXCEPT !.n = u.n + 1, !.sess = s]
      BY <2>6
    <3> HIDE DEF u
    <3>4. /\ DOMAIN a = DOMAIN u /\ a.n = u.n + 1 /\ a.sess = s
          /\ \A f \in Fields \ {"n", "sess"} : a[f] = u[f]
      BY <3>2, <3>3 DEF Fields
    <3>5. u.n = b.n
      BY <3>2 DEF Fields
    <3>6. /\ a.proc = b.proc /\ a.owned = b.owned /\ a.client = b.client /\ a.reg = b.reg /\ a.win = b.win
          /\ a.live = b.live /\ a.clients = b.clients /\ a.syms = b.syms /\ a.bps = b.bps /\ a.hooks = b.hooks
          /\ a.queue = b.queue /\ a.bad = b.bad /\ a.mixed = b.mixed /\ a.dead = b.dead /\ a.excused = b.excused
      BY <3>2, <3>4 DEF Fields
    <3>7. a.n \in Nat /\ b.n \in Nat /\ b.n <= a.n /\ a.n = b.n + 1
      BY <2>3, <3>4, <3>5
    <3>8. TargetOK(a)
      BY <2>1, <3>6, <3>7 DEF EngOK, TargetOK
    <3>9. /\ a.sess.of = a.proc /\ a.proc # None /\ a.sess \in Sessions
          /\ a.sess.stop <= a.n /\ a.proc.pid \notin a.dead
      <4>1. b.proc \in Handles
        BY <2>1, <2>6 DEF EngOK, TargetOK
      <4> QED BY <2>6, <3>4, <3>6, <3>7, <4>1 DEF Sessions
    <3>10. KeptOK(a)
      BY <2>1, <3>6, <3>9 DEF EngOK, KeptOK
    <3>11. EngOK(a)
      BY <2>1, <3>2, <3>4, <3>6, <3>8, <3>10 DEF EngOK
    <3>12. HitsOK(a, fr)
      <4>1. ~Attached(b)
        BY <2>1 DEF Attached
      <4> QED BY <2>4, <3>6, <3>7, <4>1, HitsKept
    <3>13. \A f \in Fields \ {"sess", "n"} : a[f] = e[f]
      BY <2>1, <3>2, <3>4
    <3> QED BY <3>11, <3>12, <3>13
  <2> QED BY <2>2, <2>5, <2>6
<1> QED BY <1>1, <1>2

\* The program goes on.
LEMMA ContinueFields ==
  ASSUME NEW e, EngOK(e), Attached(e)
  PROVE  LET r == Continue(e) IN
         /\ EngOK(r) /\ Attached(r) /\ DOMAIN r = DOMAIN e
         /\ \A f \in Fields \ {"sess"} : r[f] = e[f]
         /\ r.sess.of = e.sess.of /\ r.sess.gen = e.sess.gen /\ r.sess.stop = 0
<1> DEFINE r == Continue(e)
<1>1. r = [e EXCEPT !.sess = [e.sess EXCEPT !.stop = 0]]
  BY DEF Continue
<1> HIDE DEF r
<1>2. e.sess # None /\ e.sess.attached /\ e.sess \in Sessions
  BY DEF EngOK, KeptOK, Attached
<1>3. /\ DOMAIN r = DOMAIN e /\ r.sess = [e.sess EXCEPT !.stop = 0]
      /\ \A f \in Fields \ {"sess"} : r[f] = e[f]
  BY <1>1 DEF EngOK, Fields
<1>4. /\ r.sess.of = e.sess.of /\ r.sess.gen = e.sess.gen /\ r.sess.stop = 0 /\ r.sess.attached = e.sess.attached
      /\ r.sess \in Sessions
  <2>1. 0 \in Nat
    OBVIOUS
  <2> DEFINE s == r.sess
  <2>2. s = [e.sess EXCEPT !.stop = 0]
    BY <1>3
  <2> HIDE DEF s
  <2>3. s.of = e.sess.of /\ s.gen = e.sess.gen /\ s.stop = 0
    BY <1>2, <2>2 DEF Sessions
  <2>4. s.attached = e.sess.attached
    BY <1>2, <2>2 DEF Sessions
  <2>5. s \in Sessions
    BY <1>2, <2>1, <2>2 DEF Sessions
  <2> QED BY <2>3, <2>4, <2>5 DEF s
<1>5. /\ r.proc = e.proc /\ r.owned = e.owned /\ r.client = e.client /\ r.reg = e.reg /\ r.win = e.win /\ r.live = e.live
      /\ r.clients = e.clients /\ r.syms = e.syms /\ r.bps = e.bps /\ r.hooks = e.hooks /\ r.queue = e.queue
      /\ r.bad = e.bad /\ r.mixed = e.mixed /\ r.dead = e.dead /\ r.excused = e.excused /\ r.n = e.n
  BY <1>3 DEF Fields
<1>6. TargetOK(r)
  BY <1>5 DEF EngOK, TargetOK
<1>7. KeptOK(r)
  <2>1. e.n \in Nat /\ 0 <= e.n
    BY DEF EngOK, TargetOK
  <2> QED BY <1>2, <1>4, <1>5, <2>1 DEF EngOK, KeptOK
<1>8. EngOK(r)
  BY <1>3, <1>5, <1>6, <1>7 DEF EngOK
<1>9. r.sess # None
  BY <1>4, LuaAssumption
<1> QED BY <1>2, <1>3, <1>4, <1>8, <1>9 DEF Attached, r

LEMMA ExcuseFields ==
  ASSUME NEW e, EngOK(e), HitsOK(e, frames)
  PROVE  LET r == Excuse(e) IN
         /\ EngOK(r) /\ HitsOK(r, frames) /\ DOMAIN r = DOMAIN e
         /\ \A f \in Fields \ {"excused"} : r[f] = e[f]
         /\ InHand \subseteq r.excused /\ \A i \in DOMAIN e.queue : e.queue[i].stop \in r.excused
<1> DEFINE r == Excuse(e)
<1>1. /\ DOMAIN r = DOMAIN e
      /\ \A f \in Fields \ {"excused"} : r[f] = e[f]
      /\ r.excused = e.excused \cup InHand \cup {e.queue[i].stop : i \in DOMAIN e.queue}
  BY DEF Excuse, EngOK, Fields
<1> HIDE DEF r
<1>2. /\ r.proc = e.proc /\ r.owned = e.owned /\ r.client = e.client /\ r.reg = e.reg /\ r.win = e.win /\ r.live = e.live
      /\ r.clients = e.clients /\ r.syms = e.syms /\ r.bps = e.bps /\ r.hooks = e.hooks /\ r.queue = e.queue
      /\ r.bad = e.bad /\ r.mixed = e.mixed /\ r.dead = e.dead /\ r.sess = e.sess /\ r.n = e.n
  BY <1>1 DEF Fields
<1>3. TargetOK(r)
  BY <1>2 DEF EngOK, TargetOK
<1>4. KeptOK(r)
  BY <1>2 DEF EngOK, KeptOK
<1>5. EngOK(r)
  BY <1>1, <1>2, <1>3, <1>4 DEF EngOK
<1>6. HitsOK(r, frames)
  <2>1. e.n \in Nat /\ r.n \in Nat /\ e.n <= r.n
    BY <1>2 DEF EngOK, TargetOK
  <2> QED BY <1>1, <1>2, <2>1, HitsKept
<1> QED BY <1>1, <1>5, <1>6 DEF r

\* A script lets the program go on: every hit reported so far is old.
LEMMA LetGoKeeps ==
  ASSUME NEW e, EngOK(e), HitsOK(e, frames), Attached(e)
  PROVE  LET r == Continue(Excuse(e)) IN
         /\ EngOK(r) /\ HitsOK(r, frames) /\ DOMAIN r = DOMAIN e
         /\ \A f \in Fields \ {"excused", "sess"} : r[f] = e[f]
         /\ r.sess.of = e.sess.of
<1> DEFINE x == Excuse(e)
<1> DEFINE r == Continue(x)
<1>1. /\ EngOK(x) /\ HitsOK(x, frames) /\ DOMAIN x = DOMAIN e
      /\ \A f \in Fields \ {"excused"} : x[f] = e[f]
      /\ InHand \subseteq x.excused /\ \A i \in DOMAIN e.queue : e.queue[i].stop \in x.excused
  BY ExcuseFields
<1> HIDE DEF x
<1>2. Attached(x) /\ x.sess = e.sess /\ x.queue = e.queue
  BY <1>1 DEF Attached, Fields
<1>3. /\ EngOK(r) /\ Attached(r) /\ DOMAIN r = DOMAIN x
      /\ \A f \in Fields \ {"sess"} : r[f] = x[f]
      /\ r.sess.of = x.sess.of
  BY <1>1, <1>2, ContinueFields
<1> HIDE DEF r
<1>4. r.n = x.n /\ r.queue = x.queue /\ r.excused = x.excused
  BY <1>3 DEF Fields
<1>5. \A h : HitOK(x, h) /\ h.stop \in x.excused => HitOK(r, h)
  BY <1>4 DEF HitOK
<1>6. \A i \in DOMAIN frames : InHandler(frames, i) => frames[i].hit.stop \in x.excused
  BY <1>1 DEF InHand, InHandler
<1>7. HitsOK(r, frames)
  BY <1>1, <1>2, <1>4, <1>5, <1>6 DEF HitsOK
<1> QED BY <1>1, <1>2, <1>3, <1>7 DEF r, x

\* Handlers return, other calls come and go.
LEMMA FewerHandlers ==
  ASSUME NEW e, NEW fr, HitsOK(e, frames),
         \A i \in DOMAIN fr : InHandler(fr, i) => i \in DOMAIN frames /\ fr[i] = frames[i]
  PROVE  HitsOK(e, fr)
<1>1. \A i \in DOMAIN fr : InHandler(fr, i) => InHandler(frames, i) /\ fr[i] = frames[i]
  BY DEF InHandler
<1> QED BY <1>1 DEF HitsOK, InHandler

\* The handler of a hit is done: other is what is left of the stack.
Done(fr) == \A i \in DOMAIN fr : InHandler(fr, i) => i \in DOMAIN frames /\ i # Len(frames) /\ fr[i] = frames[i]

LEMMA ResumeKeeps ==
  ASSUME NEW e, NEW fr, EngOK(e), HitsOK(e, frames), Attached(e), IsSeq(frames), ~Idle, Top.k = "handler", Done(fr)
  PROVE  EngOK(Resume(e, Top.hit)) /\ HitsOK(Resume(e, Top.hit), fr)
<1> DEFINE hit == Top.hit
<1> DEFINE last == Len(frames)
<1> DEFINE r == Resume(e, hit)
<1>1. InHandler(frames, last) /\ hit = frames[last].hit
  <2>1. Len(frames) \in DOMAIN frames
    BY DEF IsSeq, Idle
  <2> QED BY <2>1 DEF InHandler, Top, Last
<1>2. CASE hit.stop = e.sess.stop
  <2>1. r = Continue(e)
    BY <1>2 DEF Resume
  <2>2. /\ EngOK(r) /\ Attached(r)
        /\ \A f \in Fields \ {"sess"} : r[f] = e[f]
        /\ r.sess.of = e.sess.of /\ r.sess.gen = e.sess.gen /\ r.sess.stop = 0
    BY <2>1, ContinueFields
  <2> HIDE DEF r
  <2>3. r.n = e.n /\ r.queue = e.queue /\ r.excused = e.excused /\ r.dead = e.dead
    BY <2>2 DEF Fields
  <2>4. \A h : HitOK(e, h) /\ h.stop # hit.stop => HitOK(r, h)
    BY <1>2, <2>2, <2>3 DEF HitOK
  <2> HIDE DEF hit, last
  <2>5. \A i \in DOMAIN fr : InHandler(fr, i) => InHandler(frames, i) /\ i # last /\ fr[i] = frames[i]
    BY DEF Done, InHandler, last
  <2>6. \A i \in DOMAIN fr : InHandler(fr, i) => HitOK(e, fr[i].hit) /\ fr[i].hit.stop # hit.stop
    BY <1>1, <2>5 DEF HitsOK, InHandler
  <2>7. \A i \in DOMAIN e.queue : HitOK(e, e.queue[i]) /\ e.queue[i].stop # hit.stop
    BY <1>1 DEF HitsOK, InHandler
  <2>8. HitsOK(r, fr)
    BY <2>3, <2>4, <2>5, <2>6, <2>7 DEF HitsOK, InHandler
  <2> QED BY <2>2, <2>8 DEF r, hit
<1>3. CASE hit.stop # e.sess.stop
  <2>1. r = Continue(Excuse(e))
    BY <1>3 DEF Resume
  <2>2. EngOK(r) /\ HitsOK(r, frames)
    BY <2>1, LetGoKeeps
  <2>3. HitsOK(r, fr)
    BY <2>2, FewerHandlers DEF Done
  <2> QED BY <2>2, <2>3
<1> QED BY <1>2, <1>3

-----------------------------------------------------------------------------
(* The stack of calls *)

LEMMA Pushed ==
  ASSUME NEW s, NEW f, IsSeq(s)
  PROVE  LET t == Append(s, f) IN
         /\ IsSeq(t) /\ Len(s) \in Nat /\ Len(t) = Len(s) + 1
         /\ DOMAIN t = DOMAIN s \cup {Len(s) + 1} /\ Len(s) + 1 \notin DOMAIN s
         /\ \A i \in DOMAIN s : t[i] = s[i]
         /\ t[Len(s) + 1] = f
<1> DEFINE t == Append(s, f)
<1>1. PICK S : s \in Seq(S)
  BY DEF IsSeq
<1>2. s \in Seq(S \cup {f}) /\ f \in S \cup {f}
  BY <1>1
<1>3. t \in Seq(S \cup {f})
  BY <1>2
<1>4. Len(s) \in Nat /\ Len(t) = Len(s) + 1 /\ DOMAIN s = 1 .. Len(s) /\ DOMAIN t = 1 .. Len(s) + 1
  BY <1>2
<1>5. (\A i \in DOMAIN s : t[i] = s[i]) /\ t[Len(s) + 1] = f
  BY <1>2, <1>4
<1> QED BY <1>3, <1>4, <1>5 DEF IsSeq

LEMMA Popped ==
  ASSUME NEW s, IsSeq(s), s # <<>>
  PROVE  LET t == Front(s) IN
         /\ IsSeq(t) /\ Len(s) \in Nat /\ Len(t) = Len(s) - 1
         /\ DOMAIN t = DOMAIN s \ {Len(s)} /\ Len(s) \in DOMAIN s
         /\ \A i \in DOMAIN t : t[i] = s[i]
<1> DEFINE t == Front(s)
<1>1. PICK S : s \in Seq(S)
  BY DEF IsSeq
<1>2. Len(s) \in Nat /\ Len(s) > 0 /\ DOMAIN s = 1 .. Len(s)
  BY <1>1
<1>3. t = SubSeq(s, 1, Len(s) - 1)
  BY DEF Front
<1>4. t \in Seq(S) /\ Len(t) = Len(s) - 1 /\ \A i \in 1 .. Len(s) - 1 : t[i] = s[i]
  BY <1>1, <1>2, <1>3
<1> HIDE DEF t
<1>5. DOMAIN t = 1 .. Len(s) - 1
  BY <1>2, <1>4
<1>6. DOMAIN t = DOMAIN s \ {Len(s)} /\ Len(s) \in DOMAIN s
  BY <1>2, <1>5
<1>7. IsSeq(t)
  BY <1>4 DEF IsSeq
<1> QED BY <1>2, <1>4, <1>5, <1>6, <1>7 DEF t

LEMMA Swapped ==
  ASSUME NEW s, NEW f, IsSeq(s), s # <<>>
  PROVE  LET t == Append(Front(s), f) IN
         /\ IsSeq(t) /\ DOMAIN t = DOMAIN s /\ Len(s) \in DOMAIN s
         /\ \A i \in DOMAIN s \ {Len(s)} : t[i] = s[i]
         /\ t[Len(s)] = f
<1> DEFINE u == Front(s)
<1> DEFINE t == Append(u, f)
<1>1. /\ IsSeq(u) /\ Len(s) \in Nat /\ Len(u) = Len(s) - 1
      /\ DOMAIN u = DOMAIN s \ {Len(s)} /\ Len(s) \in DOMAIN s
      /\ \A i \in DOMAIN u : u[i] = s[i]
  BY Popped
<1> HIDE DEF u
<1>2. /\ IsSeq(t) /\ Len(t) = Len(u) + 1
      /\ DOMAIN t = DOMAIN u \cup {Len(u) + 1}
      /\ \A i \in DOMAIN u : t[i] = u[i]
      /\ t[Len(u) + 1] = f
  BY <1>1, Pushed
<1> HIDE DEF t
<1>3. Len(u) + 1 = Len(s)
  BY <1>1
<1>4. DOMAIN t = DOMAIN s
  BY <1>1, <1>2, <1>3
<1> QED BY <1>1, <1>2, <1>3, <1>4 DEF t, u

\* The calls on the stack that a step leaves there are the ones it found.
Old(kind) == \A i \in DOMAIN frames' : frames'[i].k = kind => i \in DOMAIN frames /\ frames'[i] = frames[i]

LEMMA StackStep ==
  ASSUME IsSeq(frames), NEW f, NEW kind, f.k # kind,
         \/ frames' = frames
         \/ frames' = Append(frames, f)
         \/ ~Idle /\ (frames' = Front(frames) \/ frames' = Append(Front(frames), f))
  PROVE  IsSeq(frames') /\ Old(kind)
<1>1. CASE frames' = frames
  BY <1>1 DEF Old
<1>2. CASE frames' = Append(frames, f)
  <2>1. /\ IsSeq(frames')
        /\ DOMAIN frames' = DOMAIN frames \cup {Len(frames) + 1}
        /\ \A i \in DOMAIN frames : frames'[i] = frames[i]
        /\ frames'[Len(frames) + 1] = f
    BY <1>2, Pushed
  <2> QED BY <2>1 DEF Old
<1>3. CASE ~Idle /\ frames' = Front(frames)
  <2>1. frames # <<>>
    BY <1>3 DEF Idle
  <2>2. /\ IsSeq(frames')
        /\ DOMAIN frames' = DOMAIN frames \ {Len(frames)}
        /\ \A i \in DOMAIN frames' : frames'[i] = frames[i]
    BY <1>3, <2>1, Popped
  <2> QED BY <2>2 DEF Old
<1>4. CASE ~Idle /\ frames' = Append(Front(frames), f)
  <2>1. frames # <<>>
    BY <1>4 DEF Idle
  <2>2. /\ IsSeq(frames') /\ DOMAIN frames' = DOMAIN frames
        /\ \A i \in DOMAIN frames \ {Len(frames)} : frames'[i] = frames[i]
        /\ frames'[Len(frames)] = f
    <3> DEFINE t == Append(Front(frames), f)
    <3>1. /\ IsSeq(t) /\ DOMAIN t = DOMAIN frames /\ Len(frames) \in DOMAIN frames
          /\ \A i \in DOMAIN frames \ {Len(frames)} : t[i] = frames[i]
          /\ t[Len(frames)] = f
      BY <2>1, Swapped, Zenon
    <3> HIDE DEF t
    <3>2. frames' = t
      BY <1>4 DEF t
    <3> QED BY <3>1, <3>2
  <2> QED BY <2>2 DEF Old
<1> QED BY <1>1, <1>2, <1>3, <1>4

LEMMA EngineStep ==
  ASSUME EngOK(eng'), HitsOK(eng', frames), IsSeq(frames'), Old("handler")
  PROVE  EngineInv'
<1>1. \A i \in DOMAIN frames' : InHandler(frames', i) => i \in DOMAIN frames /\ frames'[i] = frames[i]
  BY DEF Old, InHandler
<1>2. HitsOK(eng', frames')
  BY <1>1, FewerHandlers
<1> QED BY <1>2 DEF EngineInv

LEMMA EngineOnly ==
  ASSUME EngineInv, EngOK(eng'), HitsOK(eng', frames), frames' = frames
  PROVE  EngineInv' /\ Old("callback")
<1>1. Old("handler") /\ Old("callback") /\ IsSeq(frames')
  BY DEF Old, EngineInv
<1> QED BY <1>1, EngineStep

-----------------------------------------------------------------------------
(* The actions *)

LEMMA HostKeeps == ASSUME EngineInv, HostSwitch PROVE EngineInv' /\ Old("callback")
<1> DEFINE a == SetProcess(eng, None)
<1> DEFINE b == Free(a, eng.win)
<1>1. PICK pid \in Pids :
        LET h == Handle(b.n + 1, "host", pid, None)
        IN  eng' = SetProcess([b EXCEPT !.n = @ + 1, !.win = h, !.live = @ \cup {h}], h)
  BY DEF HostSwitch
<1> DEFINE h == Handle(b.n + 1, "host", pid, None)
<1> DEFINE c == [b EXCEPT !.n = b.n + 1, !.win = h, !.live = b.live \cup {h}]
<1>2. eng' = SetProcess(c, h)
  BY <1>1
<1>3. EngOK(eng) /\ HitsOK(eng, frames) /\ frames' = frames
  BY DEF EngineInv, HostSwitch
<1>4. /\ EngOK(a) /\ HitsOK(a, frames) /\ a.proc = None /\ a.owned = None
      /\ \A f \in {"client", "win", "clients", "dead", "n"} : a[f] = eng[f]
  BY <1>3, SetProcessKeeps
<1> HIDE DEF a
<1>5. /\ Fields \subseteq DOMAIN a /\ a.bad = {} /\ None \notin a.live /\ a.live = {eng.win} \ {None} /\ a.n \in Nat
      /\ eng.win # None => eng.win \in a.live /\ eng.win.client = None
  BY <1>4 DEF EngOK, TargetOK
<1>6. /\ DOMAIN b = DOMAIN a /\ b.live = a.live \ {eng.win} /\ b.bad = {}
      /\ \A f \in Fields \ {"live", "bad"} : b[f] = a[f]
  BY <1>5, FreeFields
<1> HIDE DEF b
<1>7. b.n = a.n /\ b.n + 1 \in Nat /\ a.n <= b.n + 1
  BY <1>5, <1>6 DEF Fields
<1>8. h \in Handles /\ h # None /\ h.kind = "host" /\ h.client = None
  BY <1>7, LuaAssumption DEF Handle, Handles
<1> HIDE DEF h
<1>9. /\ DOMAIN c = DOMAIN a /\ c.n = b.n + 1 /\ c.win = h /\ c.live = b.live \cup {h}
      /\ \A f \in Fields \ {"n", "win", "live"} : c[f] = b[f]
  BY <1>5, <1>6 DEF Fields
<1> HIDE DEF c
<1>10. /\ c.proc = None /\ c.owned = None /\ c.client = a.client /\ c.reg = a.reg
       /\ c.clients = a.clients /\ c.syms = a.syms /\ c.bps = a.bps /\ c.hooks = a.hooks /\ c.queue = a.queue
       /\ c.bad = {} /\ c.mixed = a.mixed /\ c.dead = a.dead /\ c.sess = a.sess /\ c.excused = a.excused
  BY <1>4, <1>6, <1>9 DEF Fields
<1>11. c.live = {h}
  BY <1>5, <1>6, <1>9
<1>12. TargetOK(c)
  BY <1>4, <1>7, <1>8, <1>9, <1>10, <1>11 DEF EngOK, TargetOK
<1>13. KeptOK(c)
  BY <1>4, <1>10 DEF EngOK, KeptOK
<1>14. EngOK(c)
  BY <1>4, <1>5, <1>9, <1>10, <1>12, <1>13 DEF EngOK
<1>15. HitsOK(c, frames)
  BY <1>4, <1>5, <1>7, <1>9, <1>10, HitsKept
<1>16. EngOK(eng') /\ HitsOK(eng', frames)
  BY <1>2, <1>9, <1>14, <1>15, SetProcessKeeps
<1> QED BY <1>3, <1>16, EngineOnly

LEMMA ExecuteKeeps == ASSUME EngineInv, Execute PROVE EngineInv' /\ Old("callback")
<1>1. Idle /\ frames' = <<[k |-> "script"]>> /\ \E e \in {eng, SetProcess(eng, eng.win)} : eng' = [e EXCEPT !.reg = e.proc]
  BY DEF Execute
<1>2. PICK e : e \in {eng, SetProcess(eng, eng.win)} /\ eng' = [e EXCEPT !.reg = e.proc]
  BY <1>1
<1>3. EngOK(e) /\ HitsOK(e, frames)
  BY <1>2, SetProcessKeeps DEF EngineInv
<1>4. Fields \subseteq DOMAIN eng' /\ \A f \in Fields : eng'[f] = e[f]
  <2>1. e.reg = e.proc /\ Fields \subseteq DOMAIN e
    BY <1>3 DEF EngOK, TargetOK
  <2> QED BY <1>2, <2>1
<1>5. EngOK(eng') /\ HitsOK(eng', frames)
  BY <1>3, <1>4, SameFields
<1>6. IsSeq(frames') /\ \A i \in DOMAIN frames' : frames'[i].k = "script"
  <2>1. <<[k |-> "script"]>> \in Seq({[k |-> "script"]})
    OBVIOUS
  <2>2. IsSeq(frames')
    BY <1>1, <2>1 DEF IsSeq
  <2>3. \A i \in DOMAIN frames' : frames'[i] = [k |-> "script"]
    BY <1>1
  <2> QED BY <2>2, <2>3
<1>7. Old("handler") /\ Old("callback")
  BY <1>6 DEF Old
<1> QED BY <1>5, <1>6, <1>7, EngineStep

LEMMA ReturnKeeps == ASSUME EngineInv, Return PROVE EngineInv' /\ Old("callback")
<1>1. ~Idle /\ frames' = Front(frames) /\ eng' = eng /\ IsSeq(frames)
  BY DEF Return, EngineInv
<1>2. IsSeq(frames') /\ Old("handler") /\ Old("callback")
  <2>1. [k |-> "script"].k # "handler" /\ [k |-> "script"].k # "callback"
    OBVIOUS
  <2> QED BY <1>1, <2>1, StackStep
<1>3. EngOK(eng') /\ HitsOK(eng', frames)
  BY <1>1 DEF EngineInv
<1> QED BY <1>2, <1>3, EngineStep

LEMMA TargetsKeep ==
  ASSUME EngineInv, OpenProcess \/ ConnectToCeserver \/ DisconnectProcess
  PROVE  EngineInv' /\ Old("callback")
<1>1. EngOK(eng) /\ HitsOK(eng, frames) /\ eng.n \in Nat
  BY DEF EngineInv, EngOK, TargetOK
<1>2. EngOK(eng') /\ HitsOK(eng', frames)
  <2>1. CASE OpenProcess
    <3>1. PICK pid \in Pids : eng' = SetOwnedProcess([eng EXCEPT !.n = @ + 1], Handle(eng.n + 1, "local", pid, None))
      BY <2>1 DEF OpenProcess
    <3> DEFINE e == [eng EXCEPT !.n = eng.n + 1]
    <3> DEFINE h == Handle(eng.n + 1, "local", pid, None)
    <3>2. eng.n + 1 \in Nat /\ eng.n <= eng.n + 1
      BY <1>1
    <3>3. EngOK(e) /\ HitsOK(e, frames)
      BY <1>1, <3>2, CountKeeps
    <3>4. h \in Handles /\ h.kind # "host" /\ h.client = None
      BY <3>2, LuaAssumption DEF Handle, Handles
    <3>5. eng' = SetOwnedProcess(e, h)
      BY <3>1
    <3> HIDE DEF e, h
    <3> QED BY <3>3, <3>4, <3>5, SetOwnedKeeps
  <2>2. CASE ConnectToCeserver
    <3>1. PICK pid \in Pids :
            eng' = SetOwnedProcess(SetOwnedCeserverClient([eng EXCEPT !.n = @ + 2], eng.n + 1),
                                   Handle(eng.n + 2, "remote", pid, eng.n + 1))
      BY <2>2 DEF ConnectToCeserver
    <3> DEFINE e == [eng EXCEPT !.n = eng.n + 2]
    <3> DEFINE c == eng.n + 1
    <3> DEFINE r == SetOwnedCeserverClient(e, c)
    <3> DEFINE h == Handle(eng.n + 2, "remote", pid, c)
    <3>2. eng.n + 2 \in Nat /\ eng.n <= eng.n + 2 /\ c \in Nat
      BY <1>1
    <3>3. EngOK(e) /\ HitsOK(e, frames)
      BY <1>1, <3>2, CountKeeps
    <3>4. h \in Handles /\ h.kind # "host" /\ h.client = c
      BY <3>2, LuaAssumption DEF Handle, Handles
    <3>5. eng' = SetOwnedProcess(r, h)
      BY <3>1
    <3> HIDE DEF e, h, c
    <3>6. EngOK(r) /\ HitsOK(r, frames) /\ r.client = c
      BY <3>2, <3>3, SetClientKeeps
    <3> HIDE DEF r
    <3> QED BY <3>4, <3>5, <3>6, SetOwnedKeeps
  <2>3. CASE DisconnectProcess
    <3> DEFINE a == IF eng.proc # None /\ eng.proc.kind = "gdb" THEN Use(eng, {eng.proc}) ELSE eng
    <3>1. eng' = SetOwnedCeserverClient(SetProcess(a, None), None)
      BY <2>3 DEF DisconnectProcess
    <3>2. eng.proc # None => {eng.proc} \subseteq eng.live
      BY <1>1 DEF EngOK, TargetOK
    <3>3. EngOK(a) /\ HitsOK(a, frames)
      BY <1>1, <3>2, UseKeeps
    <3> HIDE DEF a
    <3>4. EngOK(SetProcess(a, None)) /\ HitsOK(SetProcess(a, None), frames)
      BY <3>3, SetProcessKeeps
    <3> QED BY <3>1, <3>4, SetClientKeeps
  <2> QED BY <2>1, <2>2, <2>3
<1>3. frames' = frames
  BY DEF OpenProcess, ConnectToCeserver, DisconnectProcess
<1> QED BY <1>2, <1>3, EngineOnly

\* A binding that uses the target takes the handle from the registry.
LEMMA CallsKeep ==
  ASSUME EngineInv, NEW states, states \subseteq {eng, LoadSymbols(eng)}, TargetCall(states)
  PROVE  EngineInv' /\ Old("callback")
<1>1. EngOK(eng) /\ HitsOK(eng, frames) /\ frames' = frames
  BY DEF EngineInv, TargetCall
<1>2. PICK e \in states : eng' = OnTarget(e)
  BY DEF TargetCall
<1>3. EngOK(e) /\ HitsOK(e, frames)
  BY <1>1, <1>2, LoadKeeps
<1>4. EngOK(eng') /\ HitsOK(eng', frames)
  BY <1>2, <1>3, OnTargetKeeps
<1> QED BY <1>1, <1>4, EngineOnly

\* The names that scripts registered are of no target.
LEMMA NamesKeep ==
  ASSUME NEW e, NEW x, EngOK(e), HitsOK(e, frames)
  PROVE  EngOK([e EXCEPT !.names = x]) /\ HitsOK([e EXCEPT !.names = x], frames)
<1> DEFINE a == [e EXCEPT !.names = x]
<1>1. Fields \subseteq DOMAIN a /\ \A f \in Fields : a[f] = e[f]
  BY DEF EngOK, Fields
<1> HIDE DEF a
<1>2. EngOK(a) /\ HitsOK(a, frames)
  BY <1>1, SameFields
<1> QED BY <1>2 DEF a

LEMMA SymbolsKeep ==
  ASSUME EngineInv, AutoAssemble \/ UserSymbols \/ ReinitializeSymbols \/ CreateSimpleHook \/ RemoveSimpleHook
  PROVE  EngineInv' /\ Old("callback")
<1>1. EngOK(eng) /\ HitsOK(eng, frames)
  BY DEF EngineInv
<1>2. eng.reg = eng.proc /\ (eng.reg # None => {eng.reg} \subseteq eng.live)
  BY <1>1, LuaAssumption DEF EngOK, TargetOK
<1>3. frames' = frames
  BY DEF AutoAssemble, UserSymbols, ReinitializeSymbols, CreateSimpleHook, RemoveSimpleHook
<1> DEFINE u == Use(eng, {eng.reg})
<1>4. eng.reg # None => EngOK(u) /\ HitsOK(u, frames) /\ Fields \subseteq DOMAIN u /\ \A f \in Fields : u[f] = eng[f]
  BY <1>1, <1>2, UseKeeps
<1> HIDE DEF u
<1>5. EngOK(eng') /\ HitsOK(eng', frames)
  <2>1. CASE eng' = eng
    BY <1>1, <2>1
  <2>2. CASE AutoAssemble /\ eng.reg # None
    <3>1. eng' = u \/ \E x : eng' = [LoadSymbols(u) EXCEPT !.names = x]
      BY <2>2 DEF AutoAssemble, Named, u
    <3>2. EngOK(u) /\ HitsOK(u, frames)
      BY <1>4, <2>2
    <3>3. EngOK(LoadSymbols(u)) /\ HitsOK(LoadSymbols(u), frames)
      BY <3>2, LoadKeeps
    <3> QED BY <3>1, <3>2, <3>3, NamesKeep
  <2>3. CASE UserSymbols
    <3> DEFINE l == LoadSymbols(eng)
    <3>1. eng' = l \/ \E x : eng' = [l EXCEPT !.names = x]
      BY <2>3 DEF UserSymbols, Named
    <3>2. EngOK(l) /\ HitsOK(l, frames)
      BY <1>1, LoadKeeps
    <3> HIDE DEF l
    <3> QED BY <3>1, <3>2, NamesKeep
  <2>5. CASE ReinitializeSymbols /\ eng.reg # None
    <3> DEFINE l == OnTarget(LoadSymbols(eng))
    <3>1. eng' = [l EXCEPT !.syms = eng.reg]
      BY <2>5 DEF ReinitializeSymbols
    <3>2. EngOK(LoadSymbols(eng)) /\ HitsOK(LoadSymbols(eng), frames) /\ LoadSymbols(eng).proc = eng.proc
      BY <1>1, LoadKeeps
    <3>3. EngOK(l) /\ HitsOK(l, frames) /\ l.proc = LoadSymbols(eng).proc
      BY <3>2, OnTargetKeeps
    <3> HIDE DEF l
    <3>4. /\ DOMAIN eng' = DOMAIN l /\ eng'.syms = eng.reg /\ eng'.hooks = l.hooks /\ eng'.bps = l.bps
          /\ \A f \in Fields \ {"hooks", "syms", "loaded", "bps"} : eng'[f] = l[f]
      BY <3>1, <3>3 DEF EngOK, Fields
    <3>5. l.hooks \subseteq {l.proc} /\ l.bps \subseteq {None, l.proc}
      BY <3>3 DEF EngOK, KeptOK
    <3> QED BY <1>2, <3>2, <3>3, <3>4, <3>5, NotesKeep
  <2>4. CASE (CreateSimpleHook \/ RemoveSimpleHook) /\ eng' # eng
    <3>1. eng.reg # None /\ \E h : h \subseteq u.hooks \cup {eng.reg} /\ eng' = [u EXCEPT !.hooks = h]
      <4>1. CASE CreateSimpleHook
        <5>1. PICK ok \in BOOLEAN : eng' = [u EXCEPT !.hooks = IF ok THEN u.hooks \cup {eng.reg} ELSE u.hooks]
          BY <4>1 DEF CreateSimpleHook, u
        <5> QED BY <4>1, <5>1 DEF CreateSimpleHook
      <4>2. CASE RemoveSimpleHook
        <5>1. PICK ok \in BOOLEAN : eng' = [u EXCEPT !.hooks = IF ok THEN {} ELSE u.hooks]
          BY <4>2 DEF RemoveSimpleHook, u
        <5> QED BY <4>2, <5>1 DEF RemoveSimpleHook
      <4> QED BY <2>4, <4>1, <4>2
    <3>2. PICK h : h \subseteq u.hooks \cup {eng.reg} /\ eng' = [u EXCEPT !.hooks = h]
      BY <3>1
    <3>3. EngOK(u) /\ HitsOK(u, frames) /\ Fields \subseteq DOMAIN u /\ \A f \in Fields : u[f] = eng[f]
      BY <1>4, <3>1
    <3>4. /\ DOMAIN eng' = DOMAIN u /\ eng'.hooks = h /\ eng'.syms = u.syms /\ eng'.bps = u.bps
          /\ \A f \in Fields \ {"hooks", "syms", "loaded", "bps"} : eng'[f] = u[f]
      BY <3>2, <3>3 DEF Fields
    <3>5. u.hooks \subseteq {u.proc} /\ u.bps \subseteq {None, u.proc} /\ u.syms \in {None, u.proc} /\ u.proc = eng.proc
      BY <3>3 DEF EngOK, KeptOK, Fields
    <3> QED BY <1>2, <3>2, <3>3, <3>4, <3>5, NotesKeep
  <2> QED BY <2>1, <2>2, <2>3, <2>4, <2>5 DEF AutoAssemble, ReinitializeSymbols
<1> QED BY <1>3, <1>5, EngineOnly

\* Options are read, then the binding runs on the target of that moment.
LEMMA OptionsKeep == ASSUME EngineInv, ReadOptions \/ OptionsDone PROVE EngineInv' /\ Old("callback")
<1>1. EngOK(eng) /\ HitsOK(eng, frames) /\ eng.n \in Nat /\ IsSeq(frames)
  BY DEF EngineInv, EngOK, TargetOK
<1>2. CASE ReadOptions
  <2>1. PICK o \in OptionKinds : frames' = Append(frames, [k |-> "options", op |-> o, of |-> eng.reg])
    BY <1>2 DEF ReadOptions, Push
  <2>2. eng' = eng
    BY <1>2 DEF ReadOptions
  <2>3. IsSeq(frames') /\ Old("handler") /\ Old("callback")
    BY <1>1, <2>1, StackStep
  <2> QED BY <1>1, <2>2, <2>3, EngineStep
<1>3. CASE OptionsDone
  <2>1. ~Idle /\ frames' = Front(frames)
    BY <1>3 DEF OptionsDone, TypedValue, MemScan, PointerScan, BreakAndTrace, ConnectToGdb, OptionsEnd
  <2>2. IsSeq(frames') /\ Old("handler") /\ Old("callback")
    <3>1. [k |-> "script"].k # "handler" /\ [k |-> "script"].k # "callback"
      OBVIOUS
    <3> QED BY <1>1, <2>1, <3>1, StackStep
  <2>3. EngOK(eng') /\ HitsOK(eng', frames)
    <3>1. CASE TypedValue \/ MemScan \/ PointerScan \/ BreakAndTrace
      <4>1. eng' = eng \/ \E e \in {eng, LoadSymbols(eng)} : eng' = OnTarget(e)
        BY <3>1 DEF TypedValue, MemScan, PointerScan, BreakAndTrace, OptionsEnd, AtAddress, TargetNow
      <4> QED BY <1>1, <4>1, LoadKeeps, OnTargetKeeps
    <3>2. CASE ConnectToGdb
      <4>1. eng' = eng \/ \E pid \in Pids :
              eng' = SetOwnedProcess(SetOwnedCeserverClient([eng EXCEPT !.n = @ + 1], None), Handle(eng.n + 1, "gdb", pid, None))
        BY <3>2 DEF ConnectToGdb, OptionsEnd
      <4>2. ASSUME NEW pid \in Pids,
              eng' = SetOwnedProcess(SetOwnedCeserverClient([eng EXCEPT !.n = @ + 1], None), Handle(eng.n + 1, "gdb", pid, None))
            PROVE  EngOK(eng') /\ HitsOK(eng', frames)
        <5> DEFINE e == [eng EXCEPT !.n = eng.n + 1]
        <5> DEFINE r == SetOwnedCeserverClient(e, None)
        <5> DEFINE h == Handle(eng.n + 1, "gdb", pid, None)
        <5>1. eng.n + 1 \in Nat /\ eng.n <= eng.n + 1
          BY <1>1
        <5>2. EngOK(e) /\ HitsOK(e, frames)
          BY <1>1, <5>1, CountKeeps
        <5>3. h \in Handles /\ h.kind # "host" /\ h.client = None
          BY <5>1 DEF Handle, Handles
        <5>4. eng' = SetOwnedProcess(r, h)
          BY <4>2
        <5> HIDE DEF e, h
        <5>5. EngOK(r) /\ HitsOK(r, frames)
          BY <5>2, SetClientKeeps
        <5> HIDE DEF r
        <5> QED BY <5>3, <5>4, <5>5, SetOwnedKeeps
      <4> QED BY <1>1, <4>1, <4>2
    <3> QED BY <1>3, <3>1, <3>2 DEF OptionsDone
  <2> QED BY <2>2, <2>3, EngineStep
<1> QED BY <1>2, <1>3

LEMMA BreakpointsKeep ==
  ASSUME EngineInv, SetBreakpoint \/ RemoveBreakpoint \/ ContinueFromBreakpoint \/ Registers
  PROVE  EngineInv' /\ Old("callback")
<1>1. EngOK(eng) /\ HitsOK(eng, frames)
  BY DEF EngineInv
<1>2. frames' = frames
  BY DEF SetBreakpoint, RemoveBreakpoint, ContinueFromBreakpoint, Registers
<1>3. Attached(eng) => {eng.sess.of} \subseteq eng.live
  BY <1>1, LuaAssumption DEF Attached, EngOK, KeptOK, TargetOK
<1> DEFINE u == Use(eng, {eng.sess.of})
<1>4. Attached(eng) => EngOK(u) /\ HitsOK(u, frames) /\ Fields \subseteq DOMAIN u /\ \A f \in Fields : u[f] = eng[f]
  BY <1>1, <1>3, UseKeeps
<1> HIDE DEF u
<1>5. EngOK(eng') /\ HitsOK(eng', frames)
  <2>1. CASE SetBreakpoint
    <3>1. PICK e \in DebugSession(eng) :
            eng' = IF Attached(e) THEN [Continue(Excuse(e)) EXCEPT !.bps = @ \cup {e.sess.of}]
                   ELSE [e EXCEPT !.bps = @ \cup {None}]
      BY <2>1 DEF SetBreakpoint
    <3>2. EngOK(e) /\ HitsOK(e, frames)
      BY <1>1, <3>1, DebugKeeps
    <3>3. ASSUME NEW a, NEW b \in {None, e.proc}, EngOK(a), HitsOK(a, frames), a.proc = e.proc, a.bps = e.bps,
                 eng' = [a EXCEPT !.bps = a.bps \cup {b}]
          PROVE  EngOK(eng') /\ HitsOK(eng', frames)
      <4>1. /\ DOMAIN eng' = DOMAIN a /\ eng'.bps = a.bps \cup {b} /\ eng'.hooks = a.hooks /\ eng'.syms = a.syms
            /\ \A f \in Fields \ {"hooks", "syms", "loaded", "bps"} : eng'[f] = a[f]
        BY <3>3 DEF EngOK, Fields
      <4>2. a.hooks \subseteq {a.proc} /\ a.bps \subseteq {None, a.proc} /\ a.syms \in {None, a.proc}
        BY <3>3 DEF EngOK, KeptOK
      <4> QED BY <3>3, <4>1, <4>2, NotesKeep
    <3>4. CASE Attached(e)
      <4> DEFINE r == Continue(Excuse(e))
      <4>1. /\ EngOK(r) /\ HitsOK(r, frames)
            /\ \A f \in Fields \ {"excused", "sess"} : r[f] = e[f]
        BY <3>2, <3>4, LetGoKeeps
      <4>2. eng' = [r EXCEPT !.bps = r.bps \cup {e.sess.of}]
        BY <3>1, <3>4
      <4> HIDE DEF r
      <4>3. r.proc = e.proc /\ r.bps = e.bps
        BY <4>1 DEF Fields
      <4>4. e.sess.of = e.proc
        BY <3>2, <3>4 DEF Attached, EngOK, KeptOK
      <4> QED BY <3>3, <4>1, <4>2, <4>3, <4>4
    <3>5. CASE ~Attached(e)
      <4>1. eng' = [e EXCEPT !.bps = e.bps \cup {None}]
        BY <3>1, <3>5
      <4> QED BY <3>2, <3>3, <4>1
    <3> QED BY <3>4, <3>5
  <2>2. CASE RemoveBreakpoint
    <3>1. PICK b \in eng.bps :
            \/ eng' = [(IF b # None /\ Attached(eng) THEN Use(eng, {eng.sess.of}) ELSE eng) EXCEPT !.bps = @ \ {b}]
            \/ b # None /\ Attached(eng) /\ eng' = Use(eng, {eng.sess.of})
      BY <2>2 DEF RemoveBreakpoint
    <3> DEFINE x == IF b # None /\ Attached(eng) THEN Use(eng, {eng.sess.of}) ELSE eng
    <3>2. EngOK(x) /\ HitsOK(x, frames)
      BY <1>1, <1>4 DEF u
    <3>3. CASE b # None /\ Attached(eng) /\ eng' = Use(eng, {eng.sess.of})
      BY <1>4, <3>3 DEF u
    <3>4. CASE eng' = [x EXCEPT !.bps = x.bps \ {b}]
      <4> HIDE DEF x
      <4>1. /\ DOMAIN eng' = DOMAIN x /\ eng'.bps = x.bps \ {b} /\ eng'.hooks = x.hooks /\ eng'.syms = x.syms
            /\ \A f \in Fields \ {"hooks", "syms", "loaded", "bps"} : eng'[f] = x[f]
        BY <3>2, <3>4 DEF EngOK, Fields
      <4>2. x.hooks \subseteq {x.proc} /\ x.bps \subseteq {None, x.proc} /\ x.syms \in {None, x.proc}
        BY <3>2 DEF EngOK, KeptOK
      <4> QED BY <3>2, <4>1, <4>2, NotesKeep
    <3> QED BY <3>1, <3>3, <3>4
  <2>3. CASE ContinueFromBreakpoint
    BY <1>1, <2>3, LetGoKeeps DEF ContinueFromBreakpoint
  <2>4. CASE Registers
    BY <1>1, <1>4, <2>4 DEF Registers, u
  <2> QED BY <2>1, <2>2, <2>3, <2>4
<1> QED BY <1>2, <1>5, EngineOnly

\* The tracer's thread reports a new stop of the program that ran.
LEMMA Reported ==
  ASSUME EngOK(eng), HitsOK(eng, frames), Attached(eng), eng.sess.stop = 0, NEW a, NEW hit, NEW q \in {eng.queue, <<>>},
         NEW g \in Nat, eng.sess.gen <= g, DOMAIN a = DOMAIN eng,
         \A f \in Fields \ {"n", "sess", "queue"} : a[f] = eng[f],
         a.n = eng.n + 1, a.queue = Append(q, hit),
         a.sess \in Sessions, a.sess.of = eng.sess.of, a.sess.attached, a.sess.gen = g, a.sess.stop = eng.n + 1,
         hit.stop = eng.n + 1, hit.of = eng.sess.of, hit.gen = g
  PROVE  EngOK(a) /\ HitsOK(a, frames)
<1>1. /\ a.proc = eng.proc /\ a.owned = eng.owned /\ a.client = eng.client /\ a.reg = eng.reg /\ a.win = eng.win
      /\ a.live = eng.live /\ a.clients = eng.clients /\ a.syms = eng.syms /\ a.bps = eng.bps /\ a.hooks = eng.hooks
      /\ a.bad = eng.bad /\ a.mixed = eng.mixed /\ a.dead = eng.dead /\ a.excused = eng.excused
  BY DEF Fields
<1>2. /\ eng.n \in Nat /\ a.n \in Nat /\ eng.n < a.n /\ eng.proc # None /\ eng.sess.of = eng.proc
      /\ eng.proc.pid \notin eng.dead /\ eng.sess.gen \in Nat
  BY DEF EngOK, TargetOK, KeptOK, Attached, Sessions
<1>3. IsSeq(q) /\ \A i \in DOMAIN q : q[i] = eng.queue[i] /\ i \in DOMAIN eng.queue
  BY NothingQueued DEF EngOK, KeptOK
<1>4. /\ IsSeq(a.queue)
      /\ DOMAIN a.queue = DOMAIN q \cup {Len(q) + 1} /\ Len(q) + 1 \notin DOMAIN q
      /\ \A i \in DOMAIN q : a.queue[i] = q[i]
      /\ a.queue[Len(q) + 1] = hit
  BY <1>3, Pushed
<1>5. TargetOK(a)
  BY <1>1, <1>2 DEF EngOK, TargetOK
<1>6. KeptOK(a)
  <2>1. \A i \in DOMAIN a.queue : a.queue[i].of = a.proc
    BY <1>1, <1>2, <1>3, <1>4 DEF EngOK, KeptOK
  <2>2. a.sess.stop <= a.n
    BY <1>2
  <2> QED BY <1>1, <1>2, <1>4, <2>1, <2>2 DEF EngOK, KeptOK
<1>7. EngOK(a)
  BY <1>1, <1>5, <1>6 DEF EngOK
<1>8. Attached(a)
  BY LuaAssumption DEF Attached
<1>9. \A h : HitOK(eng, h) => HitOK(a, h) /\ h.stop # hit.stop
  <2> SUFFICES ASSUME NEW h, HitOK(eng, h) PROVE HitOK(a, h) /\ h.stop # hit.stop
    OBVIOUS
  <2>1. h.stop \in Nat /\ 0 < h.stop /\ h.stop <= a.n /\ h.gen \in Nat /\ h.stop # hit.stop
    BY <1>2 DEF HitOK
  <2>2. \/ h.stop \in eng.excused
        \/ h.of.pid \in eng.dead
        \/ h.of = eng.sess.of /\ h.gen < g
    BY <1>2, <2>1 DEF HitOK
  <2> QED BY <1>1, <1>8, <2>1, <2>2 DEF HitOK
<1>10. HitOK(a, hit)
  BY <1>2, <1>8 DEF HitOK
<1>11. \A i \in DOMAIN q : HitOK(eng, q[i])
  BY <1>3 DEF HitsOK
<1>12. \A i \in DOMAIN a.queue : HitOK(a, a.queue[i])
  BY <1>4, <1>9, <1>10, <1>11
<1>13. \A i \in DOMAIN frames : InHandler(frames, i) => HitOK(eng, frames[i].hit)
  BY DEF HitsOK
<1>14. \A i \in DOMAIN q : q[i].stop # hit.stop
  BY <1>9, <1>11
<1>15. \A i, j \in DOMAIN a.queue : i # j => a.queue[i].stop # a.queue[j].stop
  <2>1. \A i, j \in DOMAIN q : i # j => q[i].stop # q[j].stop
    BY <1>3 DEF HitsOK
  <2> QED BY <1>4, <1>14, <2>1
<1>16. \A i \in DOMAIN frames, j \in DOMAIN a.queue : InHandler(frames, i) => frames[i].hit.stop # a.queue[j].stop
  <2>1. \A i \in DOMAIN frames, j \in DOMAIN q : InHandler(frames, i) => frames[i].hit.stop # q[j].stop
    BY <1>3 DEF HitsOK
  <2> QED BY <1>4, <1>9, <1>13, <2>1
<1>17. HitsOK(a, frames)
  BY <1>9, <1>12, <1>13, <1>15, <1>16 DEF HitsOK
<1> QED BY <1>7, <1>17

LEMMA StopsKeep == ASSUME EngineInv, ProgramStops \/ ProgramExecs PROVE EngineInv' /\ Old("callback")
<1>1. EngOK(eng) /\ HitsOK(eng, frames) /\ Attached(eng) /\ eng.sess.stop = 0 /\ frames' = frames
  BY DEF EngineInv, ProgramStops, ProgramExecs
<1>2. Fields \subseteq DOMAIN eng /\ eng.sess \in Sessions /\ eng.sess.attached /\ eng.n \in Nat /\ eng.n + 1 \in Nat
  BY <1>1 DEF EngOK, KeptOK, TargetOK, Attached
<1>3. PICK g, q, type, s :
        /\ g \in Nat /\ q \in {eng.queue, <<>>} /\ eng.sess.gen <= g
        /\ s \in Sessions /\ s.of = eng.sess.of /\ s.attached /\ s.gen = g /\ s.stop = eng.n + 1
        /\ LET e == [eng EXCEPT !.n = eng.n + 1, !.sess = s]
           IN  eng' = [e EXCEPT !.queue = Append(q, Hit(e, type))]
  <2>1. CASE ProgramStops
    <3> DEFINE s == [eng.sess EXCEPT !.stop = eng.n + 1]
    <3>1. PICK type : eng' = Queued([eng EXCEPT !.n = eng.n + 1, !.sess = s], type) /\ type # "exec"
      BY <2>1 DEF ProgramStops
    <3>2. s.of = eng.sess.of /\ s.gen = eng.sess.gen /\ s.stop = eng.n + 1
      BY <1>2 DEF Sessions
    <3>3. s.attached = eng.sess.attached
      BY <1>2 DEF Sessions
    <3>4. s \in Sessions
      BY <1>2 DEF Sessions
    <3>5. eng.sess.gen \in Nat /\ eng.sess.gen <= eng.sess.gen
      BY <1>2 DEF Sessions
    <3> HIDE DEF s
    <3> DEFINE e == [eng EXCEPT !.n = eng.n + 1, !.sess = s]
    <3>6. e.queue = eng.queue
      BY <1>2 DEF Fields
    <3> HIDE DEF e
    <3>7. eng' = [e EXCEPT !.queue = Append(eng.queue, Hit(e, type))]
      BY <3>1, <3>6 DEF Queued, e
    <3> QED BY <1>2, <3>2, <3>3, <3>4, <3>5, <3>7 DEF e
  <2>2. CASE ProgramExecs
    <3> DEFINE s == [eng.sess EXCEPT !.stop = eng.n + 1, !.gen = eng.sess.gen + 1]
    <3>1. eng' = Queued([eng EXCEPT !.n = eng.n + 1, !.sess = s], "exec")
      BY <1>2, <2>2 DEF ProgramExecs, Sessions
    <3>2. s.of = eng.sess.of /\ s.gen = eng.sess.gen + 1 /\ s.stop = eng.n + 1
      BY <1>2 DEF Sessions
    <3>3. s.attached = eng.sess.attached
      BY <1>2 DEF Sessions
    <3>4. eng.sess.gen \in Nat /\ eng.sess.gen + 1 \in Nat /\ eng.sess.gen <= eng.sess.gen + 1
      BY <1>2 DEF Sessions
    <3>5. s \in Sessions
      BY <1>2, <3>4 DEF Sessions
    <3> HIDE DEF s
    <3> DEFINE e == [eng EXCEPT !.n = eng.n + 1, !.sess = s]
    <3>6. eng' = [e EXCEPT !.queue = Append(<<>>, Hit(e, "exec"))]
      BY <3>1 DEF Queued
    <3> QED BY <1>2, <3>2, <3>3, <3>4, <3>5, <3>6
  <2> QED BY <2>1, <2>2
<1> DEFINE e == [eng EXCEPT !.n = eng.n + 1, !.sess = s]
<1> DEFINE hit == Hit(e, type)
<1>4. DOMAIN e = DOMAIN eng /\ e.n = eng.n + 1 /\ e.sess = s /\ \A f \in Fields \ {"n", "sess"} : e[f] = eng[f]
  BY <1>2 DEF Fields
<1>5. eng' = [e EXCEPT !.queue = Append(q, hit)]
  BY <1>3
<1>6. hit.stop = eng.n + 1 /\ hit.of = eng.sess.of /\ hit.gen = g
  BY <1>3, <1>4 DEF Hit
<1> HIDE DEF e, hit
<1>7. /\ DOMAIN eng' = DOMAIN eng /\ eng'.queue = Append(q, hit) /\ eng'.n = eng.n + 1 /\ eng'.sess = s
      /\ \A f \in Fields \ {"n", "sess", "queue"} : eng'[f] = eng[f]
  BY <1>2, <1>4, <1>5 DEF Fields
<1>8. EngOK(eng') /\ HitsOK(eng', frames)
  BY <1>1, <1>3, <1>6, <1>7, Reported
<1> QED BY <1>1, <1>8, EngineOnly

LEMMA ExitKeeps == ASSUME EngineInv, ProgramExits PROVE EngineInv' /\ Old("callback")
<1>1. EngOK(eng) /\ HitsOK(eng, frames) /\ Attached(eng) /\ frames' = frames
  BY DEF EngineInv, ProgramExits
<1>2. /\ Fields \subseteq DOMAIN eng /\ eng.sess \in Sessions /\ eng.sess.of = eng.proc /\ eng.proc # None
      /\ eng.n \in Nat /\ 0 <= eng.n
  BY <1>1 DEF EngOK, KeptOK, TargetOK, Attached
<1> DEFINE s == [eng.sess EXCEPT !.attached = FALSE, !.stop = 0]
<1>3. eng' = [eng EXCEPT !.sess = s, !.dead = eng.dead \cup {eng.sess.of.pid}]
  BY <1>2 DEF ProgramExits
<1>4. s.of = eng.sess.of /\ s.stop = 0 /\ ~s.attached
  BY <1>2 DEF Sessions
<1>5. s \in Sessions
  BY <1>2 DEF Sessions
<1> HIDE DEF s
<1>6. /\ DOMAIN eng' = DOMAIN eng /\ eng'.sess = s /\ eng'.dead = eng.dead \cup {eng.sess.of.pid}
      /\ \A f \in Fields \ {"sess", "dead"} : eng'[f] = eng[f]
  BY <1>2, <1>3 DEF Fields
<1>7. /\ eng'.proc = eng.proc /\ eng'.owned = eng.owned /\ eng'.client = eng.client /\ eng'.reg = eng.reg
      /\ eng'.win = eng.win /\ eng'.live = eng.live /\ eng'.clients = eng.clients /\ eng'.syms = eng.syms
      /\ eng'.bps = eng.bps /\ eng'.hooks = eng.hooks /\ eng'.bad = eng.bad /\ eng'.mixed = eng.mixed
      /\ eng'.excused = eng.excused /\ eng'.n = eng.n /\ eng'.queue = eng.queue
  BY <1>6 DEF Fields
<1>8. TargetOK(eng')
  BY <1>1, <1>7 DEF EngOK, TargetOK
<1>9. KeptOK(eng')
  BY <1>1, <1>2, <1>4, <1>5, <1>6, <1>7 DEF EngOK, KeptOK
<1>10. EngOK(eng')
  BY <1>1, <1>2, <1>6, <1>7, <1>8, <1>9 DEF EngOK
<1>11. \A h : HitOK(eng, h) => HitOK(eng', h)
  BY <1>6, <1>7 DEF HitOK
<1>12. HitsOK(eng', frames)
  BY <1>1, <1>7, <1>11 DEF HitsOK
<1> QED BY <1>1, <1>10, <1>12, EngineOnly

LEMMA PumpKeeps == ASSUME EngineInv, PumpEvents \/ PumpEnds PROVE EngineInv' /\ Old("callback")
<1> DEFINE f == [k |-> "pump"]
<1>1. IsSeq(frames) /\ eng' = eng /\ f.k # "handler" /\ f.k # "callback"
  BY DEF EngineInv, PumpEvents, PumpEnds
<1>2. frames' = Append(frames, f) \/ (~Idle /\ frames' = Front(frames))
  BY DEF PumpEvents, PumpEnds, Push
<1>3. IsSeq(frames') /\ Old("handler") /\ Old("callback")
  BY <1>1, <1>2, StackStep
<1>4. EngOK(eng') /\ HitsOK(eng', frames)
  BY <1>1 DEF EngineInv
<1> QED BY <1>3, <1>4, EngineStep

\* A hit leaves the queue.
LEMMA TakeKeeps ==
  ASSUME EngOK(eng), HitsOK(eng, frames), eng.queue # <<>>
  PROVE  LET e == [eng EXCEPT !.queue = Tail(@)]
             hit == Head(eng.queue)
         IN  /\ EngOK(e) /\ HitsOK(e, frames) /\ HitOK(e, hit)
             /\ \A f \in Fields \ {"queue"} : e[f] = eng[f]
             /\ \A i \in DOMAIN frames : InHandler(frames, i) => frames[i].hit.stop # hit.stop
             /\ \A i \in DOMAIN e.queue : e.queue[i].stop # hit.stop
<1> DEFINE q == eng.queue
<1> DEFINE t == Tail(q)
<1> DEFINE hit == Head(q)
<1> DEFINE e == [eng EXCEPT !.queue = t]
<1>1. PICK S : q \in Seq(S)
  BY DEF EngOK, KeptOK, IsSeq
<1>2. /\ t \in Seq(S) /\ hit = q[1] /\ Len(q) \in Nat /\ Len(q) > 0 /\ Len(t) = Len(q) - 1
      /\ \A i \in 1 .. Len(q) - 1 : t[i] = q[i + 1]
  BY <1>1
<1> HIDE DEF t, hit, q
<1>3. DOMAIN q = 1 .. Len(q) /\ DOMAIN t = 1 .. Len(q) - 1
  BY <1>1, <1>2
<1>4. /\ 1 \in DOMAIN q
      /\ \A i \in DOMAIN t : i + 1 \in DOMAIN q /\ i + 1 # 1 /\ t[i] = q[i + 1]
      /\ \A i, j \in DOMAIN t : i # j => i + 1 # j + 1
  BY <1>2, <1>3
<1>5. DOMAIN e = DOMAIN eng /\ e.queue = t /\ \A f \in Fields \ {"queue"} : e[f] = eng[f]
  BY DEF EngOK, Fields
<1> HIDE DEF e
<1>6. /\ e.proc = eng.proc /\ e.owned = eng.owned /\ e.client = eng.client /\ e.reg = eng.reg
      /\ e.win = eng.win /\ e.live = eng.live /\ e.clients = eng.clients /\ e.syms = eng.syms
      /\ e.bps = eng.bps /\ e.hooks = eng.hooks /\ e.bad = eng.bad /\ e.mixed = eng.mixed
      /\ e.excused = eng.excused /\ e.n = eng.n /\ e.sess = eng.sess /\ e.dead = eng.dead
  BY <1>5 DEF Fields
<1>7. TargetOK(e)
  BY <1>6 DEF EngOK, TargetOK
<1>8. KeptOK(e)
  <2>1. IsSeq(t)
    BY <1>2 DEF IsSeq
  <2>2. \A i \in DOMAIN t : t[i].of = eng.proc
    BY <1>4 DEF EngOK, KeptOK, q
  <2> QED BY <1>5, <1>6, <2>1, <2>2 DEF EngOK, KeptOK
<1>9. EngOK(e)
  BY <1>5, <1>6, <1>7, <1>8 DEF EngOK
<1>10. \A h : HitOK(eng, h) => HitOK(e, h)
  BY <1>6 DEF HitOK, Attached
<1>11. /\ \A i \in DOMAIN q : HitOK(eng, q[i])
       /\ \A i, j \in DOMAIN q : i # j => q[i].stop # q[j].stop
       /\ \A i \in DOMAIN frames, j \in DOMAIN q : InHandler(frames, i) => frames[i].hit.stop # q[j].stop
  BY DEF HitsOK, q
<1>12. \A i \in DOMAIN t : HitOK(e, t[i]) /\ t[i].stop # hit.stop
  BY <1>2, <1>4, <1>10, <1>11
<1>13. \A i, j \in DOMAIN t : i # j => t[i].stop # t[j].stop
  BY <1>4, <1>11
<1>14. \A i \in DOMAIN frames, j \in DOMAIN t : InHandler(frames, i) => frames[i].hit.stop # t[j].stop
  BY <1>4, <1>11
<1>15. HitsOK(e, frames)
  BY <1>5, <1>10, <1>12, <1>13, <1>14 DEF HitsOK
<1>16. HitOK(e, hit) /\ \A i \in DOMAIN frames : InHandler(frames, i) => frames[i].hit.stop # hit.stop
  BY <1>2, <1>4, <1>10, <1>11
<1> QED BY <1>5, <1>9, <1>12, <1>15, <1>16 DEF e, hit, t, q

\* The hit is given to its handler.
LEMMA TakesKeep == ASSUME EngineInv, PumpTakes PROVE EngineInv' /\ Old("callback")
<1> DEFINE e == [eng EXCEPT !.queue = Tail(@)]
<1> DEFINE hit == Head(eng.queue)
<1> DEFINE f == [k |-> "handler", hit |-> hit]
<1> DEFINE fr == Append(Front(frames), f)
<1>1. EngOK(eng) /\ HitsOK(eng, frames) /\ IsSeq(frames) /\ eng.queue # <<>> /\ ~Idle
  BY DEF EngineInv, PumpTakes
<1>2. /\ EngOK(e) /\ HitsOK(e, frames) /\ HitOK(e, hit)
      /\ \A i \in DOMAIN frames : InHandler(frames, i) => frames[i].hit.stop # hit.stop
      /\ \A i \in DOMAIN e.queue : e.queue[i].stop # hit.stop
  BY <1>1, TakeKeeps
<1>3. PICK a \in DebugSession(e) :
        IF ~Attached(a) \/ a.sess.gen # hit.gen THEN eng' = a /\ frames' = frames
        ELSE /\ eng' = IF hit.type = "exec" THEN [a EXCEPT !.bps = {}] ELSE a
             /\ frames' = fr
  BY DEF PumpTakes
<1>4. f.k = "handler" /\ f.hit = hit /\ f.k # "callback"
  OBVIOUS
<1> HIDE DEF e, hit, f
<1>5. CASE eng' = a /\ frames' = frames
  <2>1. EngOK(a) /\ HitsOK(a, frames)
    BY <1>2, <1>3, DebugKeeps
  <2> QED BY <1>1, <1>5, <2>1 DEF EngineInv, Old
<1>6. CASE /\ eng' = IF hit.type = "exec" THEN [a EXCEPT !.bps = {}] ELSE a
           /\ frames' = fr
  <2>1. /\ IsSeq(fr) /\ DOMAIN fr = DOMAIN frames /\ Len(frames) \in DOMAIN frames
        /\ \A i \in DOMAIN frames \ {Len(frames)} : fr[i] = frames[i]
        /\ fr[Len(frames)] = f
    BY <1>1, Swapped DEF Idle
  <2> HIDE DEF fr
  <2>2. \A i \in DOMAIN fr : InHandler(fr, i) => \/ i = Len(frames) /\ fr[i].hit = hit
                                                 \/ i # Len(frames) /\ InHandler(frames, i) /\ fr[i] = frames[i]
    BY <1>4, <2>1 DEF InHandler
  <2>3. \A i \in DOMAIN fr : InHandler(fr, i) => HitOK(e, fr[i].hit)
    BY <1>2, <2>1, <2>2 DEF HitsOK
  <2>4. \A i, j \in DOMAIN fr : InHandler(fr, i) /\ InHandler(fr, j) /\ i # j => fr[i].hit.stop # fr[j].hit.stop
    BY <1>2, <2>1, <2>2 DEF HitsOK
  <2>5. \A i \in DOMAIN fr, j \in DOMAIN e.queue : InHandler(fr, i) => fr[i].hit.stop # e.queue[j].stop
    BY <1>2, <2>1, <2>2 DEF HitsOK
  <2>6. HitsOK(e, fr)
    BY <1>2, <2>3, <2>4, <2>5 DEF HitsOK
  <2>7. EngOK(a) /\ HitsOK(a, fr)
    BY <1>2, <1>3, <2>6, DebugKeeps
  <2>8. EngOK(eng') /\ HitsOK(eng', fr)
    <3>1. CASE hit.type = "exec"
      <4>1. eng' = [a EXCEPT !.bps = {}]
        BY <1>6, <3>1
      <4>2. /\ DOMAIN eng' = DOMAIN a /\ eng'.bps = {} /\ eng'.hooks = a.hooks /\ eng'.syms = a.syms
            /\ \A g \in Fields \ {"hooks", "syms", "loaded", "bps"} : eng'[g] = a[g]
        BY <2>7, <4>1 DEF EngOK, Fields
      <4>3. a.hooks \subseteq {a.proc} /\ a.syms \in {None, a.proc}
        BY <2>7 DEF EngOK, KeptOK
      <4> QED BY <2>7, <4>2, <4>3, NotesKeep
    <3>2. CASE hit.type # "exec"
      BY <1>6, <2>7, <3>2
    <3> QED BY <3>1, <3>2
  <2>9. Old("callback")
    BY <1>4, <1>6, <2>1 DEF Old
  <2> QED BY <1>6, <2>1, <2>8, <2>9 DEF EngineInv
<1> QED BY <1>3, <1>5, <1>6

\* The registers a handler edited are of the stop the program is at.
LEMMA WriteBackKeeps ==
  ASSUME NEW e, NEW fr, EngOK(e), HitsOK(e, frames), IsSeq(frames), ~Idle, Top.k = "handler", Done(fr)
  PROVE  /\ EngOK(WriteBack(e, Top.hit)) /\ HitsOK(WriteBack(e, Top.hit), fr)
         /\ EngOK(FailedHandler(e, Top.hit)) /\ HitsOK(FailedHandler(e, Top.hit), fr)
<1> DEFINE hit == Top.hit
<1>1. HitOK(e, hit)
  <2>1. Len(frames) \in DOMAIN frames
    BY DEF IsSeq, Idle
  <2> QED BY <2>1 DEF Top, Last, HitsOK, InHandler
<1>2. HitsOK(e, fr)
  BY FewerHandlers DEF Done
<1>3. CASE ~Attached(e) \/ e.sess.gen # hit.gen
  BY <1>2, <1>3 DEF WriteBack, FailedHandler
<1>4. CASE Attached(e) /\ e.sess.gen = hit.gen
  <2>1. EngOK(Resume(e, hit)) /\ HitsOK(Resume(e, hit), fr)
    BY <1>4, ResumeKeeps
  <2>2. e.sess.of.pid = hit.of.pid => PutBack(e, hit) = e
    <3> SUFFICES ASSUME e.sess.of.pid = hit.of.pid PROVE hit.stop = e.sess.stop \/ hit.stop \in e.excused
      BY <1>4 DEF PutBack
    <3>1. hit.of.pid \notin e.dead
      BY <1>4 DEF EngOK, KeptOK, Attached
    <3> QED BY <1>1, <1>4, <3>1 DEF HitOK
  <2>3. WriteBack(e, hit) = Resume(e, hit) /\ FailedHandler(e, hit) = Resume(e, hit)
    BY <1>4, <2>2 DEF WriteBack, FailedHandler
  <2> QED BY <2>1, <2>3
<1> QED BY <1>3, <1>4

LEMMA HandlersKeep == ASSUME EngineInv, HandlerReturns \/ HandlerFails PROVE EngineInv' /\ Old("callback")
<1> DEFINE f == [k |-> "pump"]
<1>1. /\ EngOK(eng) /\ HitsOK(eng, frames) /\ IsSeq(frames) /\ ~Idle /\ Top.k = "handler"
      /\ frames' = Front(frames) \/ frames' = Append(Front(frames), f)
  BY DEF EngineInv, HandlerReturns, HandlerFails
<1>2. PICK e \in DebugSession(eng) : eng' = WriteBack(e, Top.hit) \/ eng' = FailedHandler(e, Top.hit)
  BY DEF HandlerReturns, HandlerFails
<1>3. EngOK(e) /\ HitsOK(e, frames)
  BY <1>1, <1>2, DebugKeeps
<1>4. f.k # "handler" /\ f.k # "callback"
  OBVIOUS
<1>5. IsSeq(frames') /\ Old("callback")
  BY <1>1, <1>4, StackStep
<1>6. Done(frames')
  <2>1. CASE frames' = Front(frames)
    <3>1. /\ DOMAIN frames' = DOMAIN frames \ {Len(frames)}
          /\ \A i \in DOMAIN frames' : frames'[i] = frames[i]
      BY <1>1, <2>1, Popped DEF Idle
    <3> QED BY <3>1 DEF Done
  <2>2. CASE frames' = Append(Front(frames), f)
    <3>1. /\ DOMAIN frames' = DOMAIN frames
          /\ \A i \in DOMAIN frames \ {Len(frames)} : frames'[i] = frames[i]
          /\ frames'[Len(frames)] = f
      <4> DEFINE t == Append(Front(frames), f)
      <4>1. /\ IsSeq(t) /\ DOMAIN t = DOMAIN frames /\ Len(frames) \in DOMAIN frames
            /\ \A i \in DOMAIN frames \ {Len(frames)} : t[i] = frames[i]
            /\ t[Len(frames)] = f
        BY <1>1, Swapped, Zenon DEF Idle
      <4> HIDE DEF t
      <4>2. frames' = t
        BY <2>2 DEF t
      <4> QED BY <4>1, <4>2
    <3> QED BY <1>4, <3>1 DEF Done, InHandler
  <2> QED BY <1>1, <2>1, <2>2
<1>7. EngOK(eng') /\ HitsOK(eng', frames')
  BY <1>1, <1>2, <1>3, <1>6, WriteBackKeeps
<1> QED BY <1>5, <1>7 DEF EngineInv

\* Every step of the scripts, the window and the program on the target.
LEMMA TargetKeeps == ASSUME EngineInv, TargetNext PROVE EngineInv' /\ Old("callback")
<1>1. CASE \/ TargetInfo \/ ReadMemory \/ WriteMemory \/ RegionFiles \/ ModulesAndAllocation \/ NamesOfAddresses
           \/ InjectLibrary \/ Disassemble \/ NopInstruction \/ InjectionScripts \/ FindWhat \/ FindReferences
           \/ Exports \/ CallGraph \/ GdbRegisters \/ AobScan \/ AobModule
  <2>1. \E states \in {{eng}, {LoadSymbols(eng)}, {eng, LoadSymbols(eng)}} : TargetCall(states)
    BY <1>1 DEF TargetInfo, ReadMemory, WriteMemory, RegionFiles, ModulesAndAllocation, NamesOfAddresses, InjectLibrary,
                Disassemble, NopInstruction, InjectionScripts, FindWhat, FindReferences, Exports, CallGraph, GdbRegisters,
                AobScan, AobModule, AtAddress
  <2>2. PICK states \in {{eng}, {LoadSymbols(eng)}, {eng, LoadSymbols(eng)}} : TargetCall(states)
    BY <2>1
  <2>3. states \subseteq {eng, LoadSymbols(eng)}
    OBVIOUS
  <2> QED BY <2>2, <2>3, CallsKeep
<1>2. CASE HostSwitch \/ Execute \/ Return
  BY <1>2, HostKeeps, ExecuteKeeps, ReturnKeeps
<1>3. CASE OpenProcess \/ ConnectToCeserver \/ DisconnectProcess
  BY <1>3, TargetsKeep
<1>4. CASE AutoAssemble \/ UserSymbols \/ ReinitializeSymbols \/ CreateSimpleHook \/ RemoveSimpleHook
  BY <1>4, SymbolsKeep
<1>5. CASE ReadOptions \/ OptionsDone
  BY <1>5, OptionsKeep
<1>6. CASE SetBreakpoint \/ RemoveBreakpoint \/ ContinueFromBreakpoint \/ Registers
  BY <1>6, BreakpointsKeep
<1>7. CASE ProgramStops \/ ProgramExecs \/ ProgramExits
  BY <1>7, StopsKeep, ExitKeeps
<1>8. CASE PumpEvents \/ PumpNext
  BY <1>8, PumpKeeps, TakesKeep, HandlersKeep DEF PumpNext
<1> QED BY <1>1, <1>2, <1>3, <1>4, <1>5, <1>6, <1>7, <1>8 DEF TargetNext

-----------------------------------------------------------------------------
(* Records *)

TabFields == {"list", "gen", "cbs", "cbsGen", "refs", "made", "bad"}

\* What a step of the records' bindings may do with the list's table as it is.
TableSame ==
  /\ lists' = lists /\ TabFields \subseteq DOMAIN tab'
  /\ tab'.list = tab.list /\ tab'.gen = tab.gen /\ tab'.made = tab.made /\ tab'.bad = FALSE /\ tab'.cbsGen \in Int

RefsSame == \A ref \in tab'.refs : ref \in tab.refs \/ RefOK(ref)

CallbackOK(id, uid) == id \in Nat /\ id < Now.next /\ (id \in DOMAIN Now.recs => uid = Now.recs[id])

LEMMA TableSameKeeps ==
  ASSUME RecordsOK, TableSame, RefsSame,
         \/ tab'.cbs = tab.cbs /\ tab'.cbsGen = tab.cbsGen
         \/ tab.list # None /\ tab'.cbsGen = Now.gen /\ \A id \in DOMAIN tab'.cbs : CallbackOK(id, tab'.cbs[id])
  PROVE  RecordsOK'
<1>1. tab'.list \in Lists \cup {None} /\ tab'.gen \in Nat /\ tab'.made \in Nat
  BY DEF RecordsOK, TableSame
<1>2. Lists \subseteq DOMAIN lists' /\ \A l \in Lists :
       /\ {"gen", "recs", "next"} \subseteq DOMAIN lists'[l]
       /\ lists'[l].gen \in Nat /\ lists'[l].next \in Nat
       /\ \A id \in DOMAIN lists'[l].recs : id \in Nat /\ id < lists'[l].next
  BY DEF RecordsOK, TableSame
<1>3. Now' = Now
  BY DEF Now, TableSame
<1>4. \A ref \in tab'.refs : RefOK(ref)'
  <2>1. \A ref : RefOK(ref) => RefOK(ref)'
    BY <1>3 DEF RefOK, TableSame
  <2> QED BY <2>1 DEF RefsSame, RecordsOK
<1>5. DOMAIN tab'.cbs # {} =>
       /\ tab'.list # None /\ tab'.cbsGen <= Now.gen
       /\ tab'.cbsGen = Now.gen => \A id \in DOMAIN tab'.cbs : CallbackOK(id, tab'.cbs[id])
  <2>1. CASE tab'.cbs = tab.cbs /\ tab'.cbsGen = tab.cbsGen
    <3> SUFFICES ASSUME DOMAIN tab.cbs # {}
                 PROVE  /\ tab.list # None /\ tab.cbsGen <= Now.gen
                        /\ tab.cbsGen = Now.gen => \A id \in DOMAIN tab.cbs : CallbackOK(id, tab.cbs[id])
      BY <2>1 DEF TableSame
    <3>1. /\ tab.list # None /\ tab.cbsGen <= Now.gen
          /\ tab.cbsGen = Now.gen =>
               \A id \in DOMAIN tab.cbs : id \in Nat /\ id < Now.next /\ (id \in DOMAIN Now.recs => tab.cbs[id] = Now.recs[id])
      BY Zenon DEF RecordsOK
    <3> QED BY <3>1, Zenon DEF CallbackOK
  <2>2. CASE tab.list # None /\ tab'.cbsGen = Now.gen /\ \A id \in DOMAIN tab'.cbs : CallbackOK(id, tab'.cbs[id])
    <3>1. Now.gen \in Nat
      BY <2>2 DEF RecordsOK, Now
    <3> QED BY <2>2, <3>1 DEF TableSame
  <2> QED BY <2>1, <2>2
<1> QED BY <1>1, <1>2, <1>3, <1>4, <1>5 DEF RecordsOK, TableSame, TabFields, CallbackOK

\* The table the engine reads.
LEMMA TableFacts ==
  ASSUME RecordsOK, tab.list # None
  PROVE  /\ tab.list \in Lists /\ Replaced = Now.gen /\ Now.gen \in Nat /\ Now.next \in Nat
         /\ \A id \in DOMAIN Now.recs : id \in Nat /\ id < Now.next /\ Rec(id) = Now.recs[id]
         /\ \A id \in DOMAIN Callbacks : CallbackOK(id, Callbacks[id])
<1>1. tab.list \in Lists /\ Replaced = Now.gen /\ Now.gen \in Nat /\ Now.next \in Nat
  BY DEF RecordsOK, Replaced, Now
<1>2. \A id \in DOMAIN Now.recs : id \in Nat /\ id < Now.next /\ Rec(id) = Now.recs[id]
  BY <1>1 DEF RecordsOK, Now, Rec
<1>3. \A id \in DOMAIN Callbacks : CallbackOK(id, Callbacks[id])
  <2>1. CASE tab.cbsGen = Replaced
    <3>1. Callbacks = tab.cbs
      BY <2>1 DEF Callbacks
    <3>2. \A id \in DOMAIN tab.cbs : id \in Nat /\ id < Now.next /\ (id \in DOMAIN Now.recs => tab.cbs[id] = Now.recs[id])
      <4>1. CASE DOMAIN tab.cbs # {}
        BY <1>1, <2>1, <4>1, Zenon DEF RecordsOK
      <4>2. CASE DOMAIN tab.cbs = {}
        BY <4>2
      <4> QED BY <4>1, <4>2
    <3> QED BY <3>1, <3>2, Zenon DEF CallbackOK
  <2>2. CASE tab.cbsGen # Replaced
    <3>1. DOMAIN Callbacks = {}
      BY <2>2 DEF Callbacks, Empty
    <3> QED BY <3>1
  <2> QED BY <2>1, <2>2
<1> QED BY <1>1, <1>2, <1>3

\* A reference that passes the check reaches its own record or none.
LEMMA ValidReaches ==
  ASSUME RecordsOK, NEW ref \in tab.refs, Valid(ref)
  PROVE  tab.list # None /\ CallbackOK(ref.id, ref.uid) /\ Reach(ref) = FALSE
<1>1. RefOK(ref) /\ tab.list # None
  BY DEF RecordsOK, RefOK, Valid
<1>2. ref.gen = tab.gen /\ ref.rep = Now.gen
  BY <1>1, TableFacts DEF Valid
<1>3. CallbackOK(ref.id, ref.uid)
  BY <1>1, <1>2 DEF RefOK, CallbackOK
<1>4. Rec(ref.id) \in {0, ref.uid}
  BY <1>1, <1>3 DEF Rec, CallbackOK, Now
<1>5. tab.bad = FALSE
  BY DEF RecordsOK
<1> QED BY <1>1, <1>3, <1>4, <1>5 DEF Reach

\* A new reference to a record of the table.
LEMMA NewRef ==
  ASSUME RecordsOK, tab.list # None, NEW id \in DOMAIN Now.recs
  PROVE  RefOK(RefTo(id, Rec(id)))
<1> DEFINE ref == RefTo(id, Rec(id))
<1>1. ref.id = id /\ ref.gen = tab.gen /\ ref.rep = Replaced /\ ref.uid = Rec(id)
  BY DEF RefTo
<1> HIDE DEF ref
<1>2. Replaced = Now.gen /\ Now.gen \in Nat /\ Now.next \in Nat /\ id \in Nat /\ id < Now.next /\ Rec(id) = Now.recs[id]
  BY TableFacts
<1>3. tab.gen \in Nat
  BY DEF RecordsOK
<1>4. RefOK(ref)
  BY <1>1, <1>2, <1>3 DEF RefOK
<1> QED BY <1>4 DEF ref

LEMMA WithFields ==
  ASSUME NEW f, NEW k, NEW v
  PROVE  /\ DOMAIN With(f, k, v) = DOMAIN f \cup {k} /\ With(f, k, v)[k] = v
         /\ \A x \in DOMAIN f \ {k} : With(f, k, v)[x] = f[x]
         /\ DOMAIN Without(f, k) = DOMAIN f \ {k} /\ \A x \in DOMAIN f \ {k} : Without(f, k)[x] = f[x]
BY DEF With, Without

LEMMA UsesKeep ==
  ASSUME RecordsOK, FindRecord \/ UseRecord \/ SetCallback \/ Activate
  PROVE  RecordsOK'
<1>1. TabFields \subseteq DOMAIN tab /\ lists' = lists /\ tab.bad = FALSE /\ tab.cbsGen \in Int
  BY DEF RecordsOK, TabFields, FindRecord, UseRecord, SetCallback, Activate
<1>2. CASE FindRecord
  <2>1. PICK id \in DOMAIN Now.recs : tab.list # None /\ tab' = [tab EXCEPT !.refs = tab.refs \cup {RefTo(id, Rec(id))}]
    BY <1>2 DEF FindRecord, Now
  <2>2. RefOK(RefTo(id, Rec(id)))
    BY <2>1, NewRef
  <2>3. /\ TabFields \subseteq DOMAIN tab' /\ tab'.refs = tab.refs \cup {RefTo(id, Rec(id))}
        /\ \A f \in TabFields \ {"refs"} : tab'[f] = tab[f]
    BY <1>1, <2>1 DEF TabFields
  <2>4. /\ tab'.list = tab.list /\ tab'.gen = tab.gen /\ tab'.made = tab.made /\ tab'.bad = tab.bad
        /\ tab'.cbs = tab.cbs /\ tab'.cbsGen = tab.cbsGen
    BY <2>3 DEF TabFields
  <2>5. TableSame /\ RefsSame
    BY <1>1, <2>2, <2>3, <2>4 DEF TableSame, RefsSame
  <2> QED BY <2>4, <2>5, TableSameKeeps
<1>3. CASE UseRecord
  <2>1. PICK ref \in tab.refs : Valid(ref) /\ tab' = [tab EXCEPT !.bad = Reach(ref)]
    BY <1>3 DEF UseRecord
  <2>2. Reach(ref) = FALSE
    BY <2>1, ValidReaches
  <2>3. TabFields \subseteq DOMAIN tab' /\ tab'.bad = FALSE /\ \A f \in TabFields \ {"bad"} : tab'[f] = tab[f]
    BY <1>1, <2>1, <2>2 DEF TabFields
  <2>4. /\ tab'.list = tab.list /\ tab'.gen = tab.gen /\ tab'.made = tab.made /\ tab'.refs = tab.refs
        /\ tab'.cbs = tab.cbs /\ tab'.cbsGen = tab.cbsGen
    BY <2>3 DEF TabFields
  <2>5. TableSame /\ RefsSame
    BY <1>1, <2>3, <2>4 DEF TableSame, RefsSame
  <2> QED BY <2>4, <2>5, TableSameKeeps
<1>4. CASE SetCallback
  <2>1. PICK ref \in tab.refs :
          Valid(ref) /\ tab' = [tab EXCEPT !.cbs = With(Callbacks, ref.id, ref.uid), !.cbsGen = Replaced]
    BY <1>4 DEF SetCallback
  <2>2. tab.list # None /\ CallbackOK(ref.id, ref.uid)
    BY <2>1, ValidReaches
  <2>3. /\ TabFields \subseteq DOMAIN tab' /\ tab'.cbs = With(Callbacks, ref.id, ref.uid) /\ tab'.cbsGen = Replaced
        /\ \A f \in TabFields \ {"cbs", "cbsGen"} : tab'[f] = tab[f]
    BY <1>1, <2>1 DEF TabFields
  <2>4. /\ tab'.list = tab.list /\ tab'.gen = tab.gen /\ tab'.made = tab.made /\ tab'.refs = tab.refs /\ tab'.bad = tab.bad
    BY <2>3 DEF TabFields
  <2>5. Replaced = Now.gen /\ Now.gen \in Int /\ \A id \in DOMAIN Callbacks : CallbackOK(id, Callbacks[id])
    BY <2>2, TableFacts
  <2>6. TableSame /\ RefsSame
    BY <1>1, <2>3, <2>4, <2>5 DEF TableSame, RefsSame
  <2>7. \A id \in DOMAIN tab'.cbs : CallbackOK(id, tab'.cbs[id])
    <3> DEFINE c == With(Callbacks, ref.id, ref.uid)
    <3>1. /\ DOMAIN c = DOMAIN Callbacks \cup {ref.id} /\ c[ref.id] = ref.uid
          /\ \A x \in DOMAIN Callbacks \ {ref.id} : c[x] = Callbacks[x]
      BY DEF With
    <3> HIDE DEF c
    <3>2. \A id \in DOMAIN c : CallbackOK(id, c[id])
      <4> SUFFICES ASSUME NEW id \in DOMAIN c PROVE CallbackOK(id, c[id])
        OBVIOUS
      <4>1. CASE id = ref.id
        BY <2>2, <3>1, <4>1
      <4>2. CASE id # ref.id
        BY <2>5, <3>1, <4>2
      <4> QED BY <4>1, <4>2
    <3> QED BY <2>3, <3>2 DEF c
  <2> QED BY <2>2, <2>3, <2>5, <2>6, <2>7, TableSameKeeps
<1>5. CASE Activate
  <2>1. PICK id \in DOMAIN Now.recs :
          /\ tab.list # None
          /\ IF id \in DOMAIN Callbacks
             THEN tab' = [tab EXCEPT !.cbs = Callbacks, !.cbsGen = Replaced, !.refs = tab.refs \cup {RefTo(id, Rec(id))},
                                     !.bad = tab.bad \/ Callbacks[id] # Rec(id)]
             ELSE tab' = [tab EXCEPT !.cbs = Callbacks, !.cbsGen = Replaced]
    BY <1>5 DEF Activate, Now
  <2>2. /\ Replaced = Now.gen /\ Now.gen \in Int /\ Rec(id) = Now.recs[id]
        /\ \A x \in DOMAIN Callbacks : CallbackOK(x, Callbacks[x])
    BY <2>1, TableFacts
  <2>3. RefOK(RefTo(id, Rec(id)))
    BY <2>1, NewRef
  <2>4. id \in DOMAIN Callbacks => (tab.bad \/ Callbacks[id] # Rec(id)) = FALSE
    BY <1>1, <2>2 DEF CallbackOK
  <2>5. /\ TabFields \subseteq DOMAIN tab' /\ tab'.cbs = Callbacks /\ tab'.cbsGen = Replaced
        /\ tab'.list = tab.list /\ tab'.gen = tab.gen /\ tab'.made = tab.made
        /\ tab'.refs = tab.refs \/ tab'.refs = tab.refs \cup {RefTo(id, Rec(id))}
    <3>1. CASE id \in DOMAIN Callbacks
      BY <1>1, <2>1, <3>1 DEF TabFields
    <3>2. CASE id \notin DOMAIN Callbacks
      BY <1>1, <2>1, <3>2 DEF TabFields
    <3> QED BY <3>1, <3>2
  <2>6. tab'.bad = FALSE
    <3>1. CASE id \in DOMAIN Callbacks
      BY <1>1, <2>1, <2>4, <3>1 DEF TabFields
    <3>2. CASE id \notin DOMAIN Callbacks
      BY <1>1, <2>1, <3>2 DEF TabFields
    <3> QED BY <3>1, <3>2
  <2>7. TableSame /\ RefsSame
    BY <1>1, <2>2, <2>3, <2>5, <2>6 DEF TableSame, RefsSame
  <2> QED BY <2>1, <2>2, <2>5, <2>7, TableSameKeeps
<1> QED BY <1>2, <1>3, <1>4, <1>5

\* The window gives the engine another list, or loads a table.
LEMMA TablesKeep ==
  ASSUME RecordsOK, SetAddressList \/ LoadTable
  PROVE  RecordsOK'
<1>1. /\ TabFields \subseteq DOMAIN tab /\ tab.bad = FALSE /\ tab.cbsGen \in Int /\ tab.gen \in Nat /\ tab.made \in Nat
      /\ tab.list \in Lists \cup {None} /\ MaxRecords \in Nat
  BY ListsAssumption DEF RecordsOK, TabFields
<1>2. CASE SetAddressList
  <2>1. PICK l \in Lists \cup {None} : tab' = IF l = tab.list THEN tab ELSE [tab EXCEPT !.list = l, !.gen = tab.gen + 1, !.cbs = Empty]
    BY <1>2 DEF SetAddressList
  <2>2. lists' = lists
    BY <1>2 DEF SetAddressList
  <2>3. CASE l = tab.list
    BY <2>1, <2>2, <2>3 DEF RecordsOK, RefOK, Now
  <2>4. CASE l # tab.list
    <3>1. tab' = [tab EXCEPT !.list = l, !.gen = tab.gen + 1, !.cbs = Empty]
      BY <2>1, <2>4
    <3>2. /\ TabFields \subseteq DOMAIN tab' /\ tab'.list = l /\ tab'.gen = tab.gen + 1 /\ tab'.cbs = Empty
          /\ \A f \in TabFields \ {"list", "gen", "cbs"} : tab'[f] = tab[f]
      BY <1>1, <3>1 DEF TabFields
    <3>3. tab'.refs = tab.refs /\ tab'.made = tab.made /\ tab'.cbsGen = tab.cbsGen /\ tab'.bad = tab.bad
      BY <3>2 DEF TabFields
    <3>4. DOMAIN tab'.cbs = {}
      BY <3>2 DEF Empty
    <3>5. \A ref \in tab'.refs : RefOK(ref)'
      <4> SUFFICES ASSUME NEW ref \in tab.refs PROVE RefOK(ref)'
        BY <3>3
      <4>1. ref.gen \in Nat /\ ref.rep \in Nat /\ ref.id \in Nat /\ ref.gen <= tab.gen
        BY DEF RecordsOK, RefOK
      <4>2. ref.gen <= tab'.gen /\ ref.gen # tab'.gen
        BY <1>1, <3>2, <4>1
      <4> QED BY <4>1, <4>2 DEF RefOK
    <3>6. tab'.gen \in Nat
      BY <1>1, <3>2
    <3> QED BY <1>1, <2>2, <3>2, <3>3, <3>4, <3>5, <3>6 DEF RecordsOK, TabFields
  <2> QED BY <2>3, <2>4
<1>3. CASE LoadTable
  <2>1. PICK l \in Lists, n \in 0 .. MaxRecords :
          lists' = [lists EXCEPT ![l] = [gen |-> lists[l].gen + 1, next |-> n + 1, recs |-> [i \in 1 .. n |-> tab.made + i]]]
    BY <1>3 DEF LoadTable
  <2>2. tab' = [tab EXCEPT !.made = tab.made + MaxRecords]
    BY <1>3 DEF LoadTable
  <2>3. /\ TabFields \subseteq DOMAIN tab' /\ tab'.made = tab.made + MaxRecords
        /\ \A f \in TabFields \ {"made"} : tab'[f] = tab[f]
    BY <1>1, <2>2 DEF TabFields
  <2>4. /\ tab'.refs = tab.refs /\ tab'.list = tab.list /\ tab'.gen = tab.gen /\ tab'.cbs = tab.cbs
        /\ tab'.cbsGen = tab.cbsGen /\ tab'.bad = tab.bad
    BY <2>3 DEF TabFields
  <2> DEFINE t == [gen |-> lists[l].gen + 1, next |-> n + 1, recs |-> [i \in 1 .. n |-> tab.made + i]]
  <2>5. t.gen = lists[l].gen + 1 /\ t.next = n + 1 /\ DOMAIN t.recs = 1 .. n /\ {"gen", "recs", "next"} \subseteq DOMAIN t
    OBVIOUS
  <2>6. lists[l].gen \in Nat /\ n \in Nat
    BY <1>1 DEF RecordsOK
  <2>7. DOMAIN lists' = DOMAIN lists /\ lists'[l] = t /\ \A x \in Lists \ {l} : lists'[x] = lists[x]
    BY <2>1 DEF RecordsOK
  <2> HIDE DEF t
  <2>8. \A x \in Lists :
         /\ {"gen", "recs", "next"} \subseteq DOMAIN lists'[x]
         /\ lists'[x].gen \in Nat /\ lists'[x].next \in Nat
         /\ \A id \in DOMAIN lists'[x].recs : id \in Nat /\ id < lists'[x].next
    <3>1. /\ {"gen", "recs", "next"} \subseteq DOMAIN t
          /\ t.gen \in Nat /\ t.next \in Nat
          /\ \A id \in DOMAIN t.recs : id \in Nat /\ id < t.next
      BY <2>5, <2>6
    <3> QED BY <2>7, <3>1 DEF RecordsOK
  <2>9. CASE tab.list = l
    <3>1. Now' = t /\ Now = lists[l] /\ tab.list # None
      BY <2>4, <2>7, <2>9, ListsAssumption DEF Now
    <3>2. \A ref \in tab'.refs : RefOK(ref)'
      <4> SUFFICES ASSUME NEW ref \in tab.refs PROVE RefOK(ref)'
        BY <2>4
      <4>1. ref.gen = tab.gen => ref.rep < t.gen /\ ref.rep <= t.gen
        BY <2>5, <2>6, <3>1 DEF RecordsOK, RefOK
      <4>2. ref.gen = tab.gen => ref.rep # t.gen
        BY <2>5, <2>6, <4>1 DEF RecordsOK, RefOK
      <4> QED BY <2>4, <3>1, <4>1, <4>2 DEF RecordsOK, RefOK
    <3>3. DOMAIN tab.cbs # {} => tab.cbsGen <= t.gen /\ tab.cbsGen # t.gen
      <4>1. DOMAIN tab.cbs # {} => tab.cbsGen <= lists[l].gen
        BY <3>1 DEF RecordsOK
      <4> QED BY <1>1, <2>5, <2>6, <4>1
    <3>4. DOMAIN tab'.cbs # {} =>
           /\ tab'.list # None /\ tab'.cbsGen <= Now'.gen
           /\ tab'.cbsGen # Now'.gen
      BY <2>4, <3>1, <3>3
    <3> HIDE <2>9
    <3>5. tab'.made \in Nat
      BY <1>1, <2>3
    <3> QED BY <1>1, <2>3, <2>4, <2>7, <2>8, <3>2, <3>4, <3>5 DEF RecordsOK, TabFields
  <2>10. CASE tab.list # l
    <3>1. tab.list # None => Now' = Now
      BY <1>1, <2>4, <2>7, <2>10 DEF Now
    <3>2. \A ref \in tab'.refs : RefOK(ref)'
      BY <2>4, <3>1 DEF RecordsOK, RefOK
    <3>3. DOMAIN tab'.cbs # {} =>
           /\ tab'.list # None /\ tab'.cbsGen <= Now'.gen
           /\ tab'.cbsGen = Now'.gen =>
                \A id \in DOMAIN tab'.cbs :
                  id \in Nat /\ id < Now'.next /\ (id \in DOMAIN Now'.recs => tab'.cbs[id] = Now'.recs[id])
      BY <2>4, <3>1 DEF RecordsOK
    <3>4. tab'.made \in Nat
      BY <1>1, <2>3
    <3> QED BY <1>1, <2>3, <2>4, <2>7, <2>8, <3>2, <3>3, <3>4 DEF RecordsOK, TabFields
  <2> QED BY <2>9, <2>10
<1> QED BY <1>2, <1>3

\* A script changes the records of the current table; no number is given twice.
LEMMA ListChanges ==
  ASSUME RecordsOK, tab.list # None, NEW t,
         lists' = [lists EXCEPT ![tab.list] = t],
         {"gen", "recs", "next"} \subseteq DOMAIN t, t.gen = Now.gen, t.next \in Nat, Now.next <= t.next,
         \A id \in DOMAIN t.recs : id \in Nat /\ id < t.next,
         \A id \in DOMAIN t.recs : id < Now.next => id \in DOMAIN Now.recs /\ t.recs[id] = Now.recs[id],
         TabFields \subseteq DOMAIN tab', tab'.list = tab.list, tab'.gen = tab.gen, tab'.made \in Nat, tab'.bad = FALSE,
         tab'.cbsGen \in Int,
         \A ref \in tab'.refs : ref \in tab.refs \/ RefOK(ref)',
         \/ tab'.cbs = tab.cbs /\ tab'.cbsGen = tab.cbsGen
         \/ tab'.cbsGen = Now.gen /\ \A id \in DOMAIN tab'.cbs : CallbackOK(id, tab'.cbs[id])
  PROVE  RecordsOK'
<1>1. /\ tab.list \in Lists /\ Now.gen \in Nat /\ Now.next \in Nat /\ tab.gen \in Nat
      /\ \A id \in DOMAIN Now.recs : id \in Nat /\ id < Now.next
  BY TableFacts DEF RecordsOK
<1>2. DOMAIN lists' = DOMAIN lists /\ lists'[tab.list] = t /\ \A x \in Lists \ {tab.list} : lists'[x] = lists[x]
  BY <1>1 DEF RecordsOK
<1>3. Now' = t
  BY <1>2 DEF Now
<1>4. \A x \in Lists :
       /\ {"gen", "recs", "next"} \subseteq DOMAIN lists'[x]
       /\ lists'[x].gen \in Nat /\ lists'[x].next \in Nat
       /\ \A id \in DOMAIN lists'[x].recs : id \in Nat /\ id < lists'[x].next
  BY <1>1, <1>2 DEF RecordsOK
<1>5. \A id \in Nat : id < Now.next => id < t.next
  BY <1>1
<1>6. \A ref \in tab'.refs : RefOK(ref)'
  <2> SUFFICES ASSUME NEW ref \in tab.refs PROVE RefOK(ref)'
    OBVIOUS
  <2>1. RefOK(ref)
    BY DEF RecordsOK
  <2> QED BY <1>3, <1>5, <2>1 DEF RefOK
<1>7. \A id, uid : CallbackOK(id, uid) => id \in Nat /\ id < t.next /\ (id \in DOMAIN t.recs => uid = t.recs[id])
  BY <1>5 DEF CallbackOK
<1>8. DOMAIN tab'.cbs # {} =>
       /\ tab'.list # None /\ tab'.cbsGen <= t.gen
       /\ tab'.cbsGen = t.gen => \A id \in DOMAIN tab'.cbs : CallbackOK(id, tab'.cbs[id])
  <2>1. CASE tab'.cbs = tab.cbs /\ tab'.cbsGen = tab.cbsGen
    <3> SUFFICES ASSUME DOMAIN tab.cbs # {}
                 PROVE  /\ tab.cbsGen <= Now.gen
                        /\ tab.cbsGen = Now.gen => \A id \in DOMAIN tab.cbs : CallbackOK(id, tab.cbs[id])
      BY <2>1
    <3>1. /\ tab.cbsGen <= Now.gen
          /\ tab.cbsGen = Now.gen =>
               \A id \in DOMAIN tab.cbs : id \in Nat /\ id < Now.next /\ (id \in DOMAIN Now.recs => tab.cbs[id] = Now.recs[id])
      BY DEF RecordsOK
    <3> QED BY <3>1, Zenon DEF CallbackOK
  <2>2. CASE tab'.cbsGen = Now.gen /\ \A id \in DOMAIN tab'.cbs : CallbackOK(id, tab'.cbs[id])
    BY <1>1, <2>2
  <2> QED BY <2>1, <2>2
<1>9. DOMAIN tab'.cbs # {} =>
       /\ tab'.list # None /\ tab'.cbsGen <= Now'.gen
       /\ tab'.cbsGen = Now'.gen =>
            \A id \in DOMAIN tab'.cbs :
              id \in Nat /\ id < Now'.next /\ (id \in DOMAIN Now'.recs => tab'.cbs[id] = Now'.recs[id])
  BY <1>3, <1>7, <1>8
<1>10. tab'.list \in Lists \cup {None} /\ tab'.gen \in Nat
  BY <1>1
<1> QED BY <1>2, <1>4, <1>6, <1>9, <1>10 DEF RecordsOK, TabFields

LEMMA ScriptsChangeLists ==
  ASSUME RecordsOK, CreateRecord \/ AppendTable \/ DeleteRecord
  PROVE  RecordsOK'
<1>1. /\ TabFields \subseteq DOMAIN tab /\ tab.bad = FALSE /\ tab.cbsGen \in Int /\ tab.gen \in Nat /\ tab.made \in Nat
      /\ MaxRecords \in Nat
  BY ListsAssumption DEF RecordsOK, TabFields
<1>2. tab.list # None
  BY ValidReaches DEF CreateRecord, AppendTable, DeleteRecord
<1>3. /\ tab.list \in Lists /\ Replaced = Now.gen /\ Now.gen \in Nat /\ Now.next \in Nat
      /\ \A id \in DOMAIN Now.recs : id \in Nat /\ id < Now.next
      /\ \A id \in DOMAIN Callbacks : CallbackOK(id, Callbacks[id])
      /\ {"gen", "recs", "next"} \subseteq DOMAIN Now /\ tab.list \in DOMAIN lists
  BY <1>2, TableFacts DEF RecordsOK, Now
<1>4. CASE CreateRecord
  <2> DEFINE uid == tab.made + 1
  <2>0. PICK ref : ref = RefTo(Now.next, uid)
    OBVIOUS
  <2> DEFINE w == With(Now.recs, Now.next, uid)
  <2> DEFINE t == [Now EXCEPT !.recs = w, !.next = Now.next + 1]
  <2>1. lists' = [lists EXCEPT ![tab.list] = t]
    BY <1>3, <1>4 DEF CreateRecord, Now
  <2>2. tab' = [tab EXCEPT !.made = uid, !.refs = tab.refs \cup {ref}]
    BY <1>4, <2>0 DEF CreateRecord, Now
  <2>3. /\ TabFields \subseteq DOMAIN tab' /\ tab'.made = uid /\ tab'.refs = tab.refs \cup {ref}
        /\ \A f \in TabFields \ {"made", "refs"} : tab'[f] = tab[f]
    BY <1>1, <2>2 DEF TabFields
  <2>4. /\ tab'.list = tab.list /\ tab'.gen = tab.gen /\ tab'.cbs = tab.cbs
        /\ tab'.cbsGen = tab.cbsGen /\ tab'.bad = tab.bad
    BY <2>3 DEF TabFields
  <2>5. /\ DOMAIN w = DOMAIN Now.recs \cup {Now.next} /\ w[Now.next] = uid
        /\ \A x \in DOMAIN Now.recs \ {Now.next} : w[x] = Now.recs[x]
    BY DEF With
  <2>6. ref.id = Now.next /\ ref.gen = tab.gen /\ ref.rep = Now.gen /\ ref.uid = uid
    BY <1>3, <2>0 DEF RefTo
  <2> HIDE DEF w
  <2>7. DOMAIN t = DOMAIN Now /\ t.recs = w /\ t.next = Now.next + 1 /\ t.gen = Now.gen
    BY <1>3
  <2> HIDE DEF t
  <2>8. Now' = t
    BY <1>3, <2>1, <2>4 DEF Now
  <2>9. Now.next + 1 \in Nat /\ Now.next <= Now.next + 1 /\ Now.next < Now.next + 1 /\ \A id \in Nat : id < Now.next => id < Now.next + 1
    BY <1>3
  <2>10. RefOK(ref)'
    <3>1. ref.gen \in Nat /\ ref.rep \in Nat /\ ref.id \in Nat /\ ref.gen <= tab'.gen
      BY <1>1, <1>3, <2>4, <2>6
    <3>2. ref.rep <= Now'.gen /\ ref.id < Now'.next
      BY <1>3, <2>6, <2>7, <2>8, <2>9
    <3>3. Now'.recs[ref.id] = ref.uid
      BY <2>5, <2>6, <2>7, <2>8
    <3> QED BY <1>2, <2>4, <3>1, <3>2, <3>3 DEF RefOK
  <2>11. tab'.made \in Nat
    BY <1>1, <2>3
  <2>12. \A id \in DOMAIN t.recs : id \in Nat /\ id < t.next
    BY <1>3, <2>5, <2>7, <2>9
  <2>13. \A id \in DOMAIN t.recs : id < Now.next => id \in DOMAIN Now.recs /\ t.recs[id] = Now.recs[id]
    BY <1>3, <2>5, <2>7
  <2>14. \A r \in tab'.refs : r \in tab.refs \/ RefOK(r)'
    BY <2>3, <2>10
  <2> QED BY <1>1, <1>2, <1>3, <2>1, <2>3, <2>4, <2>7, <2>9, <2>11, <2>12, <2>13, <2>14, ListChanges
<1>5. CASE AppendTable
  <2>1. PICK n \in 1 .. MaxRecords :
          /\ lists' = [lists EXCEPT ![tab.list].next = @ + n,
                                  ![tab.list].recs = [i \in DOMAIN Now.recs \cup (Now.next .. Now.next + n - 1) |->
                                                      IF i >= Now.next THEN tab.made + i - Now.next + 1 ELSE Now.recs[i]]]
          /\ tab' = [tab EXCEPT !.made = @ + n]
    BY <1>5 DEF AppendTable, Now
  <2> DEFINE w == [i \in DOMAIN Now.recs \cup (Now.next .. Now.next + n - 1) |->
                     IF i >= Now.next THEN tab.made + i - Now.next + 1 ELSE Now.recs[i]]
  <2> DEFINE t == [Now EXCEPT !.next = Now.next + n, !.recs = w]
  <2>2. lists' = [lists EXCEPT ![tab.list] = t]
    BY <1>3, <2>1 DEF Now
  <2>3. /\ TabFields \subseteq DOMAIN tab' /\ tab'.made = tab.made + n
        /\ \A f \in TabFields \ {"made"} : tab'[f] = tab[f]
    BY <1>1, <2>1 DEF TabFields
  <2>4. /\ tab'.list = tab.list /\ tab'.gen = tab.gen /\ tab'.cbs = tab.cbs /\ tab'.refs = tab.refs
        /\ tab'.cbsGen = tab.cbsGen /\ tab'.bad = tab.bad
    BY <2>3 DEF TabFields
  <2>5. n \in Nat
    BY <1>1
  <2>6. /\ DOMAIN w = DOMAIN Now.recs \cup (Now.next .. Now.next + n - 1)
        /\ \A x \in DOMAIN w : ~(x >= Now.next) => w[x] = Now.recs[x]
    OBVIOUS
  <2> HIDE DEF w
  <2>7. DOMAIN t = DOMAIN Now /\ t.recs = w /\ t.next = Now.next + n /\ t.gen = Now.gen
    BY <1>3
  <2> HIDE DEF t
  <2>8. t.next \in Nat /\ Now.next <= t.next /\ \A id \in Nat : id < Now.next => id < t.next
    BY <1>3, <2>5, <2>7
  <2>9. \A id \in Now.next .. Now.next + n - 1 : id \in Nat /\ id < t.next /\ ~(id < Now.next)
    BY <1>3, <2>5, <2>7
  <2>10. \A id \in DOMAIN t.recs : id \in Nat /\ id < t.next
    BY <1>3, <2>6, <2>7, <2>8, <2>9
  <2>11. \A id \in DOMAIN t.recs : id < Now.next => id \in DOMAIN Now.recs /\ t.recs[id] = Now.recs[id]
    BY <1>3, <2>6, <2>7, <2>9
  <2>12. tab'.made \in Nat
    BY <1>1, <2>3, <2>5
  <2> QED BY <1>1, <1>2, <1>3, <2>2, <2>3, <2>4, <2>7, <2>8, <2>10, <2>11, <2>12, ListChanges
<1>6. CASE DeleteRecord
  <2>1. PICK ref \in tab.refs :
          /\ Valid(ref)
          /\ lists' = [lists EXCEPT ![tab.list].recs = Without(@, ref.id)]
          /\ tab' = [tab EXCEPT !.bad = Reach(ref), !.cbs = Without(Callbacks, ref.id), !.cbsGen = Replaced]
    BY <1>2, <1>6 DEF DeleteRecord
  <2>2. Reach(ref) = FALSE
    BY <2>1, ValidReaches
  <2> DEFINE w == Without(Now.recs, ref.id)
  <2> DEFINE c == Without(Callbacks, ref.id)
  <2> DEFINE t == [Now EXCEPT !.recs = w]
  <2>3. lists' = [lists EXCEPT ![tab.list] = t]
    BY <1>3, <2>1 DEF Now
  <2>4. /\ TabFields \subseteq DOMAIN tab' /\ tab'.cbs = c /\ tab'.cbsGen = Replaced
        /\ \A f \in TabFields \ {"bad", "cbs", "cbsGen"} : tab'[f] = tab[f]
    BY <1>1, <2>1 DEF TabFields
  <2>5. tab'.bad = FALSE
    BY <1>1, <2>1, <2>2 DEF TabFields
  <2>6. tab'.list = tab.list /\ tab'.gen = tab.gen /\ tab'.refs = tab.refs /\ tab'.made = tab.made
    BY <2>4 DEF TabFields
  <2>7. DOMAIN w = DOMAIN Now.recs \ {ref.id} /\ \A x \in DOMAIN w : w[x] = Now.recs[x]
    BY DEF Without
  <2>8. DOMAIN c = DOMAIN Callbacks \ {ref.id} /\ \A x \in DOMAIN c : c[x] = Callbacks[x]
    BY DEF Without
  <2> HIDE DEF w, c
  <2>9. DOMAIN t = DOMAIN Now /\ t.recs = w /\ t.next = Now.next /\ t.gen = Now.gen
    BY <1>3
  <2> HIDE DEF t
  <2>10. \A id \in DOMAIN tab'.cbs : CallbackOK(id, tab'.cbs[id])
    BY <1>3, <2>4, <2>8
  <2>11. \A id \in DOMAIN t.recs : id \in Nat /\ id < t.next
    BY <1>3, <2>7, <2>9
  <2>12. \A id \in DOMAIN t.recs : id < Now.next => id \in DOMAIN Now.recs /\ t.recs[id] = Now.recs[id]
    BY <2>7, <2>9
  <2>13. t.next \in Nat /\ Now.next <= t.next /\ tab'.cbsGen = Now.gen /\ tab'.cbsGen \in Int
    BY <1>3, <2>4, <2>9
  <2> QED BY <1>1, <1>2, <1>3, <2>3, <2>4, <2>5, <2>6, <2>9, <2>10, <2>11, <2>12, <2>13, ListChanges
<1> QED BY <1>4, <1>5, <1>6

LEMMA RecordsKeep == ASSUME RecordsOK, RecordsNext PROVE RecordsOK'
BY UsesKeep, TablesKeep, ScriptsChangeLists DEF RecordsNext

\* The records' bindings only run functions, as scripts.
LEMMA RecordsRun == ASSUME EngineInv, RecordsNext PROVE EngineInv' /\ Old("callback")
<1> DEFINE f == [k |-> "script"]
<1>1. IsSeq(frames) /\ eng' = eng /\ f.k # "handler" /\ f.k # "callback"
  BY DEF EngineInv, RecordsNext, SetAddressList, LoadTable, CreateRecord, AppendTable, FindRecord, UseRecord, SetCallback,
         DeleteRecord, Activate
<1>2. frames' = frames \/ frames' = Append(frames, f)
  BY DEF RecordsNext, SetAddressList, LoadTable, CreateRecord, AppendTable, FindRecord, UseRecord, SetCallback,
         DeleteRecord, Activate, Push
<1>3. IsSeq(frames') /\ Old("handler") /\ Old("callback")
  BY <1>1, <1>2, StackStep
<1>4. EngOK(eng') /\ HitsOK(eng', frames)
  BY <1>1 DEF EngineInv
<1> QED BY <1>3, <1>4, EngineStep

\* Functions keep their slots while others run.
LEMMA ScriptsStay ==
  ASSUME ScriptInv, UNCHANGED objVars, Old("callback")
  PROVE  ScriptInv'
<1>1. reg' = reg /\ objs' = objs /\ gui' = gui /\ made' = made
  BY DEF objVars
<1>2. ObjectsOK' /\ SlotsOwned'
  BY <1>1 DEF ScriptInv, ObjectsOK, SlotsOwned
<1>3. \A i \in DOMAIN frames' : InCall(frames', i) => InCall(frames, i) /\ frames'[i] = frames[i]
  BY DEF Old, InCall
<1>4. \A f : CallOK(f) => CallOK(f)'
  BY <1>1 DEF CallOK
<1>5. CallsOK(frames)'
  BY <1>3, <1>4 DEF ScriptInv, CallsOK, InCall
<1> QED BY <1>2, <1>5 DEF ScriptInv

-----------------------------------------------------------------------------
(* Objects and the registry *)

Slotted(r, os) ==
  /\ IsSeq(os) /\ Slots \subseteq DOMAIN r
  /\ \A i \in DOMAIN os : Kept(os[i])
  /\ \A i, j \in DOMAIN os, v, w \in Events :
       os[i].slot[v] # NoSlot /\ os[i].slot[v] = os[j].slot[w] => i = j /\ v = w
  /\ \A i \in DOMAIN os, v \in Events : os[i].slot[v] # NoSlot => r[os[i].slot[v]] = os[i].want[v]
  /\ \A s \in Slots : r[s] # 0 => \E i \in DOMAIN os, v \in Events : os[i].slot[v] = s

LEMMA SlottedNow ==
  /\ ScriptInv => made \in Nat /\ Slotted(reg, objs) /\ CallsOK(frames)
  /\ made' \in Nat /\ Slotted(reg', objs') /\ CallsOK(frames)' => ScriptInv'
<1>1. ObjectsOK /\ SlotsOwned <=> made \in Nat /\ Slotted(reg, objs)
  BY Zenon DEF ObjectsOK, SlotsOwned, Slotted
<1>2. ObjectsOK' /\ SlotsOwned' <=> made' \in Nat /\ Slotted(reg', objs')
  BY Zenon DEF ObjectsOK, SlotsOwned, Slotted
<1> QED BY <1>1, <1>2 DEF ScriptInv

\* One object changes.
LEMMA Changed ==
  ASSUME NEW s, IsSeq(s), NEW i \in DOMAIN s, NEW x
  PROVE  LET t == [s EXCEPT ![i] = x] IN
         IsSeq(t) /\ DOMAIN t = DOMAIN s /\ t[i] = x /\ \A j \in DOMAIN s \ {i} : t[j] = s[j]
<1> DEFINE t == [s EXCEPT ![i] = x]
<1>1. PICK S : s \in Seq(S)
  BY DEF IsSeq
<1>2. s \in Seq(S \cup {x})
  BY <1>1
<1>3. t \in Seq(S \cup {x})
  BY <1>2
<1>4. DOMAIN t = DOMAIN s /\ t[i] = x /\ \A j \in DOMAIN s \ {i} : t[j] = s[j]
  OBVIOUS
<1> QED BY <1>3, <1>4 DEF IsSeq

\* Objects change, and none of their functions.
LEMMA OthersChange ==
  ASSUME NEW r, NEW os, NEW os2, Slotted(r, os), IsSeq(os2), DOMAIN os2 = DOMAIN os,
         \A i \in DOMAIN os : Kept(os2[i]) /\ os2[i].slot = os[i].slot /\ os2[i].want = os[i].want
  PROVE  Slotted(r, os2)
BY DEF Slotted

\* Functions are given back with their slots.
LEMMA Cleared ==
  ASSUME NEW r, NEW os, NEW r2, NEW os2, Slotted(r, os), IsSeq(os2), DOMAIN os2 = DOMAIN os, Slots \subseteq DOMAIN r2,
         \A i \in DOMAIN os : Kept(os2[i]),
         \A i \in DOMAIN os, v \in Events :
            \/ os2[i].slot[v] = os[i].slot[v] /\ os2[i].want[v] = os[i].want[v]
            \/ os2[i].slot[v] = NoSlot,
         \A s \in Slots : r2[s] = 0 \/ r2[s] = r[s],
         \A s \in Slots : r2[s] # 0 => \A i \in DOMAIN os, v \in Events : os[i].slot[v] = s => os2[i].slot[v] = s,
         \A i \in DOMAIN os, v \in Events : os2[i].slot[v] # NoSlot => r2[os2[i].slot[v]] = r[os2[i].slot[v]]
  PROVE  Slotted(r2, os2)
<1>1. \A i, j \in DOMAIN os2, v, w \in Events :
        os2[i].slot[v] # NoSlot /\ os2[i].slot[v] = os2[j].slot[w] => i = j /\ v = w
  BY DEF Slotted
<1>2. \A i \in DOMAIN os2, v \in Events : os2[i].slot[v] # NoSlot => r2[os2[i].slot[v]] = os2[i].want[v]
  BY DEF Slotted
<1>3. \A s \in Slots : r2[s] # 0 => \E i \in DOMAIN os2, v \in Events : os2[i].slot[v] = s
  BY DEF Slotted
<1> QED BY <1>1, <1>2, <1>3 DEF Slotted

\* A function is put in a free slot.
Assigned(r, os, r2, os2, i, v, s, m) ==
  /\ Slotted(r, os) /\ IsSeq(os2) /\ DOMAIN os2 = DOMAIN os
  /\ i \in DOMAIN os /\ v \in Events /\ s \in Slots /\ m \in Nat /\ m # 0
  /\ r[s] = 0 /\ os[i].slot[v] = NoSlot /\ r2 = [r EXCEPT ![s] = m]
  /\ \A j \in DOMAIN os : Kept(os2[j])
  /\ \A j \in DOMAIN os, w \in Events :
        j # i \/ w # v => os2[j].slot[w] = os[j].slot[w] /\ os2[j].want[w] = os[j].want[w]
  /\ os2[i].slot[v] = s /\ os2[i].want[v] = m

LEMMA Given ==
  ASSUME NEW r, NEW os, NEW r2, NEW os2, NEW i, NEW v, NEW s, NEW m, Assigned(r, os, r2, os2, i, v, s, m)
  PROVE  Slotted(r2, os2)
<1> USE DEF Assigned
<1>1. s # NoSlot
  BY SlotsAssumption DEF NoSlot
<1>2. \A j \in DOMAIN os, w \in Events : os[j].slot[w] # s
  BY <1>1 DEF Slotted, Kept
<1>3. Slots \subseteq DOMAIN r2 /\ r2[s] = m /\ \A x \in Slots \ {s} : r2[x] = r[x]
  BY DEF Slotted
<1>4. \A j, k \in DOMAIN os2, w, x \in Events :
        os2[j].slot[w] # NoSlot /\ os2[j].slot[w] = os2[k].slot[x] => j = k /\ w = x
  BY <1>2 DEF Slotted
<1>5. \A j \in DOMAIN os2, w \in Events : os2[j].slot[w] # NoSlot => r2[os2[j].slot[w]] = os2[j].want[w]
  BY <1>2, <1>3 DEF Slotted, Kept
<1>6. \A x \in Slots : r2[x] # 0 => \E j \in DOMAIN os2, w \in Events : os2[j].slot[w] = x
  <2> SUFFICES ASSUME NEW x \in Slots, r2[x] # 0 PROVE \E j \in DOMAIN os2, w \in Events : os2[j].slot[w] = x
    OBVIOUS
  <2>1. CASE x = s
    BY <2>1
  <2>2. CASE x # s
    <3>1. PICK j \in DOMAIN os, w \in Events : os[j].slot[w] = x
      BY <1>3, <2>2 DEF Slotted
    <3>2. j # i \/ w # v
      BY <3>1, SlotsAssumption DEF NoSlot
    <3> QED BY <3>1, <3>2
  <2> QED BY <2>1, <2>2
<1> QED BY <1>3, <1>4, <1>5, <1>6 DEF Slotted

\* A new object without functions.
LEMMA Grown ==
  ASSUME NEW r, NEW os, NEW o, Slotted(r, os), Kept(o), \A v \in Events : o.slot[v] = NoSlot
  PROVE  LET os2 == Append(os, o) IN
         /\ Slotted(r, os2) /\ DOMAIN os2 = DOMAIN os \cup {Len(os) + 1} /\ Len(os) + 1 \notin DOMAIN os
         /\ os2[Len(os) + 1] = o /\ \A i \in DOMAIN os : os2[i] = os[i]
<1> DEFINE os2 == Append(os, o)
<1>1. IsSeq(os)
  BY DEF Slotted
<1>2. /\ IsSeq(os2) /\ DOMAIN os2 = DOMAIN os \cup {Len(os) + 1} /\ Len(os) + 1 \notin DOMAIN os
      /\ os2[Len(os) + 1] = o /\ \A i \in DOMAIN os : os2[i] = os[i]
  BY <1>1, Pushed, Zenon
<1> HIDE DEF os2
<1>3. \A j \in DOMAIN os2, w \in Events : os2[j].slot[w] # NoSlot => j \in DOMAIN os /\ os2[j] = os[j]
  BY <1>2
<1>4. \A j, k \in DOMAIN os2, w, x \in Events :
        os2[j].slot[w] # NoSlot /\ os2[j].slot[w] = os2[k].slot[x] => j = k /\ w = x
  BY <1>3 DEF Slotted
<1>5. \A j \in DOMAIN os2, w \in Events : os2[j].slot[w] # NoSlot => r[os2[j].slot[w]] = os2[j].want[w]
  BY <1>3 DEF Slotted
<1>6. \A s \in Slots : r[s] # 0 => \E j \in DOMAIN os2, w \in Events : os2[j].slot[w] = s
  BY <1>2 DEF Slotted
<1>7. \A i \in DOMAIN os2 : Kept(os2[i])
  BY <1>2 DEF Slotted
<1>8. Slotted(r, os2)
  BY <1>2, <1>4, <1>5, <1>6, <1>7 DEF Slotted
<1> QED BY <1>2, <1>8 DEF os2

\* Nothing freed was used.
LEMMA NothingBad ==
  ASSUME EngOK(eng), NEW b, b = {}, Bad(b)
  PROVE  EngOK(eng') /\ \A fr : HitsOK(eng, fr) => HitsOK(eng', fr)
<1>1. eng' = [eng EXCEPT !.bad = eng.bad \cup {}]
  BY DEF Bad
<1>2. Fields \subseteq DOMAIN eng' /\ \A f \in Fields : eng'[f] = eng[f]
  BY <1>1 DEF EngOK, Fields
<1> QED BY <1>2, SameFields

\* A thread that runs goes on running, and a closed widget stays as it is.
Steady(i) ==
  i \in DOMAIN objs' /\ (objs[i].running => objs'[i].running) /\ ("call" \in objs[i].kept => "call" \in objs'[i].kept)
Settled(i) ==
  /\ i \in DOMAIN objs'
  /\ objs[i].state = "gone" /\ objs[i].kind = "widget" =>
       /\ objs'[i].state = "gone" /\ objs'[i].kind = "widget"
       /\ objs'[i].slot["close"] = objs[i].slot["close"] /\ objs'[i].want["close"] = objs[i].want["close"]

LEMMA CallStays ==
  ASSUME NEW f, CallOK(f), gui' => gui, DOMAIN objs \subseteq DOMAIN objs',
         f.event = "run" => Steady(f.obj), f.event = "close" => Settled(f.obj)
  PROVE  CallOK(f)'
<1>1. f.obj \in DOMAIN objs' /\ f.event \in Events
  BY DEF CallOK
<1>2. f.event = "run" => objs'[f.obj].running /\ "call" \in objs'[f.obj].kept
  BY DEF CallOK, Steady
<1>3. f.event = "close" /\ gui' =>
       /\ objs'[f.obj].state = "gone" /\ objs'[f.obj].kind = "widget"
       /\ f.slot # NoSlot /\ objs'[f.obj].slot["close"] = f.slot /\ objs'[f.obj].want["close"] = f.fn
  BY DEF CallOK, Settled
<1> QED BY <1>1, <1>2, <1>3 DEF CallOK

LEMMA StackStays ==
  ASSUME CallsOK(frames), gui' => gui, Old("callback"), DOMAIN objs \subseteq DOMAIN objs',
         \A i \in DOMAIN objs : Steady(i) /\ Settled(i)
  PROVE  CallsOK(frames)'
<1>1. \A i \in DOMAIN frames' : InCall(frames', i) => InCall(frames, i) /\ frames'[i] = frames[i]
  BY DEF Old, InCall
<1>2. \A f : CallOK(f) => f.obj \in DOMAIN objs
  BY DEF CallOK
<1>3. \A f : CallOK(f) => CallOK(f)'
  BY <1>2, CallStays
<1> QED BY <1>1, <1>3 DEF CallsOK, InCall

\* A function is called: c is its frame on top of the stack.
LEMMA StackGrows ==
  ASSUME CallsOK(frames), gui' => gui, DOMAIN objs \subseteq DOMAIN objs', \A i \in DOMAIN objs : Steady(i) /\ Settled(i),
         NEW top \in DOMAIN frames', CallOK(frames[top])',
         \A i \in DOMAIN frames' \ {top} : InCall(frames', i) => InCall(frames, i) /\ frames'[i] = frames[i],
         \A i \in DOMAIN frames :
            InCall(frames, i) /\ frames[i].event = frames'[top].event /\ frames[i].event \in {"run", "close"}
            => frames[i].obj # frames'[top].obj
  PROVE  CallsOK(frames)'
<1>1. \A f : CallOK(f) => f.obj \in DOMAIN objs
  BY DEF CallOK
<1>2. \A f : CallOK(f) => CallOK(f)'
  BY <1>1, CallStays
<1>3. \A i \in DOMAIN frames' : InCall(frames', i) => CallOK(frames[i])'
  BY <1>2 DEF CallsOK, InCall
<1>4. \A i, j \in DOMAIN frames' :
        InCall(frames', i) /\ InCall(frames', j) /\ i # j /\ frames'[i].event = frames'[j].event
        /\ frames'[i].event \in {"run", "close"} => frames'[i].obj # frames'[j].obj
  BY DEF CallsOK, InCall
<1> QED BY <1>3, <1>4 DEF CallsOK

LEMMA Unchanging ==
  ASSUME objs' = objs
  PROVE  \A i \in DOMAIN objs : Steady(i) /\ Settled(i)
BY DEF Steady, Settled

\* Objects change, and no function of theirs.
LEMMA QuietKeeps ==
  ASSUME EngineInv, ScriptInv, Create \/ Enable \/ Terminate \/ DestroyLater
  PROVE  EngineInv' /\ ScriptInv'
<1>1. eng' = eng /\ frames' = frames /\ reg' = reg /\ gui' = gui /\ made' = made
  BY DEF Create, Enable, Terminate, DestroyLater
<1>2. EngineInv'
  BY <1>1 DEF EngineInv
<1>3. Old("callback")
  BY <1>1 DEF Old
<1>4. made \in Nat /\ Slotted(reg, objs) /\ CallsOK(frames)
  BY SlottedNow
<1>5. CASE Create
  <2>1. PICK kind : objs' = Append(objs, Object(kind))
    BY <1>5 DEF Create
  <2> DEFINE o == Object(kind)
  <2>2. Kept(o) /\ \A v \in Events : o.slot[v] = NoSlot
    <3>1. /\ {"kind", "state", "on", "running", "done", "kept", "slot", "want"} \subseteq DOMAIN o
          /\ o.slot = [v \in Events |-> NoSlot] /\ o.want = [v \in Events |-> 0]
      BY DEF Object
    <3> HIDE DEF o
    <3> QED BY <3>1 DEF Kept
  <2> HIDE DEF o
  <2>3. /\ Slotted(reg, objs') /\ DOMAIN objs' = DOMAIN objs \cup {Len(objs) + 1} /\ \A i \in DOMAIN objs : objs'[i] = objs[i]
    BY <1>4, <2>1, <2>2, Grown DEF o
  <2>4. \A i \in DOMAIN objs : Steady(i) /\ Settled(i)
    BY <2>3 DEF Steady, Settled
  <2>5. CallsOK(frames)'
    BY <1>1, <1>3, <1>4, <2>3, <2>4, StackStays
  <2> QED BY <1>1, <1>2, <1>4, <2>3, <2>5, SlottedNow
<1>6. CASE Enable \/ Terminate \/ DestroyLater
  <2>1. PICK i, x :
          /\ i \in DOMAIN objs /\ objs' = [objs EXCEPT ![i] = x]
          /\ DOMAIN x = DOMAIN objs[i]
          /\ x.slot = objs[i].slot /\ x.want = objs[i].want /\ x.kept = objs[i].kept /\ x.kind = objs[i].kind
          /\ x.running = objs[i].running
          /\ x.state = objs[i].state \/ objs[i].state # "gone"
    <3>1. \A i \in DOMAIN objs : Kept(objs[i])
      BY <1>4 DEF Slotted
    <3>2. CASE Enable
      <4>1. PICK i \in DOMAIN objs : objs' = [objs EXCEPT ![i] = [objs[i] EXCEPT !.on = ~objs[i].on]]
        BY <3>2 DEF Enable
      <4> DEFINE x == [objs[i] EXCEPT !.on = ~objs[i].on]
      <4>2. DOMAIN x = DOMAIN objs[i] /\ \A f \in DOMAIN objs[i] \ {"on"} : x[f] = objs[i][f]
        OBVIOUS
      <4>3. objs' = [objs EXCEPT ![i] = x]
        BY <4>1
      <4> HIDE DEF x
      <4>4. {"kind", "state", "running", "kept", "slot", "want"} \subseteq DOMAIN objs[i] \ {"on"}
        BY <3>1 DEF Kept
      <4>5. /\ x.slot = objs[i].slot /\ x.want = objs[i].want /\ x.kept = objs[i].kept /\ x.kind = objs[i].kind
            /\ x.running = objs[i].running /\ x.state = objs[i].state
        BY <4>2, <4>4
      <4> QED BY <4>2, <4>3, <4>5
    <3>3. CASE Terminate
      <4>1. PICK i \in DOMAIN objs : objs' = [objs EXCEPT ![i] = [objs[i] EXCEPT !.done = TRUE]]
        BY <3>3 DEF Terminate
      <4> DEFINE x == [objs[i] EXCEPT !.done = TRUE]
      <4>2. DOMAIN x = DOMAIN objs[i] /\ \A f \in DOMAIN objs[i] \ {"done"} : x[f] = objs[i][f]
        OBVIOUS
      <4>3. objs' = [objs EXCEPT ![i] = x]
        BY <4>1
      <4> HIDE DEF x
      <4>4. {"kind", "state", "running", "kept", "slot", "want"} \subseteq DOMAIN objs[i] \ {"done"}
        BY <3>1 DEF Kept
      <4>5. /\ x.slot = objs[i].slot /\ x.want = objs[i].want /\ x.kept = objs[i].kept /\ x.kind = objs[i].kind
            /\ x.running = objs[i].running /\ x.state = objs[i].state
        BY <4>2, <4>4
      <4> QED BY <4>2, <4>3, <4>5
    <3>4. CASE DestroyLater
      <4>1. PICK i \in DOMAIN objs : Is(i, "widget") /\ objs' = [objs EXCEPT ![i] = [objs[i] EXCEPT !.state = "dying"]]
        BY <3>4 DEF DestroyLater
      <4> QED BY <3>1, <4>1 DEF Kept, Is
    <3> QED BY <1>6, <3>2, <3>3, <3>4
  <2>2. IsSeq(objs) /\ \A j \in DOMAIN objs : Kept(objs[j])
    BY <1>4 DEF Slotted
  <2>3. IsSeq(objs') /\ DOMAIN objs' = DOMAIN objs /\ objs'[i] = x /\ \A j \in DOMAIN objs \ {i} : objs'[j] = objs[j]
    BY <2>1, <2>2, Changed
  <2>4. Kept(x)
    BY <2>1, <2>2 DEF Kept
  <2>5. \A j \in DOMAIN objs : Kept(objs'[j]) /\ objs'[j].slot = objs[j].slot /\ objs'[j].want = objs[j].want
    BY <2>1, <2>2, <2>3, <2>4
  <2>6. Slotted(reg, objs')
    BY <1>4, <2>3, <2>5, OthersChange
  <2>7. \A j \in DOMAIN objs : Steady(j) /\ Settled(j)
    BY <2>1, <2>3 DEF Steady, Settled
  <2>8. CallsOK(frames)'
    BY <1>1, <1>3, <1>4, <2>3, <2>7, StackStays
  <2> QED BY <1>1, <1>2, <1>4, <2>6, <2>8, SlottedNow
<1> QED BY <1>5, <1>6

-----------------------------------------------------------------------------
(* Functions are called *)

OnTop(c, top) ==
  /\ top \in DOMAIN frames' /\ frames'[top] = c
  /\ \A i \in DOMAIN frames' \ {top} : frames'[i].k = "callback" => i \in DOMAIN frames /\ frames'[i] = frames[i]

LEMMA TopStep ==
  ASSUME IsSeq(frames), NEW c, NEW f, c.k = "callback", f.k = "timers",
         \/ frames' = Append(frames, c)
         \/ ~Idle /\ frames' = Append(Append(Front(frames), f), c)
  PROVE  IsSeq(frames') /\ Old("handler") /\ \E top : OnTop(c, top)
<1>1. CASE frames' = Append(frames, c)
  <2>1. /\ IsSeq(frames') /\ DOMAIN frames' = DOMAIN frames \cup {Len(frames) + 1}
        /\ \A i \in DOMAIN frames : frames'[i] = frames[i]
        /\ frames'[Len(frames) + 1] = c
    BY <1>1, Pushed
  <2>2. OnTop(c, Len(frames) + 1)
    BY <2>1 DEF OnTop
  <2> QED BY <2>1, <2>2 DEF Old
<1>2. CASE ~Idle /\ frames' = Append(Append(Front(frames), f), c)
  <2> DEFINE t == Append(Front(frames), f)
  <2>1. frames # <<>>
    BY <1>2 DEF Idle
  <2>2. /\ IsSeq(t) /\ DOMAIN t = DOMAIN frames /\ Len(frames) \in DOMAIN frames
        /\ \A i \in DOMAIN frames \ {Len(frames)} : t[i] = frames[i]
        /\ t[Len(frames)] = f
    BY <2>1, Swapped, Zenon
  <2>3. frames' = Append(t, c)
    BY <1>2
  <2> HIDE DEF t
  <2>4. /\ IsSeq(frames') /\ DOMAIN frames' = DOMAIN t \cup {Len(t) + 1} /\ Len(t) + 1 \notin DOMAIN t
        /\ \A i \in DOMAIN t : frames'[i] = t[i]
        /\ frames'[Len(t) + 1] = c
    BY <2>2, <2>3, Pushed
  <2>5. \A i \in DOMAIN frames' \ {Len(t) + 1} : i \in DOMAIN frames /\ (frames'[i] = frames[i] \/ frames'[i] = f)
    BY <2>2, <2>4
  <2>6. OnTop(c, Len(t) + 1)
    BY <2>4, <2>5 DEF OnTop
  <2>7. Old("handler")
    BY <2>4, <2>5 DEF Old
  <2> QED BY <2>4, <2>6, <2>7
<1> QED BY <1>1, <1>2

\* A function that is in its slot is called.
LEMMA CallKeeps ==
  ASSUME EngineInv, ScriptInv, NEW c, NEW f, f.k = "timers", c.k = "callback", c.event \in Events \ {"close"},
         c.obj \in DOMAIN objs, NEW b, b = {}, Bad(b),
         \/ frames' = Append(frames, c)
         \/ ~Idle /\ frames' = Append(Append(Front(frames), f), c),
         reg' = reg, gui' = gui, made' = made, Slotted(reg, objs'), DOMAIN objs \subseteq DOMAIN objs',
         \A i \in DOMAIN objs : Steady(i) /\ Settled(i),
         c.event = "run" => ~objs[c.obj].running /\ objs'[c.obj].running /\ "call" \in objs'[c.obj].kept
  PROVE  EngineInv' /\ ScriptInv'
<1>1. EngOK(eng) /\ HitsOK(eng, frames) /\ IsSeq(frames) /\ made \in Nat /\ CallsOK(frames)
  BY SlottedNow DEF EngineInv
<1>2. EngOK(eng') /\ HitsOK(eng', frames)
  BY <1>1, NothingBad
<1>3. IsSeq(frames') /\ Old("handler") /\ \E top : OnTop(c, top)
  BY <1>1, TopStep
<1>4. EngineInv'
  BY <1>2, <1>3, EngineStep
<1>5. PICK top : OnTop(c, top)
  BY <1>3
<1>6. CallOK(frames[top])'
  BY <1>5 DEF OnTop, CallOK
<1>7. \A i \in DOMAIN frames' \ {top} : InCall(frames', i) => InCall(frames, i) /\ frames'[i] = frames[i]
  BY <1>5 DEF OnTop, InCall
<1>8. \A i \in DOMAIN frames :
        InCall(frames, i) /\ frames[i].event = frames'[top].event /\ frames[i].event \in {"run", "close"}
        => frames[i].obj # frames'[top].obj
  <2> SUFFICES ASSUME NEW i \in DOMAIN frames, InCall(frames, i), frames[i].event = c.event, c.event = "run"
               PROVE  frames[i].obj # c.obj
    BY <1>5 DEF OnTop
  <2>1. CallOK(frames[i])
    BY <1>1 DEF CallsOK
  <2> QED BY <2>1 DEF CallOK
<1>9. CallsOK(frames)'
  <2>1. top \in DOMAIN frames' /\ (gui' => gui)
    BY <1>5 DEF OnTop
  <2> QED BY <1>1, <1>6, <1>7, <1>8, <2>1, StackGrows
<1> QED BY <1>1, <1>4, <1>9, SlottedNow

LEMMA CallsRun ==
  ASSUME EngineInv, ScriptInv, Click \/ Trigger \/ RunThread \/ NextTimer
  PROVE  EngineInv' /\ ScriptInv'
<1> DEFINE f == [k |-> "timers", due |-> Tail(Top.due)]
<1>1. /\ EngOK(eng) /\ HitsOK(eng, frames) /\ IsSeq(frames) /\ made \in Nat /\ CallsOK(frames) /\ Slotted(reg, objs)
      /\ f.k = "timers" /\ reg' = reg /\ gui' = gui /\ made' = made
  BY SlottedNow DEF EngineInv, Click, Trigger, RunThread, NextTimer, objVars
<1>2. \A i \in DOMAIN objs, v \in Events : objs[i].slot[v] # NoSlot => reg[objs[i].slot[v]] = objs[i].want[v]
  BY <1>1 DEF Slotted
<1>3. "click" \in Events /\ "press" \in Events /\ "run" \in Events /\ "tick" \in Events
  BY DEF Events
<1> DEFINE C(i, v) == [k |-> "callback", obj |-> i, event |-> v, slot |-> objs[i].slot[v], fn |-> objs[i].want[v]]
<1>4. ASSUME NEW i \in DOMAIN objs, NEW v \in Events, objs[i].slot[v] # NoSlot, Call(i, v)
      PROVE  frames' = Append(frames, C(i, v)) /\ Bad({})
  BY <1>2, <1>4 DEF Call, Push
<1>5. ASSUME NEW i \in DOMAIN objs, NEW v \in Events, v # "close", v # "run", objs[i].slot[v] # NoSlot, Bad({}), objs' = objs,
             \/ frames' = Append(frames, C(i, v))
             \/ ~Idle /\ frames' = Append(Append(Front(frames), f), C(i, v))
      PROVE  EngineInv' /\ ScriptInv'
  <2> DEFINE c == C(i, v)
  <2>1. c.k = "callback" /\ c.event = v /\ c.obj = i
    OBVIOUS
  <2>2. \A j \in DOMAIN objs : Steady(j) /\ Settled(j)
    BY <1>5, Unchanging
  <2> HIDE DEF f
  <2>3. \/ frames' = Append(frames, c)
        \/ ~Idle /\ frames' = Append(Append(Front(frames), f), c)
    BY <1>5
  <2> HIDE DEF c, C
  <2> QED BY <1>1, <1>5, <2>1, <2>2, <2>3, CallKeeps
<1>6. CASE Click
  <2>1. PICK i \in DOMAIN objs : objs[i].slot["click"] # NoSlot /\ Call(i, "click")
    BY <1>6 DEF Click
  <2>2. objs' = objs
    BY <1>6 DEF Click
  <2> QED BY <1>3, <1>4, <1>5, <2>1, <2>2
<1>7. CASE Trigger
  <2>1. PICK i \in DOMAIN objs : objs[i].slot["press"] # NoSlot /\ Call(i, "press")
    BY <1>7 DEF Trigger
  <2>2. objs' = objs
    BY <1>7 DEF Trigger
  <2> QED BY <1>3, <1>4, <1>5, <2>1, <2>2
<1>8. CASE NextTimer
  <2>1. ~Idle
    BY <1>8 DEF NextTimer
  <2> DEFINE i == Head(Top.due)
  <2>2. objs' = objs
    BY <1>8 DEF NextTimer, objVars
  <2>3. CASE StillDue(i)
    <3>1. i \in DOMAIN objs /\ objs[i].slot["tick"] # NoSlot
      BY <2>3 DEF StillDue, Due, Is
    <3>2. frames' = Append(Append(Front(frames), f), C(i, "tick"))
      BY <1>8, <2>3 DEF NextTimer
    <3>3. Bad(IF objs[i].slot["tick"] = NoSlot \/ reg[objs[i].slot["tick"]] # objs[i].want["tick"]
              THEN {<<"called", i, "tick">>} ELSE {})
      BY <1>8, <2>3 DEF NextTimer
    <3>4. Bad({})
      BY <1>2, <1>3, <3>1, <3>3
    <3> HIDE DEF i, f, C
    <3> QED BY <1>3, <1>5, <2>1, <2>2, <3>1, <3>2, <3>4
  <2>4. CASE ~StillDue(i)
    <3>1. frames' = Append(Front(frames), f) /\ eng' = eng
      BY <1>8, <2>4 DEF NextTimer
    <3>2. f.k # "handler" /\ f.k # "callback"
      OBVIOUS
    <3> HIDE DEF f
    <3>3. IsSeq(frames') /\ Old("handler") /\ Old("callback")
      BY <1>1, <2>1, <3>1, <3>2, StackStep
    <3>4. EngineInv'
      BY <1>1, <3>1, <3>3, EngineStep
    <3>5. UNCHANGED objVars
      BY <1>1, <2>2 DEF objVars
    <3> QED BY <3>3, <3>4, <3>5, ScriptsStay
  <2> QED BY <2>3, <2>4
<1>9. CASE RunThread
  <2>1. PICK i \in DOMAIN objs :
          /\ ~objs[i].running /\ objs[i].slot["run"] # NoSlot
          /\ objs' = [objs EXCEPT ![i] = RunHeld(objs[i])]
          /\ Call(i, "run")
    BY <1>9 DEF RunThread
  <2> DEFINE c == C(i, "run")
  <2> DEFINE x == [objs[i] EXCEPT !.running = TRUE, !.kept = objs[i].kept \cup {"call"}]
  <2>2. frames' = Append(frames, c) /\ Bad({})
    BY <1>3, <1>4, <2>1
  <2>3. objs' = [objs EXCEPT ![i] = x]
    BY <2>1 DEF RunHeld
  <2>4. c.k = "callback" /\ c.event = "run" /\ c.obj = i
    OBVIOUS
  <2>5. IsSeq(objs) /\ \A j \in DOMAIN objs : Kept(objs[j])
    BY <1>1 DEF Slotted
  <2>6. /\ DOMAIN x = DOMAIN objs[i] /\ x.running = TRUE /\ x.kept = objs[i].kept \cup {"call"}
        /\ \A g \in DOMAIN objs[i] \ {"running", "kept"} : x[g] = objs[i][g]
    BY <2>5 DEF Kept
  <2> HIDE DEF x, c, C, f
  <2>7. x.slot = objs[i].slot /\ x.want = objs[i].want /\ x.state = objs[i].state /\ x.kind = objs[i].kind
    BY <2>5, <2>6 DEF Kept
  <2>8. IsSeq(objs') /\ DOMAIN objs' = DOMAIN objs /\ objs'[i] = x /\ \A j \in DOMAIN objs \ {i} : objs'[j] = objs[j]
    BY <2>3, <2>5, Changed
  <2>9. Kept(x)
    BY <2>5, <2>6, <2>7 DEF Kept
  <2>10. \A j \in DOMAIN objs : Kept(objs'[j]) /\ objs'[j].slot = objs[j].slot /\ objs'[j].want = objs[j].want
    BY <2>5, <2>7, <2>8, <2>9
  <2>11. Slotted(reg, objs')
    BY <1>1, <2>8, <2>10, OthersChange
  <2>12. \A j \in DOMAIN objs : Steady(j) /\ Settled(j)
    BY <2>6, <2>7, <2>8 DEF Steady, Settled
  <2>13. ~objs[c.obj].running /\ objs'[c.obj].running /\ "call" \in objs'[c.obj].kept
    BY <2>1, <2>4, <2>6, <2>8
  <2> QED BY <1>1, <1>3, <2>2, <2>4, <2>8, <2>11, <2>12, <2>13, CallKeeps
<1> QED BY <1>6, <1>7, <1>8, <1>9

LEMMA TimersKeep ==
  ASSUME EngineInv, ScriptInv, PumpTimers \/ TimersDone
  PROVE  EngineInv' /\ ScriptInv'
<1>1. IsSeq(frames) /\ eng' = eng /\ UNCHANGED objVars
  BY DEF EngineInv, PumpTimers, TimersDone
<1>2. PICK f : f.k = "timers" /\ (frames' = Append(frames, f) \/ (~Idle /\ frames' = Front(frames)))
  <2>1. CASE PumpTimers
    <3>1. PICK due : frames' = Append(frames, [k |-> "timers", due |-> SetToSortSeq(due, <)])
      BY <2>1 DEF PumpTimers, Push
    <3> DEFINE f == [k |-> "timers", due |-> SetToSortSeq(due, <)]
    <3>2. f.k = "timers"
      OBVIOUS
    <3> QED BY <3>1, <3>2
  <2>2. CASE TimersDone
    <3> DEFINE f == [k |-> "timers"]
    <3>1. f.k = "timers"
      OBVIOUS
    <3> QED BY <2>2, <3>1 DEF TimersDone
  <2> QED BY <2>1, <2>2
<1>3. f.k # "handler" /\ f.k # "callback"
  BY <1>2
<1>4. IsSeq(frames') /\ Old("handler") /\ Old("callback")
  BY <1>1, <1>2, <1>3, StackStep
<1>5. EngOK(eng') /\ HitsOK(eng', frames)
  BY <1>1 DEF EngineInv
<1>6. EngineInv'
  BY <1>4, <1>5, EngineStep
<1> QED BY <1>1, <1>4, <1>6, ScriptsStay

-----------------------------------------------------------------------------
(* Functions are given, replaced and given back *)

\* No slot that is given back holds another object's function.
LEMMA OwnSlots ==
  ASSUME Slotted(reg, objs), NEW i \in DOMAIN objs, NEW vs, vs \subseteq Events
  PROVE  GiveBackBad(objs[i], vs) = {} /\ \A v \in Events : UnrefBad(objs[i], v) = {}
<1>1. \A v \in Events : UnrefBad(objs[i], v) = {}
  BY DEF Slotted, UnrefBad
<1>2. GiveBackBad(objs[i], vs) = {}
  BY <1>1 DEF GiveBackBad
<1> QED BY <1>1, <1>2

LEMMA ForgetFields ==
  ASSUME NEW o, Kept(o), NEW vs
  PROVE  LET x == Forget(o, vs) IN
         /\ Kept(x) /\ DOMAIN x = DOMAIN o
         /\ \A g \in DOMAIN o \ {"slot", "want"} : x[g] = o[g]
         /\ \A v \in vs \cap Events : x.slot[v] = NoSlot /\ x.want[v] = 0
         /\ \A v \in Events \ vs : x.slot[v] = o.slot[v] /\ x.want[v] = o.want[v]
<1> DEFINE sl == [v \in Events |-> IF v \in vs THEN NoSlot ELSE o.slot[v]]
<1> DEFINE wa == [v \in Events |-> IF v \in vs THEN 0 ELSE o.want[v]]
<1> DEFINE x == Forget(o, vs)
<1>1. x = [o EXCEPT !.slot = sl, !.want = wa]
  BY DEF Forget
<1>2. /\ DOMAIN sl = Events /\ (\A v \in vs \cap Events : sl[v] = NoSlot) /\ (\A v \in Events \ vs : sl[v] = o.slot[v])
      /\ DOMAIN wa = Events /\ (\A v \in vs \cap Events : wa[v] = 0) /\ (\A v \in Events \ vs : wa[v] = o.want[v])
  OBVIOUS
<1> HIDE DEF sl, wa, x
<1>3. DOMAIN x = DOMAIN o /\ x.slot = sl /\ x.want = wa /\ \A g \in DOMAIN o \ {"slot", "want"} : x[g] = o[g]
  BY <1>1 DEF Kept
<1>4. \A v \in Events : /\ sl[v] \in Slots \cup {NoSlot} /\ wa[v] \in Nat
                        /\ sl[v] # NoSlot => wa[v] # 0
  BY <1>2 DEF Kept
<1>5. Kept(x)
  BY <1>2, <1>3, <1>4 DEF Kept
<1> QED BY <1>2, <1>3, <1>5 DEF x

\* Object i gives back the functions of the events vs.
Returned(r, os, r2, os2, i, vs) ==
  /\ Slotted(r, os) /\ IsSeq(os2) /\ DOMAIN os2 = DOMAIN os /\ i \in DOMAIN os
  /\ vs \subseteq Events /\ Slots \subseteq DOMAIN r2
  /\ \A s \in Slots : r2[s] = IF \E v \in vs : os[i].slot[v] = s THEN 0 ELSE r[s]
  /\ Kept(os2[i]) /\ \A j \in DOMAIN os \ {i} : os2[j] = os[j]
  /\ \A v \in vs : os2[i].slot[v] = NoSlot
  /\ \A v \in Events \ vs : os2[i].slot[v] = os[i].slot[v] /\ os2[i].want[v] = os[i].want[v]

LEMMA GivenBack ==
  ASSUME NEW r, NEW os, NEW r2, NEW os2, NEW i, NEW vs, Returned(r, os, r2, os2, i, vs)
  PROVE  Slotted(r2, os2)
<1> USE DEF Returned
<1>1. \A j \in DOMAIN os : Kept(os2[j])
  BY DEF Slotted
<1>2. \A j \in DOMAIN os, v \in Events :
        \/ os2[j].slot[v] = os[j].slot[v] /\ os2[j].want[v] = os[j].want[v] /\ (j # i \/ v \notin vs)
        \/ os2[j].slot[v] = NoSlot /\ j = i /\ v \in vs
  OBVIOUS
<1>3. \A s \in Slots : r2[s] = 0 \/ r2[s] = r[s]
  OBVIOUS
<1>4. \A s \in Slots : r2[s] # 0 => \A j \in DOMAIN os, v \in Events : os[j].slot[v] = s => os2[j].slot[v] = s
  <2> SUFFICES ASSUME NEW s \in Slots, r2[s] # 0, NEW j \in DOMAIN os, NEW v \in Events, os[j].slot[v] = s
               PROVE  os2[j].slot[v] = s
    OBVIOUS
  <2>1. ~ \E w \in vs : os[i].slot[w] = s
    OBVIOUS
  <2> QED BY <1>2, <2>1
<1>5. \A j \in DOMAIN os, v \in Events : os2[j].slot[v] # NoSlot => r2[os2[j].slot[v]] = r[os2[j].slot[v]]
  <2> SUFFICES ASSUME NEW j \in DOMAIN os, NEW v \in Events, os2[j].slot[v] # NoSlot
               PROVE  r2[os2[j].slot[v]] = r[os2[j].slot[v]]
    OBVIOUS
  <2>1. os2[j].slot[v] = os[j].slot[v] /\ (j # i \/ v \notin vs) /\ os[j].slot[v] \in Slots
    BY <1>2 DEF Slotted, Kept
  <2>2. ~ \E w \in vs : os[i].slot[w] = os[j].slot[v]
    BY <2>1 DEF Slotted
  <2> QED BY <2>1, <2>2
<1> QED BY <1>1, <1>2, <1>3, <1>4, <1>5, Cleared

LEMMA UnrefSlots ==
  ASSUME NEW r, NEW q, Slots \subseteq DOMAIN r, q \in Slots \cup {NoSlot}
  PROVE  Slots \subseteq DOMAIN Unref(r, q) /\ \A s \in Slots : Unref(r, q)[s] = IF q = s THEN 0 ELSE r[s]
<1>1. NoSlot \notin Slots
  BY SlotsAssumption DEF NoSlot
<1> QED BY <1>1 DEF Unref

\* A widget that is not gone changes, and no function runs or returns.
LEMMA SlotStep ==
  ASSUME EngineInv, ScriptInv, made' \in Nat, Slotted(reg', objs'), NEW b, b = {}, Bad(b), frames' = frames, gui' = gui,
         DOMAIN objs \subseteq DOMAIN objs', \A j \in DOMAIN objs : Steady(j) /\ Settled(j)
  PROVE  EngineInv' /\ ScriptInv'
<1>1. EngOK(eng) /\ HitsOK(eng, frames) /\ CallsOK(frames)
  BY DEF EngineInv, ScriptInv
<1>2. EngOK(eng') /\ HitsOK(eng', frames)
  BY <1>1, NothingBad
<1>3. EngineInv' /\ Old("callback")
  BY <1>2, EngineOnly
<1>4. CallsOK(frames)'
  BY <1>1, <1>3, StackStays
<1> QED BY <1>3, <1>4, SlottedNow

LEMMA BindKeeps == ASSUME EngineInv, ScriptInv, Bind PROVE EngineInv' /\ ScriptInv'
<1>1. PICK i \in DOMAIN objs, v \in Events :
        LET r == Rebind(reg, objs[i], v) IN
        /\ objs[i].state # "gone" /\ SlotsLeft(r)
        /\ reg' = [r EXCEPT ![FreeSlot(r)] = made + 1]
        /\ objs' = [objs EXCEPT ![i].slot[v] = FreeSlot(r), ![i].want[v] = made + 1]
        /\ Bad(UnrefBad(objs[i], v))
  BY DEF Bind
<1>2. frames' = frames /\ gui' = gui /\ made' = made + 1
  BY DEF Bind
<1> DEFINE o == objs[i]
<1> DEFINE r == Unref(reg, o.slot[v])
<1> DEFINE s == FreeSlot(r)
<1> DEFINE m == made + 1
<1>3. made \in Nat /\ Slotted(reg, objs)
  BY SlottedNow
<1>4. m \in Nat /\ m # 0 /\ made' = m
  BY <1>2, <1>3
<1>5. IsSeq(objs) /\ Slots \subseteq DOMAIN reg /\ Kept(o) /\ \A j \in DOMAIN objs : Kept(objs[j])
  BY <1>3 DEF Slotted
<1>6. s \in Slots /\ r[s] = 0
  BY <1>1 DEF FreeSlot, SlotsLeft, Rebind
<1>7. reg' = [r EXCEPT ![s] = m]
  BY <1>1 DEF Rebind
<1>8. /\ Slots \subseteq DOMAIN r
      /\ \A q \in Slots : r[q] = IF o.slot[v] = q THEN 0 ELSE reg[q]
  <2>1. o.slot[v] \in Slots \cup {NoSlot}
    BY <1>5 DEF Kept
  <2> QED BY <1>5, <2>1, UnrefSlots
<1> DEFINE x == Forget(o, {v})
<1> DEFINE os == [objs EXCEPT ![i] = x]
<1>9. /\ Kept(x) /\ x.slot[v] = NoSlot
      /\ \A w \in Events \ {v} : x.slot[w] = o.slot[w] /\ x.want[w] = o.want[w]
  BY <1>5, ForgetFields
<1> DEFINE y == [o EXCEPT !.slot = [o.slot EXCEPT ![v] = s], !.want = [o.want EXCEPT ![v] = m]]
<1>10. objs' = [objs EXCEPT ![i] = y]
  BY <1>1, <1>5 DEF Rebind, Kept
<1>11. /\ DOMAIN y = DOMAIN o /\ y.slot = [o.slot EXCEPT ![v] = s] /\ y.want = [o.want EXCEPT ![v] = m]
       /\ \A g \in DOMAIN o \ {"slot", "want"} : y[g] = o[g]
  BY <1>5 DEF Kept
<1> HIDE DEF x, y, r, s, m
<1>12. /\ y.slot[v] = s /\ y.want[v] = m /\ Events \subseteq DOMAIN y.slot /\ Events \subseteq DOMAIN y.want
       /\ \A w \in Events \ {v} : y.slot[w] = o.slot[w] /\ y.want[w] = o.want[w]
  BY <1>5, <1>11 DEF Kept
<1>13. Kept(y)
  BY <1>4, <1>5, <1>6, <1>11, <1>12 DEF Kept
<1>14. IsSeq(os) /\ DOMAIN os = DOMAIN objs /\ os[i] = x /\ \A j \in DOMAIN objs \ {i} : os[j] = objs[j]
  BY <1>5, Changed
<1>15. IsSeq(objs') /\ DOMAIN objs' = DOMAIN objs /\ objs'[i] = y /\ \A j \in DOMAIN objs \ {i} : objs'[j] = objs[j]
  BY <1>5, <1>10, Changed
<1> HIDE DEF os
<1>16. Slotted(r, os)
  <2>1. {v} \subseteq Events
    OBVIOUS
  <2>2. \A q \in Slots : r[q] = IF \E w \in {v} : objs[i].slot[w] = q THEN 0 ELSE reg[q]
    BY <1>8
  <2>3. Kept(os[i]) /\ \A w \in {v} : os[i].slot[w] = NoSlot
    BY <1>9, <1>14
  <2>4. \A w \in Events \ {v} : os[i].slot[w] = objs[i].slot[w] /\ os[i].want[w] = objs[i].want[w]
    BY <1>9, <1>14
  <2>5. Returned(reg, objs, r, os, i, {v})
    BY <1>3, <1>8, <1>14, <2>1, <2>2, <2>3, <2>4 DEF Returned
  <2> QED BY <2>5, GivenBack
<1>17. Slotted(reg', objs')
  <2>1. os[i].slot[v] = NoSlot /\ objs'[i].slot[v] = s /\ objs'[i].want[v] = m
    BY <1>9, <1>12, <1>14, <1>15
  <2>2. \A j \in DOMAIN os : Kept(objs'[j])
    BY <1>5, <1>13, <1>14, <1>15
  <2>3. \A j \in DOMAIN os, w \in Events :
          j # i \/ w # v => objs'[j].slot[w] = os[j].slot[w] /\ objs'[j].want[w] = os[j].want[w]
    BY <1>9, <1>12, <1>14, <1>15
  <2>4. Assigned(r, os, reg', objs', i, v, s, m)
    BY <1>4, <1>6, <1>7, <1>14, <1>15, <1>16, <2>1, <2>2, <2>3 DEF Assigned
  <2> QED BY <2>4, Given
<1>18. \A j \in DOMAIN objs : Steady(j) /\ Settled(j)
  <2>1. y.running = o.running /\ y.kept = o.kept
    BY <1>5, <1>11 DEF Kept
  <2>2. o.state # "gone"
    BY <1>1
  <2> QED BY <1>15, <2>1, <2>2 DEF Steady, Settled
<1>19. Bad({})
  <2>1. UnrefBad(objs[i], v) = {}
    BY <1>3, OwnSlots
  <2> QED BY <1>1, <2>1
<1>20. made' \in Nat /\ DOMAIN objs \subseteq DOMAIN objs'
  BY <1>4, <1>15
<1> QED BY <1>2, <1>17, <1>18, <1>19, <1>20, SlotStep

LEMMA UnbindKeeps == ASSUME EngineInv, ScriptInv, Unbind PROVE EngineInv' /\ ScriptInv'
<1>1. PICK i \in DOMAIN objs, v \in {"tick", "click", "close"} :
        /\ objs[i].state # "gone"
        /\ reg' = Unref(reg, objs[i].slot[v])
        /\ objs' = [objs EXCEPT ![i].slot[v] = NoSlot, ![i].want[v] = 0]
        /\ Bad(UnrefBad(objs[i], v))
  BY DEF Unbind
<1>2. frames' = frames /\ gui' = gui /\ made' = made /\ v \in Events /\ {v} \subseteq Events
  BY DEF Unbind, Events
<1> DEFINE o == objs[i]
<1>3. made \in Nat /\ Slotted(reg, objs)
  BY SlottedNow
<1>4. IsSeq(objs) /\ Slots \subseteq DOMAIN reg /\ Kept(o) /\ \A j \in DOMAIN objs : Kept(objs[j])
  BY <1>3 DEF Slotted
<1>5. Slots \subseteq DOMAIN reg' /\ \A q \in Slots : reg'[q] = IF \E w \in {v} : o.slot[w] = q THEN 0 ELSE reg[q]
  <2>1. o.slot[v] \in Slots \cup {NoSlot}
    BY <1>2, <1>4 DEF Kept
  <2>2. Slots \subseteq DOMAIN reg' /\ \A q \in Slots : reg'[q] = IF o.slot[v] = q THEN 0 ELSE reg[q]
    BY <1>1, <1>4, <2>1, UnrefSlots
  <2> QED BY <2>2
<1> DEFINE y == [o EXCEPT !.slot = [o.slot EXCEPT ![v] = NoSlot], !.want = [o.want EXCEPT ![v] = 0]]
<1>6. objs' = [objs EXCEPT ![i] = y]
  BY <1>1, <1>4 DEF Kept
<1>7. /\ DOMAIN y = DOMAIN o /\ y.slot = [o.slot EXCEPT ![v] = NoSlot] /\ y.want = [o.want EXCEPT ![v] = 0]
      /\ \A g \in DOMAIN o \ {"slot", "want"} : y[g] = o[g]
  BY <1>4 DEF Kept
<1> HIDE DEF y
<1>8. /\ y.slot[v] = NoSlot /\ y.want[v] = 0 /\ Events \subseteq DOMAIN y.slot /\ Events \subseteq DOMAIN y.want
      /\ \A w \in Events \ {v} : y.slot[w] = o.slot[w] /\ y.want[w] = o.want[w]
  BY <1>2, <1>4, <1>7 DEF Kept
<1>9. Kept(y)
  BY <1>4, <1>7, <1>8 DEF Kept
<1>10. IsSeq(objs') /\ DOMAIN objs' = DOMAIN objs /\ objs'[i] = y /\ \A j \in DOMAIN objs \ {i} : objs'[j] = objs[j]
  BY <1>4, <1>6, Changed
<1>11. Slotted(reg', objs')
  <2>1. Kept(objs'[i]) /\ \A w \in {v} : objs'[i].slot[w] = NoSlot
    BY <1>8, <1>9, <1>10
  <2>2. \A w \in Events \ {v} : objs'[i].slot[w] = objs[i].slot[w] /\ objs'[i].want[w] = objs[i].want[w]
    BY <1>8, <1>10
  <2>3. Returned(reg, objs, reg', objs', i, {v})
    BY <1>2, <1>3, <1>5, <1>10, <2>1, <2>2 DEF Returned
  <2> QED BY <2>3, GivenBack
<1>12. \A j \in DOMAIN objs : Steady(j) /\ Settled(j)
  <2>1. y.running = o.running /\ y.kept = o.kept
    BY <1>4, <1>7 DEF Kept
  <2> QED BY <1>1, <1>10, <2>1 DEF Steady, Settled
<1>13. Bad({})
  <2>1. UnrefBad(objs[i], v) = {}
    BY <1>2, <1>3, OwnSlots
  <2> QED BY <1>1, <2>1
<1> QED BY <1>2, <1>3, <1>10, <1>11, <1>12, <1>13, SlotStep

LEMMA MenuKeeps == ASSUME EngineInv, ScriptInv, AddMainMenuItem PROVE EngineInv' /\ ScriptInv'
<1> DEFINE s == FreeSlot(reg)
<1> DEFINE m == made + 1
<1> DEFINE o == Object("menu")
<1> DEFINE y == [o EXCEPT !.slot["click"] = s, !.want["click"] = m]
<1>1. reg' = [reg EXCEPT ![s] = m] /\ objs' = Append(objs, y) /\ made' = m
  BY DEF AddMainMenuItem
<1>2. frames' = frames /\ gui' = gui /\ eng' = eng
  BY DEF AddMainMenuItem
<1>3. made \in Nat /\ Slotted(reg, objs)
  BY SlottedNow
<1>4. m \in Nat /\ m # 0 /\ "click" \in Events
  BY <1>3 DEF Events
<1>5. s \in Slots /\ reg[s] = 0
  BY DEF AddMainMenuItem, FreeSlot, SlotsLeft
<1>6. /\ {"kind", "state", "on", "running", "done", "kept", "slot", "want"} \subseteq DOMAIN o
      /\ o.slot = [v \in Events |-> NoSlot] /\ o.want = [v \in Events |-> 0]
  BY DEF Object
<1>7. y = [o EXCEPT !.slot = [o.slot EXCEPT !["click"] = s], !.want = [o.want EXCEPT !["click"] = m]]
  BY DEF Object
<1> HIDE DEF o, y, s, m
<1>8. Kept(o) /\ \A v \in Events : o.slot[v] = NoSlot
  BY <1>6 DEF Kept
<1>9. /\ DOMAIN y = DOMAIN o /\ y.slot = [o.slot EXCEPT !["click"] = s] /\ y.want = [o.want EXCEPT !["click"] = m]
  BY <1>6, <1>7
<1>10. /\ y.slot["click"] = s /\ y.want["click"] = m /\ Events \subseteq DOMAIN y.slot /\ Events \subseteq DOMAIN y.want
       /\ \A w \in Events \ {"click"} : y.slot[w] = o.slot[w] /\ y.want[w] = o.want[w]
  BY <1>4, <1>6, <1>9
<1>11. Kept(y)
  BY <1>4, <1>5, <1>6, <1>8, <1>9, <1>10 DEF Kept
<1> DEFINE os == Append(objs, o)
<1> DEFINE k == Len(objs) + 1
<1>12. /\ Slotted(reg, os) /\ DOMAIN os = DOMAIN objs \cup {k} /\ k \notin DOMAIN objs
       /\ os[k] = o /\ \A i \in DOMAIN objs : os[i] = objs[i]
  BY <1>3, <1>8, Grown
<1> HIDE DEF os
<1>13. /\ IsSeq(objs') /\ DOMAIN objs' = DOMAIN objs \cup {k}
       /\ objs'[k] = y /\ \A i \in DOMAIN objs : objs'[i] = objs[i]
  <2>1. IsSeq(objs)
    BY <1>3 DEF Slotted
  <2> QED BY <1>1, <2>1, Pushed
<1> HIDE DEF k
<1>14. Slotted(reg', objs')
  <2>1. os[k].slot["click"] = NoSlot /\ objs'[k].slot["click"] = s /\ objs'[k].want["click"] = m
    BY <1>4, <1>8, <1>10, <1>12, <1>13
  <2>2. \A j \in DOMAIN os : Kept(objs'[j])
    BY <1>3, <1>11, <1>12, <1>13 DEF Slotted
  <2>3. \A j \in DOMAIN os, w \in Events :
          j # k \/ w # "click" => objs'[j].slot[w] = os[j].slot[w] /\ objs'[j].want[w] = os[j].want[w]
    BY <1>10, <1>12, <1>13
  <2>4. k \in DOMAIN os /\ DOMAIN objs' = DOMAIN os
    BY <1>12, <1>13
  <2>5. Assigned(reg, os, reg', objs', k, "click", s, m)
    BY <1>1, <1>4, <1>5, <1>12, <1>13, <2>1, <2>2, <2>3, <2>4 DEF Assigned
  <2> QED BY <2>5, Given
<1>15. \A j \in DOMAIN objs : Steady(j) /\ Settled(j)
  BY <1>13 DEF Steady, Settled
<1>16. EngOK(eng') /\ HitsOK(eng', frames)
  BY <1>2 DEF EngineInv
<1>17. EngineInv' /\ Old("callback")
  BY <1>2, <1>16, EngineOnly
<1>18. CallsOK(frames)'
  BY <1>2, <1>13, <1>15, <1>17, StackStays DEF ScriptInv
<1> QED BY <1>1, <1>4, <1>14, <1>17, <1>18, SlottedNow

LEMMA DestroyKeeps == ASSUME EngineInv, ScriptInv, Destroy PROVE EngineInv' /\ ScriptInv'
<1>1. PICK i \in DOMAIN objs, final \in BOOLEAN :
        LET o == objs[i]  vs == EventsOf(o.kind) IN
        /\ o.kind \in {"timer", "hotkey", "thread"} /\ o.state = "live"
        /\ reg' = GiveBack(reg, o, vs)
        /\ objs' = [objs EXCEPT ![i] = [Forget(o, vs) EXCEPT !.on = FALSE,
                                             !.state = IF final THEN "gone" ELSE @,
                                             !.kept = IF final THEN @ \ {"userdata"} ELSE @]]
        /\ Bad(GiveBackBad(o, vs))
  BY DEF Destroy
<1>2. frames' = frames /\ gui' = gui /\ made' = made
  BY DEF Destroy
<1> DEFINE o == objs[i]
<1> DEFINE vs == EventsOf(o.kind)
<1> DEFINE x == Forget(o, vs)
<1> DEFINE y == [x EXCEPT !.on = FALSE, !.state = IF final THEN "gone" ELSE x.state,
                          !.kept = IF final THEN x.kept \ {"userdata"} ELSE x.kept]
<1>3. made \in Nat /\ Slotted(reg, objs)
  BY SlottedNow
<1>4. IsSeq(objs) /\ Slots \subseteq DOMAIN reg /\ Kept(o)
  BY <1>3 DEF Slotted
<1>5. vs \subseteq Events
  <2>1. o.kind = "timer" \/ o.kind = "hotkey" \/ o.kind = "thread"
    BY <1>1
  <2> HIDE DEF o
  <2> QED BY <2>1 DEF EventsOf, Events
<1>6. /\ Kept(x) /\ DOMAIN x = DOMAIN o
      /\ \A g \in DOMAIN o \ {"slot", "want"} : x[g] = o[g]
      /\ \A v \in vs \cap Events : x.slot[v] = NoSlot /\ x.want[v] = 0
      /\ \A v \in Events \ vs : x.slot[v] = o.slot[v] /\ x.want[v] = o.want[v]
  <2> HIDE DEF vs
  <2> QED BY <1>4, ForgetFields
<1>7. objs' = [objs EXCEPT ![i] = y]
  BY <1>1
<1>8. Slots \subseteq DOMAIN reg' /\ \A s \in Slots : reg'[s] = IF \E v \in vs : o.slot[v] = s THEN 0 ELSE reg[s]
  BY <1>1 DEF GiveBack
<1> HIDE DEF x, vs
<1>9. /\ DOMAIN y = DOMAIN x /\ \A g \in DOMAIN x \ {"on", "state", "kept"} : y[g] = x[g]
      /\ y.kept \in {x.kept, x.kept \ {"userdata"}}
  BY <1>6 DEF Kept
<1> HIDE DEF y
<1>10. y.slot = x.slot /\ y.want = x.want /\ y.running = x.running
  BY <1>6, <1>9 DEF Kept
<1>11. Kept(y)
  BY <1>6, <1>9, <1>10 DEF Kept
<1>12. IsSeq(objs') /\ DOMAIN objs' = DOMAIN objs /\ objs'[i] = y /\ \A j \in DOMAIN objs \ {i} : objs'[j] = objs[j]
  BY <1>4, <1>7, Changed
<1>13. Slotted(reg', objs')
  <2>1. Kept(objs'[i]) /\ \A w \in vs : objs'[i].slot[w] = NoSlot
    BY <1>5, <1>6, <1>10, <1>11, <1>12
  <2>2. \A w \in Events \ vs : objs'[i].slot[w] = objs[i].slot[w] /\ objs'[i].want[w] = objs[i].want[w]
    BY <1>6, <1>10, <1>12
  <2>3. Returned(reg, objs, reg', objs', i, vs)
    BY <1>3, <1>5, <1>8, <1>12, <2>1, <2>2 DEF Returned
  <2> QED BY <2>3, GivenBack
<1>14. \A j \in DOMAIN objs : Steady(j) /\ Settled(j)
  <2>1. y.running = o.running /\ ("call" \in o.kept => "call" \in y.kept)
    BY <1>4, <1>6, <1>9, <1>10 DEF Kept
  <2>2. o.state # "gone"
    BY <1>1
  <2> QED BY <1>12, <2>1, <2>2 DEF Steady, Settled
<1>15. Bad({})
  <2>1. GiveBackBad(objs[i], vs) = {}
    BY <1>3, <1>5, OwnSlots
  <2> QED BY <1>1, <2>1 DEF vs
<1> QED BY <1>2, <1>3, <1>12, <1>13, <1>14, <1>15, SlotStep

\* A widget goes: the function of its end, if it has one, is called.
LEMMA DiesKeeps == ASSUME EngineInv, ScriptInv, WidgetDies PROVE EngineInv' /\ ScriptInv'
<1> DEFINE C(i) == [k |-> "callback", obj |-> i, event |-> "close", slot |-> objs[i].slot["close"], fn |-> objs[i].want["close"]]
<1>1. PICK i \in DOMAIN objs :
        LET o == objs[i] IN
        /\ o.kind = "widget"
        /\ reg' = GiveBack(reg, o, {"click"})
        /\ objs' = [objs EXCEPT ![i] = [Forget(o, {"click"}) EXCEPT !.state = "gone"]]
        /\ IF gui /\ o.slot["close"] # NoSlot
           THEN /\ frames' = Append(frames, C(i))
                /\ Bad(GiveBackBad(o, {"click"}) \cup
                       (IF reg[o.slot["close"]] # o.want["close"] THEN {<<"called", i, "close">>} ELSE {}))
           ELSE Bad(GiveBackBad(o, {"click"})) /\ frames' = frames
  BY DEF WidgetDies, Is, Push
<1>2. gui' = gui /\ made' = made /\ frames = <<>>
  BY DEF WidgetDies, Idle
<1> DEFINE o == objs[i]
<1> DEFINE x == Forget(o, {"click"})
<1> DEFINE y == [x EXCEPT !.state = "gone"]
<1> DEFINE c == C(i)
<1>3. made \in Nat /\ Slotted(reg, objs)
  BY SlottedNow
<1>4. IsSeq(objs) /\ Slots \subseteq DOMAIN reg /\ Kept(o)
  BY <1>3 DEF Slotted
<1>5. {"click"} \subseteq Events /\ "close" \in Events /\ "close" # "click"
  BY DEF Events
<1>6. /\ Kept(x) /\ DOMAIN x = DOMAIN o
      /\ \A g \in DOMAIN o \ {"slot", "want"} : x[g] = o[g]
      /\ x.slot["click"] = NoSlot
      /\ \A v \in Events \ {"click"} : x.slot[v] = o.slot[v] /\ x.want[v] = o.want[v]
  BY <1>4, <1>5, ForgetFields
<1>7. objs' = [objs EXCEPT ![i] = y]
  BY <1>1
<1>8. Slots \subseteq DOMAIN reg' /\ \A s \in Slots : reg'[s] = IF \E v \in {"click"} : o.slot[v] = s THEN 0 ELSE reg[s]
  BY <1>1 DEF GiveBack
<1> HIDE DEF x
<1>9. DOMAIN y = DOMAIN x /\ y.state = "gone" /\ \A g \in DOMAIN x \ {"state"} : y[g] = x[g]
  BY <1>6 DEF Kept
<1> HIDE DEF y
<1>10. y.slot = x.slot /\ y.want = x.want /\ y.kind = x.kind
  BY <1>6, <1>9 DEF Kept
<1>11. Kept(y)
  BY <1>6, <1>9, <1>10 DEF Kept
<1>12. IsSeq(objs') /\ DOMAIN objs' = DOMAIN objs /\ objs'[i] = y /\ \A j \in DOMAIN objs \ {i} : objs'[j] = objs[j]
  BY <1>4, <1>7, Changed
<1>13. Slotted(reg', objs')
  <2>1. Kept(objs'[i]) /\ \A w \in {"click"} : objs'[i].slot[w] = NoSlot
    BY <1>6, <1>10, <1>11, <1>12
  <2>2. \A w \in Events \ {"click"} : objs'[i].slot[w] = objs[i].slot[w] /\ objs'[i].want[w] = objs[i].want[w]
    BY <1>6, <1>10, <1>12
  <2>3. Returned(reg, objs, reg', objs', i, {"click"})
    BY <1>3, <1>5, <1>8, <1>12, <2>1, <2>2 DEF Returned
  <2> QED BY <2>3, GivenBack
<1>14. Bad({})
  <2>1. GiveBackBad(o, {"click"}) = {}
    BY <1>3, <1>5, OwnSlots
  <2>2. o.slot["close"] # NoSlot => reg[o.slot["close"]] = o.want["close"]
    BY <1>3, <1>5 DEF Slotted
  <2> QED BY <1>1, <2>1, <2>2
<1>15. EngOK(eng) /\ HitsOK(eng, frames) /\ IsSeq(frames) /\ DOMAIN frames = {}
  BY <1>2, NothingQueued DEF EngineInv
<1>16. EngOK(eng') /\ HitsOK(eng', frames)
  BY <1>14, <1>15, NothingBad
<1>17. c.k = "callback" /\ c.obj = i /\ c.event = "close" /\ c.slot = o.slot["close"] /\ c.fn = o.want["close"]
  OBVIOUS
<1>18. CASE gui /\ o.slot["close"] # NoSlot
  <2>1. frames' = Append(frames, c)
    BY <1>1, <1>18
  <2> HIDE DEF c, C
  <2>2. IsSeq(frames') /\ DOMAIN frames' = DOMAIN frames \cup {Len(frames) + 1} /\ frames'[Len(frames) + 1] = c
    BY <1>15, <2>1, Pushed
  <2>3. \A k \in DOMAIN frames' : frames'[k] = c
    BY <1>15, <2>2
  <2>4. EngineInv'
    <3>1. Old("handler")
      BY <1>17, <2>3 DEF Old
    <3> QED BY <1>16, <2>2, <3>1, EngineStep
  <2>5. y.kind = "widget" /\ y.slot["close"] = o.slot["close"] /\ y.want["close"] = o.want["close"]
    <3>1. x.kind = o.kind
      BY <1>4, <1>6 DEF Kept
    <3> QED BY <1>1, <1>5, <1>6, <1>10, <3>1
  <2>6. \A k \in DOMAIN frames' : CallOK(frames[k])'
    BY <1>5, <1>9, <1>12, <1>17, <1>18, <2>3, <2>5 DEF CallOK
  <2>7. CallsOK(frames)'
    <3>1. \A j, k \in DOMAIN frames' : j = k
      BY <1>15, <2>2
    <3> QED BY <2>6, <3>1 DEF CallsOK
  <2> QED BY <1>2, <1>3, <1>13, <2>4, <2>7, SlottedNow
<1>19. CASE ~(gui /\ o.slot["close"] # NoSlot)
  <2>1. frames' = frames
    BY <1>1, <1>19
  <2>2. EngineInv'
    BY <1>16, <2>1, EngineOnly
  <2>3. CallsOK(frames)'
    BY <1>15, <2>1 DEF CallsOK
  <2> QED BY <1>2, <1>3, <1>13, <2>2, <2>3, SlottedNow
<1> QED BY <1>18, <1>19

\* A function returns: no other call of the same thread or the same widget's
\* end is on the stack.
LEMMA ReturnsKeep == ASSUME EngineInv, ScriptInv, CallReturns PROVE EngineInv' /\ ScriptInv'
<1> DEFINE i == Top.obj
<1> DEFINE o == objs[i]
<1>1. ~Idle /\ Top.k = "callback" /\ frames' = Front(frames) /\ gui' = gui /\ made' = made
  BY DEF CallReturns
<1>2. /\ EngOK(eng) /\ HitsOK(eng, frames) /\ IsSeq(frames) /\ made \in Nat /\ Slotted(reg, objs) /\ CallsOK(frames)
  BY SlottedNow DEF EngineInv
<1>3. /\ IsSeq(frames') /\ DOMAIN frames' = DOMAIN frames \ {Len(frames)} /\ Len(frames) \in DOMAIN frames
      /\ \A j \in DOMAIN frames' : frames'[j] = frames[j]
  BY <1>1, <1>2, Popped DEF Idle
<1>4. Top = frames[Len(frames)] /\ InCall(frames, Len(frames))
  BY <1>1, <1>3 DEF Top, Last, InCall
<1>5. CallOK(Top)
  BY <1>2, <1>3, <1>4 DEF CallsOK
<1>6. /\ Old("handler") /\ Old("callback")
      /\ \A j \in DOMAIN frames' : InCall(frames', j) => InCall(frames, j) /\ j # Len(frames) /\ frames'[j] = frames[j]
  BY <1>3 DEF Old, InCall
<1>7. \A j \in DOMAIN frames' :
        InCall(frames', j) /\ frames'[j].event = Top.event /\ Top.event \in {"run", "close"} => frames'[j].obj # i
  BY <1>2, <1>3, <1>4, <1>6 DEF CallsOK, InCall
<1>8. \A j, k \in DOMAIN frames' :
        InCall(frames', j) /\ InCall(frames', k) /\ j # k /\ frames'[j].event = frames'[k].event
        /\ frames'[j].event \in {"run", "close"} => frames'[j].obj # frames'[k].obj
  BY <1>2, <1>6 DEF CallsOK, InCall
<1>9. \A j \in DOMAIN frames' : InCall(frames', j) => CallOK(frames'[j]) /\ frames'[j].obj \in DOMAIN objs
  BY <1>2, <1>6 DEF CallsOK, InCall, CallOK
<1>10. IsSeq(objs) /\ Slots \subseteq DOMAIN reg /\ i \in DOMAIN objs /\ Kept(o) /\ \A j \in DOMAIN objs : Kept(objs[j])
  BY <1>2, <1>5 DEF Slotted, CallOK
<1>11. CASE Top.event = "run"
  <2> DEFINE y == [o EXCEPT !.running = FALSE, !.done = TRUE, !.kept = o.kept \ {"call"}]
  <2>1. objs' = [objs EXCEPT ![i].running = FALSE, ![i].done = TRUE, ![i].kept = @ \ {"call"}]
    BY <1>11 DEF CallReturns
  <2>2. Bad(IF o.kept = {} THEN {<<"thread", i>>} ELSE {}) /\ reg' = reg
    BY <1>11 DEF CallReturns
  <2>3. objs' = [objs EXCEPT ![i] = y]
    BY <1>10, <2>1 DEF Kept
  <2>4. Bad({})
    <3>1. "call" \in o.kept
      BY <1>5, <1>11 DEF CallOK
    <3> QED BY <2>2, <3>1
  <2>5. DOMAIN y = DOMAIN o /\ \A g \in DOMAIN o \ {"running", "done", "kept"} : y[g] = o[g]
    BY <1>10 DEF Kept
  <2> HIDE DEF y
  <2>6. y.slot = o.slot /\ y.want = o.want /\ y.state = o.state /\ y.kind = o.kind
    BY <1>10, <2>5 DEF Kept
  <2>7. Kept(y)
    BY <1>10, <2>5, <2>6 DEF Kept
  <2>8. IsSeq(objs') /\ DOMAIN objs' = DOMAIN objs /\ objs'[i] = y /\ \A j \in DOMAIN objs \ {i} : objs'[j] = objs[j]
    BY <1>10, <2>3, Changed
  <2>9. \A j \in DOMAIN objs : Kept(objs'[j]) /\ objs'[j].slot = objs[j].slot /\ objs'[j].want = objs[j].want
    BY <1>10, <2>6, <2>7, <2>8
  <2>10. Slotted(reg', objs')
    BY <1>2, <2>2, <2>8, <2>9, OthersChange
  <2>11. \A j \in DOMAIN objs : Settled(j) /\ (j # i => Steady(j))
    BY <2>6, <2>8 DEF Steady, Settled
  <2>12. \A j \in DOMAIN frames' : InCall(frames', j) => CallOK(frames[j])'
    <3> SUFFICES ASSUME NEW j \in DOMAIN frames', InCall(frames', j) PROVE CallOK(frames[j])'
      OBVIOUS
    <3>1. PICK f : f = frames'[j]
      OBVIOUS
    <3>2. CallOK(f) /\ (f.event = "run" => Steady(f.obj)) /\ (f.event = "close" => Settled(f.obj))
      BY <1>7, <1>9, <1>11, <2>11, <3>1
    <3>3. CallOK(f)'
      BY <1>1, <2>8, <3>2, CallStays
    <3> QED BY <3>1, <3>3 DEF CallOK
  <2>13. CallsOK(frames)'
    BY <1>8, <2>12 DEF CallsOK
  <2>14. EngOK(eng') /\ HitsOK(eng', frames)
    BY <1>2, <2>4, NothingBad
  <2>15. EngineInv'
    BY <1>3, <1>6, <2>14, EngineStep
  <2> QED BY <1>1, <1>2, <2>10, <2>13, <2>15, SlottedNow
<1>12. CASE Top.event = "close" /\ gui
  <2> DEFINE x == Forget(o, {"close"})
  <2>1. reg' = Unref(reg, Top.slot) /\ objs' = [objs EXCEPT ![i] = x]
    BY <1>12 DEF CallReturns
  <2>2. Bad(IF reg[Top.slot] # Top.fn THEN {<<"slot", Top.slot>>} ELSE {})
    BY <1>12 DEF CallReturns
  <2>3. o.slot["close"] = Top.slot /\ o.want["close"] = Top.fn /\ Top.slot # NoSlot /\ "close" \in Events
    BY <1>5, <1>12 DEF CallOK
  <2>4. Bad({})
    <3>1. reg[o.slot["close"]] = o.want["close"]
      BY <1>2, <1>10, <2>3 DEF Slotted
    <3> QED BY <2>2, <2>3, <3>1
  <2>5. /\ Kept(x) /\ DOMAIN x = DOMAIN o
        /\ \A g \in DOMAIN o \ {"slot", "want"} : x[g] = o[g]
        /\ x.slot["close"] = NoSlot
        /\ \A v \in Events \ {"close"} : x.slot[v] = o.slot[v] /\ x.want[v] = o.want[v]
    BY <1>10, <2>3, ForgetFields
  <2> HIDE DEF x
  <2>6. Slots \subseteq DOMAIN reg' /\ \A s \in Slots : reg'[s] = IF \E v \in {"close"} : o.slot[v] = s THEN 0 ELSE reg[s]
    <3>1. Top.slot \in Slots \cup {NoSlot}
      BY <1>10, <2>3 DEF Kept
    <3>2. Slots \subseteq DOMAIN reg' /\ \A s \in Slots : reg'[s] = IF Top.slot = s THEN 0 ELSE reg[s]
      BY <1>10, <2>1, <3>1, UnrefSlots
    <3> QED BY <2>3, <3>2
  <2>7. IsSeq(objs') /\ DOMAIN objs' = DOMAIN objs /\ objs'[i] = x /\ \A j \in DOMAIN objs \ {i} : objs'[j] = objs[j]
    BY <1>10, <2>1, Changed
  <2>8. Slotted(reg', objs')
    <3>1. Kept(objs'[i]) /\ (\A w \in {"close"} : objs'[i].slot[w] = NoSlot) /\ {"close"} \subseteq Events
      BY <2>3, <2>5, <2>7
    <3>2. \A w \in Events \ {"close"} : objs'[i].slot[w] = objs[i].slot[w] /\ objs'[i].want[w] = objs[i].want[w]
      BY <2>5, <2>7
    <3>3. Returned(reg, objs, reg', objs', i, {"close"})
      BY <1>2, <1>10, <2>6, <2>7, <3>1, <3>2 DEF Returned
    <3> QED BY <3>3, GivenBack
  <2>9. \A j \in DOMAIN objs : Steady(j) /\ (j # i => Settled(j))
    <3>1. x.running = o.running /\ x.kept = o.kept
      BY <1>10, <2>5 DEF Kept
    <3> QED BY <2>7, <3>1 DEF Steady, Settled
  <2>10. \A j \in DOMAIN frames' : InCall(frames', j) => CallOK(frames[j])'
    <3> SUFFICES ASSUME NEW j \in DOMAIN frames', InCall(frames', j) PROVE CallOK(frames[j])'
      OBVIOUS
    <3>1. PICK f : f = frames'[j]
      OBVIOUS
    <3>2. CallOK(f) /\ (f.event = "run" => Steady(f.obj)) /\ (f.event = "close" => Settled(f.obj))
      BY <1>7, <1>9, <1>12, <2>9, <3>1
    <3>3. CallOK(f)'
      BY <1>1, <2>7, <3>2, CallStays
    <3> QED BY <3>1, <3>3 DEF CallOK
  <2>11. CallsOK(frames)'
    BY <1>8, <2>10 DEF CallsOK
  <2>12. EngOK(eng') /\ HitsOK(eng', frames)
    BY <1>2, <2>4, NothingBad
  <2>13. EngineInv'
    BY <1>3, <1>6, <2>12, EngineStep
  <2> QED BY <1>1, <1>2, <2>8, <2>11, <2>13, SlottedNow
<1>13. CASE Top.event # "run" /\ ~(Top.event = "close" /\ gui)
  <2>1. eng' = eng /\ reg' = reg /\ objs' = objs
    BY <1>13 DEF CallReturns
  <2>2. EngineInv'
    BY <1>2, <1>3, <1>6, <2>1, EngineStep
  <2>3. UNCHANGED objVars
    BY <1>1, <2>1 DEF objVars
  <2> QED BY <1>6, <2>2, <2>3, ScriptsStay
<1> QED BY <1>11, <1>12, <1>13

LEMMA ShutdownKeeps == ASSUME EngineInv, ScriptInv, Shutdown PROVE EngineInv' /\ ScriptInv'
<1>1. Idle /\ frames' = frames /\ gui' = FALSE /\ made' = made /\ reg' = [s \in Slots |-> 0]
  BY DEF Shutdown
<1>2. /\ EngOK(eng) /\ HitsOK(eng, frames) /\ made \in Nat /\ Slotted(reg, objs) /\ frames = <<>> /\ DOMAIN frames = {}
  BY <1>1, SlottedNow, NothingQueued DEF EngineInv, Idle
<1>3. Slotted(reg', objs')
  <2> DEFINE X(i) == [objs[i] EXCEPT !.state = IF @ = "live" THEN "dying" ELSE @]
  <2>1. objs' = [i \in DOMAIN objs |-> Forget(X(i), Events)]
    BY DEF Shutdown
  <2>2. \A i \in DOMAIN objs : Kept(X(i))
    <3> SUFFICES ASSUME NEW i \in DOMAIN objs PROVE Kept(X(i))
      OBVIOUS
    <3>1. Kept(objs[i])
      BY <1>2 DEF Slotted
    <3> DEFINE x == X(i)
    <3>2. DOMAIN x = DOMAIN objs[i] /\ x.slot = objs[i].slot /\ x.want = objs[i].want
      BY <3>1 DEF Kept
    <3> HIDE DEF x, X
    <3> QED BY <3>1, <3>2 DEF Kept, x
  <2> HIDE DEF X
  <2>3. \A i \in DOMAIN objs : Kept(objs'[i]) /\ \A v \in Events : objs'[i].slot[v] = NoSlot
    BY <2>1, <2>2, ForgetFields
  <2>4. DOMAIN objs' = DOMAIN objs
    BY <2>1
  <2>5. IsSeq(objs')
    <3>1. PICK S : objs \in Seq(S)
      BY <1>2 DEF Slotted, IsSeq
    <3> DEFINE T == {objs'[i] : i \in DOMAIN objs}
    <3>2. Len(objs) \in Nat /\ DOMAIN objs = 1 .. Len(objs)
      BY <3>1
    <3>3. objs' \in [1 .. Len(objs) -> T]
      BY <2>1, <3>2
    <3> HIDE DEF T
    <3>4. objs' \in Seq(T)
      BY <3>2, <3>3
    <3> QED BY <3>4 DEF IsSeq
  <2>6. Slots \subseteq DOMAIN reg' /\ \A s \in Slots : reg'[s] = 0
    BY <1>1
  <2> QED BY <1>2, <2>3, <2>4, <2>5, <2>6, Cleared
<1>4. CallsOK(frames)'
  BY <1>1, <1>2 DEF CallsOK
<1> DEFINE a == SetProcess(eng, None)
<1> DEFINE b == SetOwnedCeserverClient(a, None)
<1> DEFINE c == Free(b, eng.win)
<1>5. eng' = [c EXCEPT !.win = None]
  BY DEF Shutdown
<1>6. /\ EngOK(a) /\ HitsOK(a, frames) /\ a.win = eng.win
  BY <1>2, SetProcessKeeps
<1> HIDE DEF a
<1>7. EngOK(b) /\ HitsOK(b, frames) /\ b.proc = None /\ b.owned = None /\ b.win = eng.win
  BY <1>6, SetClientKeeps
<1> HIDE DEF b
<1>8. /\ Fields \subseteq DOMAIN b /\ b.bad = {} /\ None \notin b.live /\ b.live = {eng.win} \ {None} /\ b.n \in Nat
      /\ eng.win # None => eng.win \in b.live /\ eng.win.client = None
  BY <1>7 DEF EngOK, TargetOK
<1>9. /\ DOMAIN c = DOMAIN b /\ c.live = b.live \ {eng.win} /\ c.bad = {}
      /\ \A f \in Fields \ {"live", "bad"} : c[f] = b[f]
  BY <1>8, FreeFields
<1> HIDE DEF c
<1>10. DOMAIN eng' = DOMAIN b /\ eng'.win = None /\ \A f \in Fields \ {"win"} : eng'[f] = c[f]
  BY <1>5, <1>8, <1>9 DEF Fields
<1>11. /\ eng'.proc = None /\ eng'.owned = None /\ eng'.client = b.client /\ eng'.reg = b.reg /\ eng'.n = b.n
       /\ eng'.clients = b.clients /\ eng'.syms = b.syms /\ eng'.bps = b.bps /\ eng'.hooks = b.hooks /\ eng'.queue = b.queue
       /\ eng'.mixed = b.mixed /\ eng'.dead = b.dead /\ eng'.sess = b.sess /\ eng'.excused = b.excused
  BY <1>7, <1>9, <1>10 DEF Fields
<1>12. eng'.live = {} /\ eng'.bad = {}
  BY <1>8, <1>9, <1>10 DEF Fields
<1>13. TargetOK(eng')
  BY <1>7, <1>10, <1>11, <1>12 DEF EngOK, TargetOK
<1>14. KeptOK(eng')
  BY <1>7, <1>11 DEF EngOK, KeptOK
<1>15. EngOK(eng')
  BY <1>7, <1>8, <1>10, <1>11, <1>12, <1>13, <1>14 DEF EngOK
<1>16. HitsOK(eng', frames)
  <2>1. eng'.n \in Nat /\ b.n <= eng'.n
    BY <1>8, <1>11
  <2> QED BY <1>7, <1>8, <1>11, <2>1, HitsKept
<1>17. EngineInv'
  BY <1>1, <1>15, <1>16, EngineOnly
<1> QED BY <1>1, <1>2, <1>3, <1>4, <1>17, SlottedNow

LEMMA ObjectsKeep == ASSUME EngineInv, ScriptInv, ObjectsNext PROVE EngineInv' /\ ScriptInv'
BY QuietKeeps, CallsRun, TimersKeep, BindKeeps, UnbindKeeps, MenuKeeps, DestroyKeeps, DiesKeeps, ReturnsKeep, ShutdownKeeps
   DEF ObjectsNext

-----------------------------------------------------------------------------
LEMMA InitOK == ASSUME Init PROVE IInv
<1>1. frames = <<>> /\ eng = NoEngine /\ IsSeq(frames) /\ DOMAIN frames = {}
  BY NothingQueued DEF Init, TargetInit
<1>2. EngOK(eng)
  <2>1. Fields \subseteq DOMAIN eng
    BY <1>1 DEF Fields, NoEngine
  <2>2. /\ eng.proc = None /\ eng.owned = None /\ eng.client = None /\ eng.reg = None /\ eng.syms = None /\ eng.sess = None
        /\ eng.win = None /\ eng.bps = {} /\ eng.hooks = {} /\ eng.queue = <<>> /\ eng.live = {} /\ eng.clients = {}
        /\ eng.n = 0 /\ eng.bad = {} /\ eng.mixed = {}
    BY <1>1 DEF NoEngine
  <2>3. TargetOK(eng)
    BY <2>2 DEF TargetOK
  <2>4. KeptOK(eng)
    BY <2>2, NothingQueued DEF KeptOK
  <2> QED BY <2>1, <2>2, <2>3, <2>4 DEF EngOK
<1>3. HitsOK(eng, frames)
  <2>1. DOMAIN eng.queue = {}
    BY <1>1, NothingQueued DEF NoEngine
  <2> QED BY <1>1, <2>1 DEF HitsOK
<1>4. ObjectsOK /\ SlotsOwned
  <2>1. reg = [s \in Slots |-> 0] /\ objs = <<>> /\ made = 0
    BY DEF Init, ObjectsInit
  <2>2. IsSeq(objs) /\ DOMAIN objs = {}
    BY <2>1, NothingQueued
  <2> QED BY <2>1, <2>2 DEF ObjectsOK, SlotsOwned
<1>5. CallsOK(frames)
  BY <1>1 DEF CallsOK
<1>6. RecordsOK
  <2>1. lists = [l \in Lists |-> NoList] /\ tab = NoTab
    BY DEF Init, RecordsInit
  <2>2. /\ {"list", "gen", "cbs", "cbsGen", "refs", "made", "bad"} \subseteq DOMAIN tab
        /\ tab.list = None /\ tab.gen = 0 /\ tab.made = 0 /\ tab.cbsGen = -1 /\ tab.refs = {} /\ tab.cbs = Empty
    BY <2>1 DEF NoTab
  <2>3. tab.bad = FALSE
    BY <2>1 DEF NoTab
  <2>4. DOMAIN tab.cbs = {} /\ -1 \in Int
    BY <2>2 DEF Empty
  <2>5. \A l \in Lists :
         /\ {"gen", "recs", "next"} \subseteq DOMAIN lists[l]
         /\ lists[l].gen \in Nat /\ lists[l].next \in Nat
         /\ \A id \in DOMAIN lists[l].recs : id \in Nat /\ id < lists[l].next
    BY <2>1 DEF NoList, Empty
  <2> QED BY <2>1, <2>2, <2>3, <2>4, <2>5 DEF RecordsOK
<1> QED BY <1>1, <1>2, <1>3, <1>4, <1>5, <1>6 DEF IInv, EngineInv, ScriptInv

LEMMA NextKeeps == ASSUME IInv, [Next]_vars PROVE IInv'
<1>1. CASE TargetNext /\ UNCHANGED <<objVars, recVars>>
  <2>1. EngineInv' /\ Old("callback")
    BY <1>1, TargetKeeps DEF IInv
  <2>2. ScriptInv'
    BY <1>1, <2>1, ScriptsStay DEF IInv
  <2>3. RecordsOK'
    BY <1>1 DEF IInv, RecordsOK, RefOK, Now, recVars
  <2> QED BY <2>1, <2>2, <2>3 DEF IInv
<1>2. CASE ObjectsNext /\ UNCHANGED recVars
  <2>1. EngineInv' /\ ScriptInv'
    BY <1>2, ObjectsKeep DEF IInv
  <2>2. RecordsOK'
    BY <1>2 DEF IInv, RecordsOK, RefOK, Now, recVars
  <2> QED BY <2>1, <2>2 DEF IInv
<1>3. CASE RecordsNext /\ UNCHANGED objVars
  <2>1. EngineInv' /\ Old("callback")
    BY <1>3, RecordsRun DEF IInv
  <2>2. ScriptInv'
    BY <1>3, <2>1, ScriptsStay DEF IInv
  <2>3. RecordsOK'
    BY <1>3, RecordsKeep DEF IInv
  <2> QED BY <2>1, <2>2, <2>3 DEF IInv
<1>4. CASE UNCHANGED vars
  <2>1. eng' = eng /\ frames' = frames /\ UNCHANGED objVars /\ UNCHANGED recVars
    BY <1>4 DEF vars, luaVars
  <2>2. EngineInv' /\ Old("callback")
    BY <2>1 DEF IInv, EngineInv, Old
  <2>3. ScriptInv'
    BY <2>1, <2>2, ScriptsStay DEF IInv
  <2>4. RecordsOK'
    BY <2>1 DEF IInv, RecordsOK, RefOK, Now, recVars
  <2> QED BY <2>2, <2>3, <2>4 DEF IInv
<1> QED BY <1>1, <1>2, <1>3, <1>4 DEF Next

\* The invariant says what the runs check.
LEMMA InvariantEnough == ASSUME IInv PROVE NothingStale /\ RegistersKept
<1>1. EngOK(eng) /\ SlotsOwned /\ RecordsOK
  BY DEF IInv, EngineInv, ScriptInv
<1>2. eng.bad = {} /\ RegistersKept
  BY <1>1 DEF EngOK, RegistersKept
<1>3. RecordsReached
  BY <1>1 DEF RecordsOK, RecordsReached
<1>4. EngineAgrees
  <2>1. /\ eng.reg = eng.proc /\ eng.proc \in eng.live \cup {None} /\ eng.owned \in {None, eng.proc}
        /\ eng.proc # None /\ eng.proc.client # None => eng.proc.client \in eng.clients /\ eng.client = eng.proc.client
        /\ eng.clients = {eng.client} \ {None} /\ eng.live = {eng.owned, eng.win} \ {None}
    BY <1>1 DEF EngOK, TargetOK
  <2>2. /\ eng.sess # None => eng.sess.of = eng.proc
        /\ \A i \in DOMAIN eng.queue : eng.queue[i].of = eng.proc
        /\ eng.hooks \subseteq {eng.proc} /\ eng.syms \in {None, eng.proc}
        /\ eng.bps \subseteq {None, eng.proc}
    BY <1>1 DEF EngOK, KeptOK
  <2> QED BY <2>1, <2>2 DEF EngineAgrees
<1> QED BY <1>1, <1>2, <1>3, <1>4 DEF NothingStale

LEMMA EngineInvariant == Spec => []IInv
<1>1. Init => IInv
  BY InitOK
<1>2. IInv /\ [Next]_vars => IInv'
  BY NextKeeps
<1> QED BY <1>1, <1>2, PTL DEF Spec

\* Whatever scripts do, in whatever order the window and the program interrupt
\* them, the engine never uses a freed handle, session, connection, slot or
\* record, and keeps nothing of a target that is gone but the names that scripts
\* registered for it.
THEOREM NothingStaleEver == Spec => []NothingStale
<1>1. IInv => NothingStale
  BY InvariantEnough
<1> QED BY <1>1, EngineInvariant, PTL

\* The registers a debugger handler edited are only ever written to the stop
\* they were read at, unless the script itself made that stop old.
THEOREM RegistersKeptEver == Spec => []RegistersKept
<1>1. IInv => RegistersKept
  BY InvariantEnough
<1> QED BY <1>1, EngineInvariant, PTL
=============================================================================
