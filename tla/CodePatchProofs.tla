--------------------------- MODULE CodePatchProofs ---------------------------
(***************************************************************************)
(* CodeOwned and OriginalsKept of CodePatch for code of any size, any      *)
(* instructions that do not overlap, any number of windows and scripts, any*)
(* chunk size and any number of operations, failures, execs and exits.     *)
(*                                                                         *)
(* CodeOwned alone is not inductive: a restoration may only let go of its  *)
(* record when the bytes it compared are the promised ones, so what the    *)
(* record holds for cells it has not attempted yet must be known (Held),   *)
(* and where a job stands in its range (AtWork, Ranges).                   *)
(*                                                                         *)
(* Nor is OriginalsKept: the bytes a list reads are no NOPs because NOPs   *)
(* that are only its own belong to an entry of it or to the patch it is    *)
(* making (NopsOwned), which needs what a patch in flight may have changed *)
(* (FlightOK) and that what was put back is back (BackOK).                 *)
(***************************************************************************)
EXTENDS CodePatch, TLAPS

(* The inductive invariant: types, the range a job works on, and CodeOwned *)
(* in the form a step can use.                                             *)
Record == [on : BOOLEAN, img : 0..Images, lo : Int, hi : Int, att : Int,
           orig : Content]

Job == [pc : {"idle", "prepare", "write", "restore", "rewrite"},
        f : Fronts \cup {"none"}, by : {"sweep", "recover", "write"},
        off : Int, err : {"ok", "gone", "refused"}]

Patch == [pc : {"idle", "read", "submit", "written", "check"},
          op : {"nop", "restore"}, lo : Int, hi : Int,
          res : {"ok", "gone", "refused", "busy", "pending"},
          bytes : Content, orig : Content, img : 0..Images,
          clean : BOOLEAN, again : BOOLEAN]

Entry == [on : BOOLEAN, hi : Int, bytes : Content, img : 0..Images,
          clean : BOOLEAN]

PatchTypes ==
    /\ text \in Content /\ promised \in Content
    /\ image \in 0..Images /\ view \in {"private", "shared"}
    /\ undo \in Record /\ svc \in Job
    /\ fe \in [Fronts -> Patch]
    /\ kept \in [Fronts -> [Addrs -> Entry]]

(* No range runs backwards, and a record's ends where its write ended.     *)
Ranges ==
    /\ \A f \in Fronts : fe[f].lo <= fe[f].hi + 1
    /\ \A f \in Fronts, a \in Addrs : kept[f][a].on => a <= kept[f][a].hi + 1
    /\ undo.att <= undo.hi + 1

(* Where the service's thread is.                                          *)
AtWork ==
    /\ svc.by # "sweep" => svc.f \in Fronts
    /\ svc.pc \in {"prepare", "write"} => svc.by # "sweep"
    /\ svc.pc = "prepare" => ~undo.on
    /\ svc.pc = "write" => undo.att = svc.off /\ undo.lo <= svc.off
    /\ svc.pc = "rewrite" => undo.lo <= svc.off

(* The record is of this program or an earlier one, its bytes are the      *)
(* promised ones, and nothing but what it attempted differs from them.     *)
Held ==
    image # 0 =>
      /\ undo.img <= image
      /\ view = "private" =>
           /\ Pinned => \A a \in undo.lo..undo.hi : a \in Addrs =>
                           undo.orig[a] = promised[a]
           /\ \A a \in Addrs : text[a] # promised[a] =>
                                Pinned /\ a \in Attempted

PatchInv == PatchTypes /\ Ranges /\ AtWork /\ Held

(* Cells taken over from well-formed content are well-formed.              *)
LEMMA OverContent ==
    ASSUME NEW s \in Content, NEW b \in Content, NEW D
    PROVE  /\ Overlay(s, D, b) \in Content
           /\ \A a \in Addrs : Overlay(s, D, b)[a] = IF a \in D THEN b[a] ELSE s[a]
BY DEF Overlay, Content

(* A chunk ends inside the range it is a chunk of.                         *)
LEMMA EndBounds ==
    ASSUME NEW off \in Int, NEW last \in Int, off <= last
    PROVE  /\ End(off, last) \in Int
           /\ off < End(off, last) /\ End(off, last) <= last + 1
BY PatchAssumption DEF End

LEMMA NopContent == [a \in Addrs |-> NopByte] \in Content
BY PatchAssumption DEF Content, Byte, NopByte

(* One caller's record is replaced, the others stay.                       *)
LEMMA FrontStep ==
    ASSUME fe \in [Fronts -> Patch], NEW f \in Fronts, NEW q \in Patch,
           fe' = [fe EXCEPT ![f] = q]
    PROVE  /\ fe' \in [Fronts -> Patch]
           /\ fe'[f] = q
           /\ \A g \in Fronts : g # f => fe'[g] = fe[g]
OBVIOUS

LEMMA InitialRecords == NoUndo \in Record /\ NoJob \in Job /\ NoPatch \in Patch
                        /\ NotKept \in Entry
<1>1. 0 \in 0..Images
  BY PatchAssumption
<1> QED BY <1>1, NopContent
        DEF NoUndo, Record, NoJob, Job, NoPatch, Patch, NotKept, Entry

(* An answer changes its job's caller only, and leaves him his range.      *)
LEMMA ReplyStep ==
    ASSUME fe \in [Fronts -> Patch], svc.f \in Fronts,
           NEW res \in {"ok", "gone", "refused", "busy", "pending"}, Reply(res)
    PROVE  /\ svc' = NoJob /\ fe' \in [Fronts -> Patch]
           /\ \A f \in Fronts : fe'[f].lo = fe[f].lo /\ fe'[f].hi = fe[f].hi
<1> DEFINE q == [fe[svc.f] EXCEPT !.pc = "written", !.res = res]
<1>1. fe[svc.f] \in Patch
  OBVIOUS
<1>2. q \in Patch /\ q.lo = fe[svc.f].lo /\ q.hi = fe[svc.f].hi
  BY <1>1 DEF Patch
<1>3. fe' = [fe EXCEPT ![svc.f] = q] /\ svc' = NoJob
  BY DEF Reply
<1> HIDE DEF q
<1> QED BY <1>2, <1>3, FrontStep

(* What the end of a restoration leaves alone.                             *)
LEMMA RestoredStep ==
    ASSUME PatchInv, NEW ok \in BOOLEAN, Restored(ok),
           svc.pc \in {"restore", "rewrite"}
    PROVE  /\ svc' \in Job /\ fe' \in [Fronts -> Patch]
           /\ \A f \in Fronts : fe'[f].lo = fe[f].lo /\ fe'[f].hi = fe[f].hi
           /\ svc'.by # "sweep" => svc'.f \in Fronts
           /\ svc'.pc \in {"idle", "prepare"}
           /\ svc'.pc = "prepare" => ok /\ svc'.by # "sweep"
<1> DEFINE Good == /\ svc' \in Job /\ fe' \in [Fronts -> Patch]
                   /\ \A f \in Fronts : fe'[f].lo = fe[f].lo /\ fe'[f].hi = fe[f].hi
                   /\ svc'.by # "sweep" => svc'.f \in Fronts
                   /\ svc'.pc \in {"idle", "prepare"}
                   /\ svc'.pc = "prepare" => ok /\ svc'.by # "sweep"
<1>t. /\ svc \in Job /\ fe \in [Fronts -> Patch]
      /\ svc.by # "sweep" => svc.f \in Fronts
  BY DEF PatchInv, PatchTypes, AtWork
<1>1. CASE svc.by = "sweep"
  BY <1>1, <1>t, InitialRecords DEF Restored, NoJob
<1>2. CASE svc.by = "recover" /\ ok
  BY <1>2, <1>t DEF Restored, GoOn, Job
<1>3. ASSUME NEW res \in {"ok", "gone", "refused", "busy", "pending"}, Reply(res),
             svc.f \in Fronts
      PROVE  Good
  <2>1. /\ svc' = NoJob /\ fe' \in [Fronts -> Patch]
        /\ \A f \in Fronts : fe'[f].lo = fe[f].lo /\ fe'[f].hi = fe[f].hi
    BY <1>3, <1>t, ReplyStep
  <2> QED BY <2>1, InitialRecords DEF NoJob
<1>4. CASE svc.by = "recover" /\ ~ok
  <2>1. Reply("refused")
    BY <1>4 DEF Restored
  <2> QED BY <2>1, <1>3, <1>4, <1>t
<1>5. CASE svc.by = "write"
  <2>1. \E res \in {"ok", "gone", "refused", "busy", "pending"} : Reply(res)
    <3>1. CASE ok
      BY <1>5, <3>1, <1>t DEF Restored, Job
    <3>2. CASE ~ok
      BY <1>5, <3>2 DEF Restored
    <3> QED BY <3>1, <3>2
  <2> QED BY <2>1, <1>3, <1>5, <1>t
<1> QED BY <1>1, <1>2, <1>4, <1>5, <1>t DEF Job

(* The invariant holds at first.                                           *)
LEMMA PatchBegins == PatchInit => PatchInv
<1> SUFFICES ASSUME PatchInit PROVE PatchInv
  OBVIOUS
<1> USE PatchAssumption
<1>1. text \in Content /\ promised \in Content
  BY DEF PatchInit, Content, Byte
<1>2. PatchTypes
  <2>1. fe \in [Fronts -> Patch] /\ kept \in [Fronts -> [Addrs -> Entry]]
    BY InitialRecords DEF PatchInit
  <2>2. image \in 0..Images /\ view \in {"private", "shared"}
    BY DEF PatchInit
  <2> QED BY <1>1, <2>1, <2>2, InitialRecords DEF PatchInit, PatchTypes
<1>3. Ranges
  BY DEF PatchInit, Ranges, NoUndo, NoPatch, NotKept
<1>4. AtWork
  BY DEF PatchInit, AtWork, NoUndo, NoJob
<1>5. Held
  BY DEF PatchInit, Held, NoUndo, Pinned
<1> QED BY <1>2, <1>3, <1>4, <1>5 DEF PatchInv

(* Every step of the service, of a caller and of the program keeps it.     *)
LEMMA PatchGoesOn == PatchInv /\ [PatchNext]_patching => PatchInv'
<1> SUFFICES ASSUME PatchInv, [PatchNext]_patching PROVE PatchInv'
  OBVIOUS
<1> USE PatchAssumption
<1>t. PatchTypes /\ Ranges /\ AtWork /\ Held
  BY DEF PatchInv
<1>1. ASSUME NEW f \in Fronts, TakeWrite(f) PROVE PatchInv'
  <2> USE <1>1, <1>t DEF TakeWrite, program
  <2>0. svc' \in Job
    <3>1. PICK pc \in {"restore", "prepare"} :
            svc' = [NoJob EXCEPT !.f = f, !.by = "recover", !.pc = pc]
      OBVIOUS
    <3>2. svc' = [pc |-> pc, f |-> f, by |-> "recover", off |-> 1, err |-> "ok"]
      BY <3>1 DEF NoJob
    <3> QED BY <3>2 DEF Job
  <2>1. PatchTypes'
    BY <2>0 DEF PatchTypes
  <2>2. Ranges' /\ AtWork' /\ Held'
    BY DEF PatchTypes, Ranges, AtWork, Held, NoJob, Job, Pinned, Attempted
  <2> QED BY <2>1, <2>2 DEF PatchInv
<1>2. ASSUME SweepCode PROVE PatchInv'
  <2> USE <1>2, <1>t DEF SweepCode, program
  <2>1. PatchTypes'
    BY DEF PatchTypes, Job, NoJob
  <2>2. Ranges' /\ AtWork' /\ Held'
    BY DEF PatchTypes, Ranges, AtWork, Held, NoJob, Job, Pinned, Attempted
  <2> QED BY <2>1, <2>2 DEF PatchInv
<1>3. ASSUME Prepare PROVE PatchInv'
  <2>0. svc.pc = "prepare" /\ svc.f \in Fronts /\ ~undo.on
    BY <1>3, <1>t DEF Prepare, AtWork
  <2>1. CASE svc'.pc = "write"
    <3>1. /\ image # 0
          /\ undo' = [on |-> TRUE, img |-> image, lo |-> fe[svc.f].lo,
                      hi |-> fe[svc.f].hi, att |-> fe[svc.f].lo, orig |-> text]
          /\ svc' = [svc EXCEPT !.pc = "write", !.by = "write",
                                !.off = fe[svc.f].lo]
          /\ UNCHANGED <<program, fe, kept>>
      BY <1>3, <2>1, <1>t DEF Prepare, Reply, NoJob, program
    <3>2. fe[svc.f].lo \in Int /\ fe[svc.f].hi \in Int
      BY <2>0, <1>t DEF PatchTypes, Patch
    <3>3. undo' \in Record /\ svc' \in Job
      BY <3>1, <3>2, <2>0, <1>t DEF PatchTypes, Record, Job
    <3>4. PatchTypes'
      BY <3>1, <3>3, <1>t DEF PatchTypes, program
    <3>5. Ranges'
      BY <3>1, <2>0, <1>t DEF Ranges, program
    <3>6. AtWork'
      BY <3>1, <3>2, <2>0, <1>t DEF PatchTypes, AtWork, Job, program
    <3>7. Held'
      BY <3>1, <3>2, <2>0, <1>t DEF PatchTypes, Held, Pinned, program
    <3> QED BY <3>4, <3>5, <3>6, <3>7 DEF PatchInv
  <2>2. CASE svc'.pc # "write"
    <3>1. PICK res \in {"gone", "refused", "busy"} :
            Reply(res) /\ UNCHANGED <<program, undo, kept>>
      BY <1>3, <2>2, <1>t DEF Prepare, program, PatchTypes, Job
    <3>2. /\ svc' = NoJob /\ fe' \in [Fronts -> Patch]
          /\ \A f \in Fronts : fe'[f].lo = fe[f].lo /\ fe'[f].hi = fe[f].hi
      BY <3>1, <2>0, <1>t, ReplyStep DEF PatchTypes
    <3>3. PatchTypes'
      BY <3>1, <3>2, <1>t, InitialRecords DEF PatchTypes, program
    <3>4. Ranges' /\ AtWork'
      BY <3>1, <3>2, <2>0, <1>t DEF Ranges, AtWork, NoJob, program
    <3>5. Held'
      BY <3>1, <1>t DEF Held, Pinned, Attempted, program
    <3> QED BY <3>3, <3>4, <3>5 DEF PatchInv
  <2> QED BY <2>1, <2>2
<1>4. ASSUME WriteChunk PROVE PatchInv'
  <2> DEFINE p == fe[svc.f]
             end == End(svc.off, undo.hi)
  <2>0. /\ svc.pc = "write" /\ svc.off <= undo.hi /\ svc.f \in Fronts
        /\ undo.att = svc.off /\ undo.lo <= svc.off
        /\ UNCHANGED <<promised, image, view, fe, kept>>
    BY <1>4, <1>t DEF WriteChunk, AtWork
  <2>1. end \in Int /\ svc.off < end /\ end <= undo.hi + 1
    BY <2>0, <1>t, EndBounds DEF PatchTypes, Record, Job
  <2> DEFINE Written(n, att) ==
               /\ undo' = [undo EXCEPT !.att = att]
               /\ svc.off <= n /\ n <= att /\ att <= end
               /\ \/ text' = Overlay(text, svc.off..(n - 1), p.bytes) /\ Pinned /\ view = "private"
                  \/ text' = text
               /\ \/ svc' = [svc EXCEPT !.off = end] /\ att = end
                  \/ \E err \in {"gone", "refused"} : WriteFailed(err)
  <2>a. svc.off \in Int /\ undo \in Record /\ svc \in Job
    BY <1>t DEF PatchTypes, Job
  <2>b. \E n \in Int, att \in Int : Written(n, att)
    <3>1. CASE /\ Pinned /\ view = "private"
               /\ text' = Overlay(text, svc.off..(end - 1), p.bytes)
               /\ undo' = [undo EXCEPT !.att = end]
               /\ svc' = [svc EXCEPT !.off = end]
      <4>1. Written(end, end)
        BY <3>1, <2>a, <2>1
      <4> QED BY <4>1, <2>1
    <3>2. CASE /\ undo' = [undo EXCEPT !.att = end] /\ UNCHANGED text
               /\ \E err \in {"gone", "refused"} : WriteFailed(err)
      <4>1. Written(end, end)
        BY <3>2, <2>a, <2>1
      <4> QED BY <4>1, <2>1
    <3>3. CASE /\ Pinned /\ view = "private"
               /\ \E n \in svc.off..end :
                    /\ text' = Overlay(text, svc.off..(n - 1), p.bytes)
                    /\ \E att \in {n, end} : undo' = [undo EXCEPT !.att = att]
               /\ WriteFailed("refused")
      <4>1. PICK n \in svc.off..end, att \in Int :
              /\ text' = Overlay(text, svc.off..(n - 1), p.bytes)
              /\ att \in {n, end} /\ undo' = [undo EXCEPT !.att = att]
        BY <3>3, <2>a, <2>1
      <4>2. n \in Int /\ svc.off <= n /\ n <= end
        BY <2>a, <2>1
      <4>3. Written(n, att)
        BY <3>3, <4>1, <4>2, <2>a, <2>1
      <4> QED BY <4>2, <4>3
    <3> QED BY <1>4, <3>1, <3>2, <3>3 DEF WriteChunk
  <2>2. PICK n \in Int, att \in Int : Written(n, att)
    BY <2>b
  <2>3. /\ text' \in Content
        /\ \A a \in Addrs : a \notin svc.off..(n - 1) => text'[a] = text[a]
    <3>1. p.bytes \in Content /\ text \in Content
      BY <2>0, <1>t DEF PatchTypes, Patch
    <3> DEFINE W == svc.off..(n - 1)
    <3>2. CASE text' = Overlay(text, W, p.bytes)
      <4> HIDE DEF p, W
      <4>1. /\ Overlay(text, W, p.bytes) \in Content
            /\ \A a \in Addrs : Overlay(text, W, p.bytes)[a] = IF a \in W THEN p.bytes[a] ELSE text[a]
        BY <3>1, OverContent
      <4> QED BY <3>2, <4>1 DEF W
    <3> QED BY <3>1, <3>2, <2>2
  <2>4. svc' \in Job
    BY <2>0, <2>1, <2>2, <1>t DEF PatchTypes, Job, WriteFailed
  <2>5. PatchTypes'
    BY <2>0, <2>2, <2>3, <2>4, <1>t DEF PatchTypes, Record
  <2>6. Ranges'
    BY <2>0, <2>1, <2>2, <1>t DEF PatchTypes, Record, Ranges
  <2>7. AtWork'
    <3>1. CASE svc' = [svc EXCEPT !.off = end] /\ att = end
      BY <3>1, <2>0, <2>1, <2>2, <2>a, <1>t DEF Record, Job, AtWork
    <3>2. CASE \E err \in {"gone", "refused"} : WriteFailed(err)
      BY <3>2, <2>0, <2>a, <1>t DEF Job, AtWork, WriteFailed
    <3> QED BY <2>2, <3>1, <3>2
  <2>8. Held'
    <3>1. Pinned' <=> Pinned
      BY <2>0, <2>2, <1>t DEF Pinned, PatchTypes, Record
    <3>2. /\ undo'.lo = undo.lo /\ undo'.hi = undo.hi /\ undo'.orig = undo.orig
          /\ undo'.img = undo.img /\ undo'.att = att
      BY <2>2, <1>t DEF PatchTypes, Record
    <3>3. ASSUME NEW a \in Addrs, text'[a] # promised[a], image # 0, view = "private"
          PROVE  Pinned /\ a \in undo.lo..(att - 1)
      <4>1. CASE a \in svc.off..(n - 1) /\ Pinned
        BY <4>1, <2>0, <2>1, <2>2, <1>t DEF PatchTypes, Record, Job, Addrs
      <4>2. CASE text'[a] = text[a]
        BY <4>2, <3>3, <2>0, <2>1, <2>2, <1>t
           DEF PatchTypes, Record, Job, Addrs, Held, Attempted
      <4> QED BY <4>1, <4>2, <2>2, <2>3
    <3> QED BY <3>1, <3>2, <3>3, <2>0, <1>t DEF Held, Attempted
  <2> QED BY <2>5, <2>6, <2>7, <2>8 DEF PatchInv
<1>5. ASSUME WriteDone PROVE PatchInv'
  <2> DEFINE p == fe[svc.f]
             D == undo.lo..undo.hi
  <2>0. /\ svc.pc = "write" /\ svc.off > undo.hi /\ svc.f \in Fronts
        /\ undo.att = svc.off /\ UNCHANGED <<text, image, view, kept>>
    BY <1>5, <1>t DEF WriteDone, AtWork
  <2>1. CASE Pinned /\ Same(text, D, p.bytes) /\ undo' = NoUndo
             /\ promised' = Overlay(promised, D, p.bytes) /\ Reply("ok")
    <3>1. /\ promised' \in Content
          /\ \A a \in Addrs : promised'[a] = IF a \in D THEN p.bytes[a] ELSE promised[a]
      <4>1. p.bytes \in Content /\ promised \in Content
        BY <2>0, <1>t DEF PatchTypes, Patch
      <4> HIDE DEF p, D
      <4> QED BY <4>1, <2>1, OverContent
    <3>a. /\ svc' = NoJob /\ fe' \in [Fronts -> Patch]
          /\ \A f \in Fronts : fe'[f].lo = fe[f].lo /\ fe'[f].hi = fe[f].hi
      BY <2>0, <2>1, <1>t, ReplyStep DEF PatchTypes
    <3>2. PatchTypes'
      BY <2>0, <2>1, <3>1, <3>a, <1>t, InitialRecords DEF PatchTypes
    <3>3. Ranges' /\ AtWork'
      BY <2>0, <2>1, <3>a, <1>t DEF PatchTypes, Ranges, AtWork, NoUndo, NoJob
    <3>4. ASSUME NEW a \in Addrs, image # 0, view = "private"
          PROVE  text[a] = promised'[a]
      <4>1. CASE a \in D
        BY <3>1, <4>1, <2>1 DEF Same
      <4>2. CASE a \notin D
        <5>1. a \notin Attempted
          BY <4>2, <2>0, <1>t DEF Attempted, PatchTypes, Record, Job, Addrs, Ranges
        <5> QED BY <3>1, <3>4, <4>2, <5>1, <1>t DEF Held
      <4> QED BY <4>1, <4>2
    <3>5. Held'
      BY <3>4, <2>0, <2>1, <1>t DEF Held, NoUndo, Pinned, PatchTypes
    <3> QED BY <3>2, <3>3, <3>5 DEF PatchInv
  <2>2. CASE UNCHANGED <<promised, undo, fe>> /\ \E err \in {"gone", "refused"} : WriteFailed(err)
    <3>1. PatchTypes'
      BY <2>0, <2>2, <1>t DEF PatchTypes, Job, WriteFailed
    <3>2. Ranges' /\ AtWork' /\ Held'
      BY <2>0, <2>2, <1>t DEF PatchTypes, Job, Ranges, AtWork, Held, WriteFailed, Pinned,
                              Attempted
    <3> QED BY <3>1, <3>2 DEF PatchInv
  <2> QED BY <1>5, <2>1, <2>2 DEF WriteDone, Promise
<1>6. ASSUME undo' = NoUndo, Restored(TRUE), svc.pc \in {"restore", "rewrite"},
             UNCHANGED <<text, promised, image, view, kept>>,
             ~Pinned \/ undo.att = undo.lo \/ Same(text, Attempted, undo.orig)
      PROVE  PatchInv'
  <2>0. /\ svc' \in Job /\ fe' \in [Fronts -> Patch]
        /\ \A f \in Fronts : fe'[f].lo = fe[f].lo /\ fe'[f].hi = fe[f].hi
        /\ svc'.by # "sweep" => svc'.f \in Fronts
        /\ svc'.pc \in {"idle", "prepare"}
        /\ svc'.pc = "prepare" => svc'.by # "sweep"
    BY <1>6, RestoredStep
  <2>1. PatchTypes'
    BY <1>6, <2>0, <1>t, InitialRecords DEF PatchTypes
  <2>2. Ranges' /\ AtWork'
    BY <1>6, <2>0, <1>t DEF Ranges, AtWork, NoUndo
  <2>3. ASSUME NEW a \in Addrs, image # 0, view = "private"
        PROVE  text[a] = promised[a]
    BY <1>6, <2>3, <1>t DEF Held, Same, Attempted, PatchTypes, Record, Addrs, Ranges
  <2>4. Held'
    BY <1>6, <2>3, <1>t DEF Held, NoUndo, Pinned, PatchTypes
  <2> QED BY <2>1, <2>2, <2>4 DEF PatchInv
<1>7. ASSUME RestoreBegin PROVE PatchInv'
  <2>1. CASE svc'.pc = "rewrite"
    <3>1. /\ svc.pc = "restore" /\ UNCHANGED <<program, undo, fe, kept>>
          /\ svc' = [svc EXCEPT !.pc = "rewrite", !.off = undo.lo]
      BY <1>7, <2>1, <1>t, RestoredStep DEF RestoreBegin, PatchInv, program
    <3>2. PatchTypes'
      BY <3>1, <1>t DEF PatchTypes, Job, Record, program
    <3>3. Ranges' /\ AtWork' /\ Held'
      BY <3>1, <1>t DEF PatchTypes, Job, Record, program, Ranges, AtWork, Held, Pinned,
                        Attempted
    <3> QED BY <3>2, <3>3 DEF PatchInv
  <2>2. CASE svc'.pc # "rewrite"
    BY <1>6, <1>7, <2>2, <1>t DEF RestoreBegin, program, PatchTypes, Job
  <2> QED BY <2>1, <2>2
<1>8. ASSUME Restored(FALSE), svc.pc \in {"restore", "rewrite"},
             UNCHANGED <<text, promised, image, view, kept, undo>>
      PROVE  PatchInv'
  <2>1. PatchTypes'
    BY <1>8, <1>t, RestoredStep DEF PatchInv, PatchTypes
  <2>2. Ranges' /\ AtWork'
    BY <1>8, <1>t, RestoredStep DEF PatchInv, Ranges, AtWork
  <2>3. Held'
    BY <1>8, <1>t DEF Held, Pinned, Attempted
  <2> QED BY <2>1, <2>2, <2>3 DEF PatchInv
<1>9. ASSUME RestoreChunk PROVE PatchInv'
  <2> DEFINE end == End(svc.off, undo.att - 1)
  <2>0. /\ svc.pc = "rewrite" /\ svc.off < undo.att /\ undo.lo <= svc.off
        /\ UNCHANGED <<promised, image, view, kept>>
    BY <1>9, <1>t DEF RestoreChunk, AtWork
  <2>1. end \in Int /\ svc.off < end /\ end <= undo.att
    <3>1. undo.att - 1 \in Int /\ svc.off \in Int /\ svc.off <= undo.att - 1
      BY <2>0, <1>t DEF PatchTypes, Record, Job
    <3>2. end \in Int /\ svc.off < end /\ end <= (undo.att - 1) + 1
      BY <3>1, EndBounds
    <3> HIDE DEF end
    <3> QED BY <3>2, <1>t DEF PatchTypes, Record
  <2>2. CASE undo' = NoUndo /\ Restored(TRUE) /\ ~Pinned /\ UNCHANGED text
    BY <1>6, <2>0, <2>2
  <2>3. CASE /\ Pinned /\ UNCHANGED undo
             /\ \E n \in svc.off..end : text' = Overlay(text, svc.off..(n - 1), undo.orig)
             /\ \/ svc' = [svc EXCEPT !.off = end] /\ UNCHANGED fe
                \/ Restored(FALSE)
    <3>1. PICK n \in svc.off..end : text' = Overlay(text, svc.off..(n - 1), undo.orig)
      BY <2>3
    <3>2. /\ text' \in Content
          /\ \A a \in Addrs : text'[a] = IF a \in svc.off..(n - 1) THEN undo.orig[a]
                                         ELSE text[a]
      <4>1. undo.orig \in Content /\ text \in Content
        BY <1>t DEF PatchTypes, Record
      <4> DEFINE W == svc.off..(n - 1)
      <4>2. text' = Overlay(text, W, undo.orig)
        BY <3>1
      <4> HIDE DEF W
      <4>3. /\ text' \in Content
            /\ \A a \in Addrs : text'[a] = IF a \in W THEN undo.orig[a] ELSE text[a]
        BY <4>1, <4>2, OverContent
      <4> QED BY <4>3 DEF W
    <3>3. ASSUME NEW a \in Addrs, text'[a] # promised[a], image # 0, view = "private"
          PROVE  a \in Attempted
      <4>1. CASE text[a] # promised[a]
        BY <1>t, <3>3, <4>1 DEF Held
      <4>2. CASE a \in svc.off..(n - 1)
        <5>1. svc.off \in Int /\ undo.lo \in Int /\ undo.att \in Int
          BY <1>t DEF PatchTypes, Record, Job
        <5>2. undo.lo <= a /\ a <= undo.att - 1
          BY <2>0, <2>1, <4>2, <5>1 DEF Addrs
        <5> QED BY <5>1, <5>2 DEF Attempted, Addrs
      <4> QED BY <3>2, <3>3, <4>1, <4>2
    <3>4. Held'
      BY <3>3, <2>0, <2>3, <1>t DEF Held, Pinned, Attempted
    <3>5. CASE svc' = [svc EXCEPT !.off = end] /\ UNCHANGED fe
      <4>1. PatchTypes'
        BY <3>2, <3>5, <2>0, <2>1, <2>3, <1>t DEF PatchTypes, Job
      <4>2. Ranges' /\ AtWork'
        BY <3>5, <2>0, <2>1, <2>3, <1>t DEF PatchTypes, Job, Record, Ranges, AtWork
      <4> QED BY <4>1, <4>2, <3>4 DEF PatchInv
    <3>6. CASE Restored(FALSE)
      <4>1. PatchTypes'
        BY <3>2, <3>6, <2>0, <2>3, <1>t, RestoredStep DEF PatchInv, PatchTypes
      <4>2. Ranges' /\ AtWork'
        BY <3>6, <2>0, <2>3, <1>t, RestoredStep DEF PatchInv, Ranges, AtWork
      <4> QED BY <4>1, <4>2, <3>4 DEF PatchInv
    <3> QED BY <2>3, <3>5, <3>6
  <2>4. end \in svc.off..end
    BY <2>1, <1>t DEF PatchTypes, Job
  <2> QED BY <1>9, <2>2, <2>3, <2>4 DEF RestoreChunk
<1>10. ASSUME RestoreDone PROVE PatchInv'
  BY <1>6, <1>8, <1>10 DEF RestoreDone, program
<1>11. ASSUME NEW f \in Fronts, FrontNext(f) PROVE PatchInv'
  <2> DEFINE Kept == fe' \in [Fronts -> Patch] /\ kept' \in [Fronts -> [Addrs -> Entry]]
             Good == /\ \A g \in Fronts : fe'[g].lo <= fe'[g].hi + 1
                     /\ \A g \in Fronts, a \in Addrs : kept'[g][a].on => a <= kept'[g][a].hi + 1
  <2>a. /\ fe \in [Fronts -> Patch] /\ fe[f] \in Patch
        /\ kept \in [Fronts -> [Addrs -> Entry]] /\ f \in Fronts
        /\ \A g \in Fronts : fe[g].lo <= fe[g].hi + 1
        /\ \A g \in Fronts, a \in Addrs : kept[g][a].on => a <= kept[g][a].hi + 1
    BY <1>11, <1>t DEF PatchTypes, Ranges
  <2>b. ASSUME GoIdle(f)
        PROVE  /\ fe' \in [Fronts -> Patch]
               /\ \A g \in Fronts : fe'[g].lo <= fe'[g].hi + 1
    BY <2>a, <2>b, InitialRecords DEF GoIdle, NoPatch
  <2>c. ASSUME NEW b, NEW e \in Entry, kept' = [kept EXCEPT ![f][b] = e]
        PROVE  /\ kept' \in [Fronts -> [Addrs -> Entry]]
               /\ \A g \in Fronts, a \in Addrs :
                    kept'[g][a] \in {kept[g][a], e} /\ (kept'[g][a] # kept[g][a] => a = b)
    BY <2>a, <2>c
  <2>1. CASE ~WriteCode(f)
    <3>1. UNCHANGED <<program, undo, svc>>
      BY <1>11, <2>1 DEF FrontNext, NopInstruction, RestoreBytes, ReadOriginal,
                         RestoreChecked, PatchChecked, UndoChecked
    <3>2. ASSUME NEW i \in Insns, NopInstruction(f, i) PROVE Kept /\ Good
      <4>1. PICK hi \in Int : i.lo <= hi /\ fe' = [fe EXCEPT ![f] =
                 [NoPatch EXCEPT !.pc = "read", !.lo = i.lo, !.hi = hi]]
        <5>1. LastOf(i) \in Int /\ i.lo <= LastOf(i)
          BY DEF LastOf, Addrs
        <5> QED BY <3>2, <5>1 DEF NopInstruction
      <4>2. i.lo \in Int
        BY DEF Addrs
      <4>3. [NoPatch EXCEPT !.pc = "read", !.lo = i.lo, !.hi = hi] \in Patch
        BY <4>2, InitialRecords DEF Patch, NoPatch
      <4> QED BY <4>1, <4>2, <4>3, <2>a, <3>2 DEF NopInstruction, NoPatch
    <3>3. ASSUME NEW a \in Addrs, RestoreBytes(f, a) PROVE Kept /\ Good
      <4> DEFINE k == kept[f][a]
                 q == [NoPatch EXCEPT !.pc = "submit", !.op = "restore", !.lo = a,
                                      !.hi = k.hi, !.bytes = k.bytes,
                                      !.img = k.img, !.clean = k.clean]
      <4>1. k \in Entry /\ k.on /\ a <= k.hi + 1
        BY <3>3, <1>t, <1>11 DEF RestoreBytes, PatchTypes, Ranges
      <4>2. q \in Patch /\ q.lo = a /\ q.hi = k.hi
        <5>1. /\ k.hi \in Int /\ k.bytes \in Content /\ a \in Int
              /\ k.img \in 0..Images /\ k.clean \in BOOLEAN
          BY <4>1 DEF Entry, Addrs
        <5> HIDE DEF k
        <5> QED BY <5>1, InitialRecords DEF Patch, NoPatch
      <4>3. fe' = [fe EXCEPT ![f] = q] /\ UNCHANGED kept
        BY <3>3 DEF RestoreBytes
      <4> HIDE DEF q, k
      <4> QED BY <4>1, <4>2, <4>3, <2>a
    <3>4. ASSUME ReadOriginal(f) PROVE Kept /\ Good
      <4> DEFINE q == [fe[f] EXCEPT !.pc = "submit", !.orig = text,
                                    !.img = image, !.clean = ~undo.on]
      <4>1. CASE fe' = [fe EXCEPT ![f] = q] /\ UNCHANGED kept
        <5>1. q \in Patch /\ q.lo = fe[f].lo /\ q.hi = fe[f].hi
          BY <2>a, <1>t DEF Patch, PatchTypes
        <5> HIDE DEF q
        <5> QED BY <4>1, <5>1, <2>a
      <4>2. CASE GoIdle(f) /\ UNCHANGED kept
        BY <4>2, <2>b, <2>a
      <4> QED BY <3>4, <4>1, <4>2 DEF ReadOriginal, GoIdle
    <3>5. ASSUME RestoreChecked(f) PROVE Kept /\ Good
      <4>1. GoIdle(f) /\ (UNCHANGED kept \/ Forget(f, fe[f].lo))
        BY <3>5 DEF RestoreChecked
      <4>2. CASE Forget(f, fe[f].lo)
        <5>1. /\ kept' \in [Fronts -> [Addrs -> Entry]]
              /\ \A g \in Fronts, a \in Addrs : kept'[g][a] \in {kept[g][a], NotKept}
          BY <4>2, <2>c, InitialRecords DEF Forget
        <5>2. \A g \in Fronts, a \in Addrs : kept'[g][a].on => a <= kept'[g][a].hi + 1
          BY <5>1, <2>a DEF NotKept
        <5> QED BY <4>1, <5>1, <5>2, <2>b
      <4>3. CASE UNCHANGED kept
        BY <4>1, <4>3, <2>a, <2>b
      <4> QED BY <4>1, <4>2, <4>3
    <3>6. ASSUME PatchChecked(f) PROVE Kept /\ Good
      <4> DEFINE q == [fe[f] EXCEPT !.pc = "submit", !.bytes = fe[f].orig,
                                    !.again = TRUE]
                 e == [on |-> TRUE, hi |-> fe[f].hi, bytes |-> fe[f].orig,
                       img |-> fe[f].img, clean |-> fe[f].clean]
      <4>1. CASE GoIdle(f) /\ UNCHANGED kept
        BY <4>1, <2>b, <2>a
      <4>2. CASE GoIdle(f) /\ Keep(f, fe[f])
        <5>1. e \in Entry /\ e.hi = fe[f].hi
          BY <2>a DEF Entry, Patch
        <5>2. kept' = [kept EXCEPT ![f][fe[f].lo] = e]
          BY <4>2 DEF Keep
        <5> HIDE DEF e
        <5>3. /\ kept' \in [Fronts -> [Addrs -> Entry]]
              /\ \A g \in Fronts, a \in Addrs :
                   kept'[g][a] \in {kept[g][a], e} /\ (kept'[g][a] # kept[g][a] => a = fe[f].lo)
          <6> DEFINE b == fe[f].lo
          <6>1. kept' = [kept EXCEPT ![f][b] = e]
            BY <5>2
          <6> HIDE DEF b
          <6>2. /\ kept' \in [Fronts -> [Addrs -> Entry]]
                /\ \A g \in Fronts, a \in Addrs :
                     kept'[g][a] \in {kept[g][a], e} /\ (kept'[g][a] # kept[g][a] => a = b)
            BY <5>1, <6>1, <2>a
          <6> QED BY <6>2 DEF b
        <5>4. \A g \in Fronts, a \in Addrs : kept'[g][a].on => a <= kept'[g][a].hi + 1
          BY <5>1, <5>3, <2>a
        <5> QED BY <4>2, <5>3, <5>4, <2>b
      <4>3. CASE fe' = [fe EXCEPT ![f] = q] /\ UNCHANGED kept
        <5>1. q \in Patch /\ q.lo = fe[f].lo /\ q.hi = fe[f].hi
          BY <2>a DEF Patch
        <5> HIDE DEF q
        <5> QED BY <4>3, <5>1, <2>a
      <4> QED BY <3>6, <4>1, <4>2, <4>3 DEF PatchChecked
    <3>7. ASSUME UndoChecked(f) PROVE Kept /\ Good
      BY <3>7, <2>a, <2>b DEF UndoChecked
    <3>8. Kept /\ Good
      BY <1>11, <2>1, <3>2, <3>3, <3>4, <3>5, <3>6, <3>7 DEF FrontNext
    <3> QED BY <3>1, <3>8, <1>t DEF PatchInv, PatchTypes, Ranges, AtWork, Held, Pinned,
                                    Attempted, program
  <2>2. CASE WriteCode(f)
    <3>1. UNCHANGED <<image, view, undo, svc, kept>>
      BY <2>2 DEF WriteCode
    <3>2. Kept /\ Good
      <4>1. PICK res \in {"ok", "gone", "refused", "busy", "pending"} :
              fe' = [fe EXCEPT ![f] = [fe[f] EXCEPT !.pc = "check", !.res = res]]
        <5>1. \/ fe' = [fe EXCEPT ![f] = [fe[f] EXCEPT !.pc = "check", !.res = "ok"]]
              \/ fe' = [fe EXCEPT ![f] = [fe[f] EXCEPT !.pc = "check"]]
          BY <2>2 DEF WriteCode, Backed
        <5>2. [fe[f] EXCEPT !.pc = "check"] = [fe[f] EXCEPT !.pc = "check", !.res = fe[f].res]
          BY <2>a DEF Patch
        <5>3. fe[f].res \in {"ok", "gone", "refused", "busy", "pending"}
          BY <2>a DEF Patch
        <5> QED BY <5>1, <5>2, <5>3
      <4> DEFINE q == [fe[f] EXCEPT !.pc = "check", !.res = res]
      <4>2. q \in Patch /\ q.lo = fe[f].lo /\ q.hi = fe[f].hi
        BY <2>a DEF Patch
      <4>3. fe' = [fe EXCEPT ![f] = q]
        BY <4>1
      <4> HIDE DEF q
      <4> QED BY <4>2, <4>3, <2>a, <3>1
    <3>3. text' \in Content /\ promised' \in Content
      BY <2>2, <1>11, <1>t, OverContent DEF WriteCode, Backed, Promise, PatchTypes, Patch
    <3>4. view = "private" => UNCHANGED <<text, promised>>
      BY <2>2 DEF WriteCode
    <3> QED BY <3>1, <3>2, <3>3, <3>4, <1>t
            DEF PatchInv, PatchTypes, Ranges, AtWork, Held, Pinned, Attempted
  <2> QED BY <2>1, <2>2
<1>12. ASSUME Exec PROVE PatchInv'
  <2> USE <1>12, <1>t DEF Exec
  <2>1. image + 1 \in Byte /\ text' \in Content /\ promised' \in Content
    BY DEF Byte, Content
  <2>2. PatchTypes' /\ Ranges' /\ AtWork'
    BY <2>1 DEF PatchTypes, Ranges, AtWork
  <2>3. Held'
    BY DEF Held, Pinned, PatchTypes, Record
  <2> QED BY <2>2, <2>3 DEF PatchInv
<1>13. ASSUME Ends PROVE PatchInv'
  BY <1>13, <1>t DEF Ends, PatchInv, PatchTypes, Ranges, AtWork, Held
<1>14. ASSUME UNCHANGED patching PROVE PatchInv'
  BY <1>14, <1>t DEF patching, program, PatchInv, PatchTypes, Ranges, AtWork, Held,
                     Pinned, Attempted
<1> QED BY <1>1, <1>2, <1>3, <1>4, <1>5, <1>7, <1>9, <1>10, <1>11, <1>12, <1>13, <1>14
        DEF PatchNext, ServiceNext

(* CodeOwned in every behaviour: for programs and instructions of any size,*)
(* any number of windows and scripts and any number of failures, what the  *)
(* code should be is there or in the service's hands.                      *)
THEOREM CodeIsOwned == PatchSpec => []CodeOwned
<1>1. PatchInv => CodeOwned
  BY PatchAssumption
     DEF PatchInv, CodeOwned, Held, Ranges, Attempted, PatchTypes, Record, Addrs
<1> QED BY <1>1, PatchBegins, PatchGoesOn, PTL DEF PatchSpec

-----------------------------------------------------------------------------
(* The cell b is only f's, and f was never told that it could not put it   *)
(* back; and what is there once nothing is pending.                        *)
Free(f, b) == image # 0 /\ hands[b] \subseteq {<<f, "fresh">>} /\ b \notin told
Now(b) == IF view = "private" THEN promised[b] ELSE text[b]

Submitted == {"submit", "written", "check"}
Answered == {"written", "check"}

Flies(f) == fe[f].op = "nop" /\ fe[f].pc \in Submitted

(* The range of a patch or of an entry, from an instruction's beginning.   *)
Within(lo, hi) == \E i \in Insns : lo = i.lo /\ lo <= hi /\ hi <= i.hi

(* What a list is doing and what it keeps fit together.                    *)
Shapes(f) ==
    /\ fe[f].pc # "idle" /\ fe[f].op = "nop" =>
         Within(fe[f].lo, fe[f].hi) /\ ~kept[f][fe[f].lo].on
    /\ fe[f].pc = "read" => fe[f].op = "nop" /\ ~fe[f].again
    /\ fe[f].again => Flies(f) /\ fe[f].bytes = fe[f].orig
    /\ fe[f].pc # "idle" /\ fe[f].op = "restore" =>
         LET k == kept[f][fe[f].lo]
         IN  /\ fe[f].lo \in Addrs /\ k.on /\ fe[f].hi = k.hi /\ fe[f].bytes = k.bytes
             /\ fe[f].img = k.img /\ (fe[f].clean <=> k.clean)
    /\ Flies(f) => fe[f].img # 0
    /\ image # 0 => fe[f].img <= image
    /\ \A a \in Addrs : kept[f][a].on =>
         /\ Within(a, kept[f][a].hi)
         /\ kept[f][a].img # 0 /\ (image # 0 => kept[f][a].img <= image)

(* The service works for a caller that waits, on the range he gave it.     *)
Serves ==
    /\ svc.by # "sweep" => fe[svc.f].pc = "submit"
    /\ svc.pc = "write" => undo.lo = fe[svc.f].lo /\ undo.hi = fe[svc.f].hi
    /\ svc.pc \in {"restore", "rewrite"} /\ svc.by = "write" => svc.err # "ok"

(* Code nobody has touched is the program's.                               *)
Native == \A b \in Addrs : image # 0 /\ hands[b] = {} => Now(b) # NopByte

(* What was read as the original, and what is kept of it, are no NOPs.     *)
OrigOK(f) ==
    Flies(f) /\ fe[f].clean /\ fe[f].img = image =>
      \A b \in Addrs : b \in fe[f].lo..fe[f].hi /\ Free(f, b) => fe[f].orig[b] # NopByte

KeptOK(f) ==
    \A a \in Addrs : kept[f][a].on /\ kept[f][a].clean /\ kept[f][a].img = image =>
      \A b \in Addrs : b \in a..kept[f][a].hi /\ Free(f, b) => kept[f][a].bytes[b] # NopByte

(* NOPs of the list's are in an entry of it or in the patch it is making.  *)
NopsOwned(f) ==
    \A b \in Addrs : Free(f, b) /\ Now(b) = NopByte =>
      \/ \E a \in Addrs : kept[f][a].on /\ b \in a..kept[f][a].hi
      \/ Flies(f) /\ b \in fe[f].lo..fe[f].hi

(* A patch that was not made has changed nothing, except half of it in a   *)
(* file; and what was put back is back.                                    *)
Made(f) ==
    /\ fe[f].pc \in Answered /\ fe[f].clean /\ fe[f].img = image
    /\ \/ fe[f].res = "ok"
       \/ view = "shared" /\ fe[f].pc = "check" /\ fe[f].res = "refused"

FlightOK(f) ==
    Flies(f) /\ ~fe[f].again /\ ~Made(f) =>
      \A b \in Addrs : b \in fe[f].lo..fe[f].hi /\ Free(f, b) => Now(b) # NopByte

BackOK(f) ==
    /\ fe[f].pc \in Answered /\ fe[f].res = "ok"
    /\ fe[f].again \/ fe[f].op = "restore"
    => \A b \in Addrs : b \in fe[f].lo..fe[f].hi /\ Free(f, b) => Now(b) # NopByte

ListOK(f) ==
    Shapes(f) /\ OrigOK(f) /\ KeptOK(f) /\ NopsOwned(f) /\ FlightOK(f) /\ BackOK(f)

ListInv == PatchInv /\ Serves /\ Native /\ \A f \in Lists : ListOK(f)

(* q is p but for how far it has come.                                     *)
Alike(q, p) ==
    /\ q.op = p.op /\ q.lo = p.lo /\ q.hi = p.hi /\ q.bytes = p.bytes
    /\ q.orig = p.orig /\ q.img = p.img
    /\ (q.clean <=> p.clean) /\ (q.again <=> p.again)

(* What the lists have to do with is left alone.                           *)
Leaves(f) ==
    /\ kept'[f] = kept[f] /\ image' = image /\ view' = view

LEMMA HandsOn ==
    ASSUME NEW f \in Fronts, NEW D, Touch(D, f), told' = told, image' = image,
           NEW g \in Lists, NEW b \in Addrs
    PROVE  /\ b \notin D => (Free(g, b)' <=> Free(g, b))
           /\ b \in D /\ Free(g, b)' =>
                g = f /\ fe[f].clean /\ fe[f].img = image /\ Free(g, b)
<1> DEFINE hand == <<f, IF fe[f].clean /\ fe[f].img = image THEN "fresh" ELSE "stale">>
<1>1. hands' = [a \in Addrs |-> IF a \in D THEN hands[a] \cup {hand} ELSE hands[a]]
  BY DEF Touch
<1>2. hand = <<g, "fresh">> => g = f /\ fe[f].clean /\ fe[f].img = image
  OBVIOUS
<1> HIDE DEF hand
<1> QED BY <1>1, <1>2 DEF Free

(* A list whose cells are left alone.                                      *)
LEMMA ListStays ==
    ASSUME NEW f \in Lists, ListOK(f), Leaves(f), fe'[f] = fe[f],
           \A b \in Addrs : Free(f, b)' => Free(f, b) /\ Now(b)' = Now(b)
    PROVE  ListOK(f)'
<1> USE DEF Leaves
<1>1. Shapes(f)'
  BY DEF ListOK, Shapes, Flies
<1>2. OrigOK(f)' /\ KeptOK(f)'
  BY DEF ListOK, OrigOK, KeptOK, Flies
<1>3. NopsOwned(f)'
  BY DEF ListOK, NopsOwned, Flies
<1>4. FlightOK(f)' /\ BackOK(f)'
  BY DEF ListOK, FlightOK, BackOK, Flies, Made
<1> QED BY <1>1, <1>2, <1>3, <1>4 DEF ListOK

(* A write that changed nothing is answered.                               *)
LEMMA ListRefused ==
    ASSUME NEW f \in Lists, ListOK(f), Leaves(f), Alike(fe'[f], fe[f]),
           fe[f].pc = "submit", fe'[f].pc = "written", fe'[f].res # "ok",
           \A b \in Addrs : Free(f, b)' => Free(f, b) /\ Now(b)' = Now(b)
    PROVE  ListOK(f)'
<1> USE DEF Leaves, Alike, Submitted, Answered
<1>1. Shapes(f)'
  BY DEF ListOK, Shapes, Flies
<1>2. OrigOK(f)' /\ KeptOK(f)'
  BY DEF ListOK, OrigOK, KeptOK, Flies
<1>3. NopsOwned(f)'
  BY DEF ListOK, NopsOwned, Flies
<1>4. FlightOK(f)' /\ BackOK(f)'
  BY DEF ListOK, FlightOK, BackOK, Flies, Made
<1> QED BY <1>1, <1>2, <1>3, <1>4 DEF ListOK

(* A write that was done is answered.                                      *)
LEMMA ListWritten ==
    ASSUME NEW f \in Lists, ListOK(f), Leaves(f), Alike(fe'[f], fe[f]),
           fe[f].pc \in {"submit", "written"}, fe'[f].pc \in Answered,
           fe[f].op \in {"nop", "restore"},
           fe'[f].res = "ok",
           \A b \in Addrs : Free(f, b)' => Free(f, b),
           \A b \in Addrs : b \notin fe[f].lo..fe[f].hi => Now(b)' = Now(b),
           \A b \in Addrs : b \in fe[f].lo..fe[f].hi => Now(b)' = fe[f].bytes[b],
           \A b \in Addrs : b \in fe[f].lo..fe[f].hi /\ Free(f, b)' =>
             fe[f].clean /\ fe[f].img = image
    PROVE  ListOK(f)'
<1> USE DEF Leaves, Alike, Submitted, Answered
<1>1. Shapes(f)'
  BY DEF ListOK, Shapes, Flies
<1>2. OrigOK(f)' /\ KeptOK(f)'
  BY DEF ListOK, OrigOK, KeptOK, Flies
<1>3. NopsOwned(f)'
  <2>1. ASSUME NEW b \in Addrs, Free(f, b)', Now(b)' = NopByte
        PROVE  \/ \E a \in Addrs : kept'[f][a].on /\ b \in a..kept'[f][a].hi
               \/ Flies(f)' /\ b \in fe'[f].lo..fe'[f].hi
    <3>1. CASE b \notin fe[f].lo..fe[f].hi
      BY <2>1, <3>1 DEF ListOK, NopsOwned, Flies
    <3>2. CASE b \in fe[f].lo..fe[f].hi
      BY <2>1, <3>2 DEF ListOK, Shapes, Flies
    <3> QED BY <3>1, <3>2
  <2> QED BY <2>1 DEF NopsOwned
<1>4. FlightOK(f)'
  BY DEF ListOK, FlightOK, Flies, Made
<1>5. BackOK(f)'
  <2>1. ASSUME NEW b \in Addrs, b \in fe[f].lo..fe[f].hi, Free(f, b)',
               fe[f].again \/ fe[f].op = "restore"
        PROVE  fe[f].bytes[b] # NopByte
    <3>1. Free(f, b) /\ fe[f].clean /\ fe[f].img = image
      BY <2>1
    <3>2. CASE fe[f].again
      BY <2>1, <3>1, <3>2 DEF ListOK, Shapes, OrigOK
    <3>3. CASE fe[f].op = "restore"
      <4> DEFINE a == fe[f].lo
      <4>1. /\ a \in Addrs /\ kept[f][a].on /\ fe[f].hi = kept[f][a].hi
            /\ fe[f].bytes = kept[f][a].bytes /\ kept[f][a].img = image
            /\ kept[f][a].clean
        BY <3>1, <3>3 DEF ListOK, Shapes
      <4>2. b \in a..kept[f][a].hi
        BY <2>1, <4>1
      <4> HIDE DEF a
      <4> QED BY <3>1, <4>1, <4>2 DEF ListOK, KeptOK
    <3> QED BY <2>1, <3>2, <3>3
  <2> QED BY <2>1 DEF BackOK
<1> QED BY <1>1, <1>2, <1>3, <1>4, <1>5 DEF ListOK

(* Half a write went into the file.                                        *)
LEMMA ListTorn ==
    ASSUME NEW f \in Lists, ListOK(f), Leaves(f), Alike(fe'[f], fe[f]),
           fe[f].pc = "written", fe'[f].pc = "check", fe'[f].res = "refused",
           view = "shared", fe[f].op \in {"nop", "restore"},
           \A b \in Addrs : Free(f, b)' => Free(f, b),
           \A b \in Addrs : b \notin fe[f].lo..fe[f].hi => Now(b)' = Now(b),
           \A b \in Addrs : b \in fe[f].lo..fe[f].hi /\ Free(f, b)' =>
             fe[f].clean /\ fe[f].img = image
    PROVE  ListOK(f)'
<1> USE DEF Leaves, Alike, Submitted, Answered
<1>1. Shapes(f)'
  BY DEF ListOK, Shapes, Flies
<1>2. OrigOK(f)' /\ KeptOK(f)'
  BY DEF ListOK, OrigOK, KeptOK, Flies
<1>3. NopsOwned(f)'
  <2>1. ASSUME NEW b \in Addrs, Free(f, b)', Now(b)' = NopByte
        PROVE  \/ \E a \in Addrs : kept'[f][a].on /\ b \in a..kept'[f][a].hi
               \/ Flies(f)' /\ b \in fe'[f].lo..fe'[f].hi
    <3>1. CASE b \notin fe[f].lo..fe[f].hi
      BY <2>1, <3>1 DEF ListOK, NopsOwned, Flies
    <3>2. CASE b \in fe[f].lo..fe[f].hi
      BY <2>1, <3>2 DEF ListOK, Shapes, Flies
    <3> QED BY <3>1, <3>2
  <2> QED BY <2>1 DEF NopsOwned
<1>4. FlightOK(f)' /\ BackOK(f)'
  BY DEF ListOK, FlightOK, BackOK, Flies, Made
<1> QED BY <1>1, <1>2, <1>3, <1>4 DEF ListOK

-----------------------------------------------------------------------------
(* The service's steps.                                                    *)

LEMMA QuietKeeps ==
    ASSUME ListInv, UNCHANGED <<fe, kept, hands, told, image, view>>,
           \A b \in Addrs : Now(b)' = Now(b)
    PROVE  Native' /\ \A f \in Lists : ListOK(f)'
<1>1. Native'
  BY DEF ListInv, Native
<1>2. ASSUME NEW f \in Lists PROVE ListOK(f)'
  BY ListStays DEF ListInv, Leaves, Free
<1> QED BY <1>1, <1>2

LEMMA ReplyIs ==
    ASSUME PatchInv, svc.f \in Fronts, NEW res, Reply(res)
    PROVE  /\ svc' = NoJob
           /\ fe'[svc.f].pc = "written" /\ fe'[svc.f].res = res
           /\ Alike(fe'[svc.f], fe[svc.f])
           /\ \A g \in Fronts : g # svc.f => fe'[g] = fe[g]
<1> DEFINE p == fe[svc.f]
           q == [p EXCEPT !.pc = "written", !.res = res]
<1>1. p \in Patch /\ fe \in [Fronts -> Patch]
  BY DEF PatchInv, PatchTypes
<1>2. svc' = NoJob /\ fe' = [fe EXCEPT ![svc.f] = q]
  BY DEF Reply
<1>3. q.pc = "written" /\ q.res = res /\ Alike(q, p)
  <2> HIDE DEF p
  <2> QED BY <1>1 DEF Patch, Alike
<1> HIDE DEF q
<1> QED BY <1>1, <1>2, <1>3

LEMMA ReplyKeeps ==
    ASSUME ListInv, svc.by # "sweep", NEW res, res # "ok", Reply(res),
           UNCHANGED <<kept, hands, told, image, view>>,
           \A b \in Addrs : Now(b)' = Now(b)
    PROVE  Serves' /\ Native' /\ \A f \in Lists : ListOK(f)'
<1>0. svc.f \in Fronts /\ fe[svc.f].pc = "submit"
  BY DEF ListInv, PatchInv, AtWork, Serves
<1>1. /\ svc' = NoJob
      /\ fe'[svc.f].pc = "written" /\ fe'[svc.f].res = res
      /\ Alike(fe'[svc.f], fe[svc.f])
      /\ \A g \in Fronts : g # svc.f => fe'[g] = fe[g]
  BY <1>0, ReplyIs DEF ListInv
<1>2. Serves' /\ Native'
  BY <1>1 DEF Serves, NoJob, ListInv, Native
<1>3. ASSUME NEW f \in Lists PROVE ListOK(f)'
  <2>0. /\ ListOK(f) /\ Leaves(f) /\ f \in Fronts
        /\ \A b \in Addrs : Free(f, b)' => Free(f, b) /\ Now(b)' = Now(b)
    BY DEF ListInv, Leaves, Free, Fronts
  <2>1. CASE f = svc.f
    BY <1>0, <1>1, <2>0, <2>1, ListRefused
  <2>2. CASE f # svc.f
    BY <1>1, <2>0, <2>2, ListStays
  <2> QED BY <2>1, <2>2
<1> QED BY <1>2, <1>3

LEMMA RestoredKeeps ==
    ASSUME ListInv, NEW ok \in BOOLEAN, Restored(ok),
           svc.pc \in {"restore", "rewrite"},
           UNCHANGED <<kept, hands, told, image, view>>,
           \A b \in Addrs : Now(b)' = Now(b)
    PROVE  Serves' /\ Native' /\ \A f \in Lists : ListOK(f)'
<1>t. svc \in Job
  BY DEF ListInv, PatchInv, PatchTypes
<1>1. CASE svc.by = "sweep"
  <2>1. svc' = NoJob /\ fe' = fe
    BY <1>1 DEF Restored
  <2>2. Serves'
    BY <2>1 DEF Serves, NoJob
  <2> QED BY <2>1, <2>2, QuietKeeps
<1>2. CASE svc.by = "recover" /\ ok
  <2>1. svc' = [svc EXCEPT !.pc = "prepare"] /\ fe' = fe
    BY <1>2 DEF Restored, GoOn
  <2>2. Serves'
    BY <1>2, <1>t, <2>1 DEF ListInv, Serves, Job
  <2> QED BY <2>1, <2>2, QuietKeeps
<1>3. CASE svc.by = "recover" /\ ~ok
  <2>1. Reply("refused")
    BY <1>3 DEF Restored
  <2> QED BY <1>3, <2>1, ReplyKeeps
<1>4. CASE svc.by = "write"
  <2>1. PICK res : res # "ok" /\ Reply(res)
    <3>1. CASE ok
      BY <1>4, <3>1 DEF Restored, ListInv, Serves
    <3>2. CASE ~ok
      BY <1>4, <3>2 DEF Restored
    <3> QED BY <3>1, <3>2
  <2> QED BY <1>4, <2>1, ReplyKeeps
<1> QED BY <1>1, <1>2, <1>3, <1>4, <1>t DEF Job

LEMMA ServiceKeeps ==
    ASSUME ListInv, ServiceNext
    PROVE  Serves' /\ Native' /\ \A f \in Lists : ListOK(f)'
<1>t. svc \in Job /\ undo \in Record /\ AtWork /\ Serves
  BY DEF ListInv, PatchInv, PatchTypes
<1>1. ASSUME SweepCode \/ \E f \in Fronts : TakeWrite(f)
      PROVE  Serves' /\ Native' /\ \A f \in Lists : ListOK(f)'
  <2>1. UNCHANGED <<program, undo, fe, kept, told>>
    BY <1>1 DEF SweepCode, TakeWrite
  <2>2. \A b \in Addrs : Now(b)' = Now(b)
    BY <2>1 DEF program, Now
  <2>3. Native' /\ \A f \in Lists : ListOK(f)'
    BY <2>1, <2>2, QuietKeeps DEF program
  <2>4. Serves'
    BY <1>1, <2>1 DEF Serves, SweepCode, TakeWrite, NoJob
  <2> QED BY <2>3, <2>4
<1>2. ASSUME Prepare PROVE Serves' /\ Native' /\ \A f \in Lists : ListOK(f)'
  <2>0. svc.pc = "prepare" /\ svc.by # "sweep" /\ UNCHANGED <<program, kept, told>>
    BY <1>2, <1>t DEF Prepare, AtWork
  <2>1. \A b \in Addrs : Now(b)' = Now(b)
    BY <2>0 DEF program, Now
  <2>2. CASE \E res \in {"gone", "refused", "busy"} : Reply(res)
    BY <2>0, <2>1, <2>2, ReplyKeeps DEF program
  <2>3. CASE /\ undo' = [on |-> TRUE, img |-> image, lo |-> fe[svc.f].lo,
                         hi |-> fe[svc.f].hi, att |-> fe[svc.f].lo, orig |-> text]
             /\ svc' = [svc EXCEPT !.pc = "write", !.by = "write", !.off = fe[svc.f].lo]
             /\ fe' = fe
    <3>1. Native' /\ \A f \in Lists : ListOK(f)'
      BY <2>0, <2>1, <2>3, QuietKeeps DEF program
    <3>2. Serves'
      BY <1>t, <2>0, <2>3 DEF Serves, Job
    <3> QED BY <3>1, <3>2
  <2> QED BY <1>2, <2>2, <2>3 DEF Prepare
<1>3. ASSUME WriteChunk PROVE Serves' /\ Native' /\ \A f \in Lists : ListOK(f)'
  <2>0. /\ svc.pc = "write" /\ svc.by # "sweep"
        /\ UNCHANGED <<promised, hands, image, view, fe, kept, told>>
    BY <1>3, <1>t DEF WriteChunk, AtWork
  <2>1. view = "private" \/ text' = text
    BY <1>3 DEF WriteChunk
  <2>2. \A b \in Addrs : Now(b)' = Now(b)
    BY <2>0, <2>1 DEF Now
  <2>3. Native' /\ \A f \in Lists : ListOK(f)'
    BY <2>0, <2>2, QuietKeeps
  <2>4. /\ \E att : undo' = [undo EXCEPT !.att = att]
        /\ \/ \E end : svc' = [svc EXCEPT !.off = end]
           \/ \E err \in {"gone", "refused"} : WriteFailed(err)
    BY <1>3 DEF WriteChunk
  <2>5. undo'.lo = undo.lo /\ undo'.hi = undo.hi
    BY <1>t, <2>4 DEF Record
  <2>6. Serves'
    BY <1>t, <2>0, <2>4, <2>5 DEF Serves, Job, WriteFailed
  <2> QED BY <2>3, <2>6
<1>4. ASSUME WriteDone PROVE Serves' /\ Native' /\ \A f \in Lists : ListOK(f)'
  <2> DEFINE p == fe[svc.f]
             D == undo.lo..undo.hi
  <2>0. /\ svc.pc = "write" /\ svc.by # "sweep" /\ svc.f \in Fronts
        /\ fe[svc.f].pc = "submit" /\ D = p.lo..p.hi
        /\ UNCHANGED <<text, image, view, kept, told>>
    BY <1>4, <1>t DEF WriteDone, AtWork, Serves
  <2>1. CASE /\ UNCHANGED <<promised, hands, undo, fe>>
             /\ \E err \in {"gone", "refused"} : WriteFailed(err)
    <3>1. \A b \in Addrs : Now(b)' = Now(b)
      BY <2>0, <2>1 DEF Now
    <3>2. Native' /\ \A f \in Lists : ListOK(f)'
      BY <2>0, <2>1, <3>1, QuietKeeps
    <3>3. Serves'
      BY <1>t, <2>0, <2>1 DEF Serves, Job, WriteFailed
    <3> QED BY <3>2, <3>3
  <2>2. CASE Same(text, D, p.bytes) /\ Promise(D, svc.f, p.bytes) /\ Reply("ok")
    <3>1. /\ svc' = NoJob
          /\ fe'[svc.f].pc = "written" /\ fe'[svc.f].res = "ok"
          /\ Alike(fe'[svc.f], fe[svc.f])
          /\ \A g \in Fronts : g # svc.f => fe'[g] = fe[g]
      BY <2>0, <2>2, ReplyIs DEF ListInv
    <3>2. \A b \in Addrs : Now(b)' = IF b \in D THEN p.bytes[b] ELSE Now(b)
      <4>1. /\ p.bytes \in Content /\ promised \in Content
            /\ promised' = Overlay(promised, D, p.bytes)
        BY <2>0, <2>2 DEF ListInv, PatchInv, PatchTypes, Patch, Promise
      <4>2. \A b \in Addrs : promised'[b] = IF b \in D THEN p.bytes[b] ELSE promised[b]
        <5> HIDE DEF p, D
        <5> QED BY <4>1, OverContent
      <4> QED BY <2>0, <2>2, <4>2 DEF Now, Same
    <3>3. Touch(D, svc.f)
      BY <2>2 DEF Promise
    <3>4. \A g \in Lists, b \in Addrs :
            /\ b \notin D => (Free(g, b)' <=> Free(g, b))
            /\ b \in D /\ Free(g, b)' =>
                 g = svc.f /\ p.clean /\ p.img = image /\ Free(g, b)
      <4> HIDE DEF D
      <4> QED BY <2>0, <3>3, HandsOn
    <3>5. Native'
      <4>1. ASSUME NEW b \in Addrs, b \in D PROVE hands'[b] # {}
        BY <3>3, <4>1 DEF Touch
      <4>2. ASSUME NEW b \in Addrs, b \notin D PROVE hands'[b] = hands[b]
        BY <3>3, <4>2 DEF Touch
      <4> QED BY <2>0, <3>2, <4>1, <4>2 DEF Native, ListInv
    <3>6. ASSUME NEW f \in Lists PROVE ListOK(f)'
      <4>0. ListOK(f) /\ Leaves(f) /\ f \in Fronts
        BY <2>0 DEF ListInv, Leaves, Fronts
      <4>1. CASE f = svc.f
        <5>1. p.op \in {"nop", "restore"}
          BY <2>0 DEF ListInv, PatchInv, PatchTypes, Patch
        <5>2. /\ \A b \in Addrs : Free(f, b)' => Free(f, b)
              /\ \A b \in Addrs : b \notin p.lo..p.hi => Now(b)' = Now(b)
              /\ \A b \in Addrs : b \in p.lo..p.hi => Now(b)' = p.bytes[b]
              /\ \A b \in Addrs : b \in p.lo..p.hi /\ Free(f, b)' =>
                   p.clean /\ p.img = image
          BY <2>0, <3>2, <3>4
        <5> QED BY <2>0, <3>1, <4>0, <4>1, <5>1, <5>2, ListWritten DEF Answered
      <4>2. CASE f # svc.f
        <5>1. \A b \in Addrs : Free(f, b)' => Free(f, b) /\ Now(b)' = Now(b)
          BY <3>2, <3>4, <4>2
        <5> QED BY <3>1, <4>0, <4>2, <5>1, ListStays
      <4> QED BY <4>1, <4>2
    <3>7. Serves'
      BY <3>1 DEF Serves, NoJob
    <3> QED BY <3>5, <3>6, <3>7
  <2> QED BY <1>4, <2>1, <2>2 DEF WriteDone
<1>5. ASSUME RestoreBegin PROVE Serves' /\ Native' /\ \A f \in Lists : ListOK(f)'
  <2>0. svc.pc = "restore" /\ UNCHANGED <<program, kept, told>>
    BY <1>5 DEF RestoreBegin
  <2>1. \A b \in Addrs : Now(b)' = Now(b)
    BY <2>0 DEF program, Now
  <2>2. CASE Restored(TRUE)
    BY <2>0, <2>1, <2>2, RestoredKeeps DEF program
  <2>3. CASE /\ svc' = [svc EXCEPT !.pc = "rewrite", !.off = undo.lo]
             /\ UNCHANGED <<undo, fe>>
    <3>1. Native' /\ \A f \in Lists : ListOK(f)'
      BY <2>0, <2>1, <2>3, QuietKeeps DEF program
    <3>2. Serves'
      BY <1>t, <2>0, <2>3 DEF Serves, Job
    <3> QED BY <3>1, <3>2
  <2> QED BY <1>5, <2>2, <2>3 DEF RestoreBegin
<1>6. ASSUME RestoreChunk PROVE Serves' /\ Native' /\ \A f \in Lists : ListOK(f)'
  <2>0. svc.pc = "rewrite" /\ UNCHANGED <<promised, hands, image, view, kept, told>>
    BY <1>6 DEF RestoreChunk
  <2>1. view = "private" \/ \A b \in Addrs : text'[b] = text[b]
    <3>1. \/ view = "private" \/ text' = text
          \/ text' = Overlay(text, svc.off..(svc.off - 1), undo.orig)
      BY <1>6 DEF RestoreChunk, ListInv, PatchInv, PatchTypes
    <3>2. svc.off..(svc.off - 1) = {}
      BY <1>t DEF Job
    <3> QED BY <3>1, <3>2 DEF Overlay
  <2>2. \A b \in Addrs : Now(b)' = Now(b)
    BY <2>0, <2>1 DEF Now
  <2>3. CASE \E ok \in BOOLEAN : Restored(ok)
    BY <2>0, <2>2, <2>3, RestoredKeeps
  <2>4. CASE (\E end : svc' = [svc EXCEPT !.off = end]) /\ UNCHANGED <<undo, fe>>
    <3>1. Native' /\ \A f \in Lists : ListOK(f)'
      BY <2>0, <2>2, <2>4, QuietKeeps
    <3>2. Serves'
      BY <1>t, <2>0, <2>4 DEF Serves, Job
    <3> QED BY <3>1, <3>2
  <2> QED BY <1>6, <2>3, <2>4 DEF RestoreChunk
<1>7. ASSUME RestoreDone PROVE Serves' /\ Native' /\ \A f \in Lists : ListOK(f)'
  <2>1. /\ svc.pc = "rewrite" /\ UNCHANGED <<program, kept, told>>
        /\ \E ok \in BOOLEAN : Restored(ok)
    BY <1>7 DEF RestoreDone
  <2>2. \A b \in Addrs : Now(b)' = Now(b)
    BY <2>1 DEF program, Now
  <2> QED BY <2>1, <2>2, RestoredKeeps DEF program
<1> QED BY <1>1, <1>2, <1>3, <1>4, <1>5, <1>6, <1>7 DEF ServiceNext

-----------------------------------------------------------------------------
(* The callers' steps.                                                     *)

(* A list that has nothing under way, and none of its cells left behind.   *)
LEMMA ListIdle ==
    ASSUME NEW f \in Lists, ListOK(f), Leaves(f), fe'[f] = NoPatch,
           image \in Nat,
           \A b \in Addrs : Free(f, b)' => Free(f, b) /\ Now(b)' = Now(b),
           \A b \in Addrs : Flies(f) /\ b \in fe[f].lo..fe[f].hi /\ Free(f, b)' =>
             Now(b) # NopByte
    PROVE  ListOK(f)'
<1>1. /\ fe'[f].pc = "idle" /\ fe'[f].op = "nop" /\ ~fe'[f].again /\ fe'[f].img = 0
      /\ ~Flies(f)'
  BY DEF NoPatch, Flies, Submitted
<1> USE DEF Leaves
<1>2. Shapes(f)'
  BY <1>1 DEF ListOK, Shapes
<1>3. OrigOK(f)' /\ KeptOK(f)'
  BY <1>1 DEF ListOK, OrigOK, KeptOK
<1>4. NopsOwned(f)'
  BY <1>1 DEF ListOK, NopsOwned
<1>5. FlightOK(f)' /\ BackOK(f)'
  BY <1>1 DEF FlightOK, BackOK, Answered
<1> QED BY <1>2, <1>3, <1>4, <1>5 DEF ListOK

(* An instruction is taken up.                                             *)
LEMMA ListTakesUp ==
    ASSUME NEW f \in Lists, ListOK(f), Leaves(f), fe[f].pc = "idle",
           fe'[f].pc = "read", fe'[f].op = "nop", ~fe'[f].again, fe'[f].img = 0,
           Within(fe'[f].lo, fe'[f].hi), ~kept[f][fe'[f].lo].on, image \in Nat,
           \A b \in Addrs : Free(f, b)' => Free(f, b) /\ Now(b)' = Now(b)
    PROVE  ListOK(f)'
<1>1. ~Flies(f) /\ ~Flies(f)'
  BY DEF Flies, Submitted
<1> USE DEF Leaves
<1>2. Shapes(f)'
  BY <1>1 DEF ListOK, Shapes, Within
<1>3. OrigOK(f)' /\ KeptOK(f)'
  BY <1>1 DEF ListOK, OrigOK, KeptOK
<1>4. NopsOwned(f)'
  BY <1>1 DEF ListOK, NopsOwned
<1>5. FlightOK(f)' /\ BackOK(f)'
  BY <1>1 DEF FlightOK, BackOK, Answered
<1> QED BY <1>2, <1>3, <1>4, <1>5 DEF ListOK

(* An instruction that is not on the list is not made of its NOPs: what is *)
(* of a list is in an entry of it, and instructions do not overlap.        *)
LEMMA ReadsNoNops ==
    ASSUME ListInv, NEW f \in Lists, fe[f].pc = "read",
           NEW b \in Addrs, b \in fe[f].lo..fe[f].hi, Free(f, b)
    PROVE  Now(b) # NopByte
<1>1. SUFFICES ASSUME Now(b) = NopByte PROVE FALSE
  OBVIOUS
<1>2. ListOK(f) /\ ~Flies(f) /\ fe[f].op = "nop"
  BY DEF ListInv, Flies, Submitted, ListOK, Shapes
<1>3. PICK a \in Addrs : kept[f][a].on /\ b \in a..kept[f][a].hi
  BY <1>1, <1>2 DEF ListOK, NopsOwned
<1>4. f \in Fronts /\ kept[f][a].hi \in Int /\ fe[f].hi \in Int /\ fe[f].lo \in Int
  BY DEF Fronts, ListInv, PatchInv, PatchTypes, Patch, Entry
<1>5. PICK i \in Insns : a = i.lo /\ kept[f][a].hi <= i.hi
  BY <1>2, <1>3 DEF ListOK, Shapes, Within
<1>6. PICK j \in Insns : fe[f].lo = j.lo /\ fe[f].hi <= j.hi
  BY <1>2 DEF ListOK, Shapes, Within
<1>7. i.lo = j.lo
  <2>1. /\ i.lo \in Int /\ i.hi \in Int /\ j.lo \in Int /\ j.hi \in Int /\ b \in Int
    BY PatchAssumption DEF Addrs
  <2>2. i.lo <= j.hi /\ j.lo <= i.hi
    BY <1>3, <1>4, <1>5, <1>6, <2>1
  <2> QED BY <2>2, ListingAssumption
<1> QED BY <1>2, <1>3, <1>5, <1>6, <1>7 DEF ListOK, Shapes

(* The original bytes were read.                                           *)
LEMMA ListReads ==
    ASSUME ListInv, NEW f \in Lists, Leaves(f), fe[f].pc = "read", image # 0,
           fe'[f].pc = "submit", fe'[f].op = fe[f].op, fe'[f].lo = fe[f].lo,
           fe'[f].hi = fe[f].hi, fe'[f].orig = text, fe'[f].img = image,
           fe'[f].clean <=> ~undo.on, fe'[f].again <=> fe[f].again,
           \A b \in Addrs : Free(f, b)' => Free(f, b) /\ Now(b)' = Now(b)
    PROVE  ListOK(f)'
<1>1. ListOK(f) /\ ~Flies(f) /\ fe[f].op = "nop" /\ ~fe[f].again /\ image \in Nat
  BY DEF ListInv, Flies, Submitted, ListOK, Shapes, PatchInv, PatchTypes
<1>2. \A b \in Addrs : b \in fe[f].lo..fe[f].hi /\ Free(f, b) => Now(b) # NopByte
  BY ReadsNoNops
<1>3. ~undo.on => \A b \in Addrs : text[b] = Now(b)
  BY DEF ListInv, PatchInv, PatchTypes, Held, Pinned, Now
<1> USE DEF Leaves
<1>4. Shapes(f)'
  BY <1>1 DEF ListOK, Shapes, Within
<1>5. OrigOK(f)'
  BY <1>2, <1>3 DEF OrigOK
<1>6. KeptOK(f)'
  BY <1>1 DEF ListOK, KeptOK
<1>7. NopsOwned(f)'
  BY <1>1 DEF ListOK, NopsOwned
<1>8. FlightOK(f)' /\ BackOK(f)'
  BY <1>2 DEF FlightOK, BackOK, Answered
<1> QED BY <1>1, <1>4, <1>5, <1>6, <1>7, <1>8 DEF ListOK

(* An entry is being put back.                                             *)
LEMMA ListPutsBack ==
    ASSUME NEW f \in Lists, ListOK(f), Leaves(f), fe[f].pc = "idle",
           NEW a \in Addrs, kept[f][a].on,
           fe'[f].pc = "submit", fe'[f].op = "restore", fe'[f].lo = a,
           fe'[f].hi = kept[f][a].hi, fe'[f].bytes = kept[f][a].bytes,
           fe'[f].img = kept[f][a].img, fe'[f].clean <=> kept[f][a].clean,
           ~fe'[f].again,
           \A b \in Addrs : Free(f, b)' => Free(f, b) /\ Now(b)' = Now(b)
    PROVE  ListOK(f)'
<1>1. ~Flies(f) /\ ~Flies(f)'
  BY DEF Flies, Submitted
<1> USE DEF Leaves
<1>2. Shapes(f)'
  BY <1>1 DEF ListOK, Shapes, Within
<1>3. OrigOK(f)' /\ KeptOK(f)'
  BY <1>1 DEF ListOK, OrigOK, KeptOK
<1>4. NopsOwned(f)'
  BY <1>1 DEF ListOK, NopsOwned
<1>5. FlightOK(f)' /\ BackOK(f)'
  BY <1>1 DEF FlightOK, BackOK, Answered
<1> QED BY <1>2, <1>3, <1>4, <1>5 DEF ListOK

(* An answer is looked at, no file was written.                            *)
LEMMA ListChecks ==
    ASSUME NEW f \in Lists, ListOK(f), Leaves(f), Alike(fe'[f], fe[f]),
           fe[f].pc = "written", fe'[f].pc = "check", fe'[f].res = fe[f].res,
           \A b \in Addrs : Free(f, b)' => Free(f, b) /\ Now(b)' = Now(b)
    PROVE  ListOK(f)'
<1> USE DEF Leaves, Alike, Submitted, Answered
<1>1. Shapes(f)'
  BY DEF ListOK, Shapes, Flies
<1>2. OrigOK(f)' /\ KeptOK(f)'
  BY DEF ListOK, OrigOK, KeptOK, Flies
<1>3. NopsOwned(f)'
  BY DEF ListOK, NopsOwned, Flies
<1>4. FlightOK(f)' /\ BackOK(f)'
  BY DEF ListOK, FlightOK, BackOK, Flies, Made
<1> QED BY <1>1, <1>2, <1>3, <1>4 DEF ListOK

(* The bytes that were there are to be written again.                      *)
LEMMA ListUndoes ==
    ASSUME NEW f \in Lists, ListOK(f), Leaves(f),
           fe[f].pc = "check", fe[f].op = "nop", fe'[f].pc = "submit",
           fe'[f].op = "nop", fe'[f].lo = fe[f].lo, fe'[f].hi = fe[f].hi,
           fe'[f].bytes = fe[f].orig, fe'[f].orig = fe[f].orig,
           fe'[f].img = fe[f].img, fe'[f].clean <=> fe[f].clean, fe'[f].again,
           \A b \in Addrs : Free(f, b)' => Free(f, b) /\ Now(b)' = Now(b)
    PROVE  ListOK(f)'
<1> USE DEF Leaves, Submitted, Answered
<1>1. Shapes(f)'
  BY DEF ListOK, Shapes, Flies
<1>2. OrigOK(f)' /\ KeptOK(f)'
  BY DEF ListOK, OrigOK, KeptOK, Flies
<1>3. NopsOwned(f)'
  BY DEF ListOK, NopsOwned, Flies
<1>4. FlightOK(f)' /\ BackOK(f)'
  BY DEF FlightOK, BackOK
<1> QED BY <1>1, <1>2, <1>3, <1>4 DEF ListOK

(* A patch that was made is kept, with the bytes it replaced.              *)
LEMMA ListKeeps ==
    ASSUME ListInv, NEW f \in Lists, image' = image, view' = view,
           fe[f].pc = "check", fe[f].op = "nop", Keep(f, fe[f]), fe'[f] = NoPatch,
           \A b \in Addrs : Free(f, b)' => Free(f, b) /\ Now(b)' = Now(b)
    PROVE  ListOK(f)'
<1> DEFINE p == fe[f]
           new == [on |-> TRUE, hi |-> p.hi, bytes |-> p.orig, img |-> p.img,
                   clean |-> p.clean]
<1>1. /\ ListOK(f) /\ Flies(f) /\ image \in Nat /\ f \in Fronts
      /\ kept \in [Fronts -> [Addrs -> Entry]]
  BY DEF ListInv, Flies, Submitted, PatchInv, PatchTypes, Fronts
<1>2. Within(p.lo, p.hi) /\ ~kept[f][p.lo].on
  BY <1>1 DEF ListOK, Shapes
<1>3. p.lo \in Addrs
  BY <1>2, PatchAssumption DEF Within
<1>4. kept'[f] = [kept[f] EXCEPT ![p.lo] = new]
  <2>1. kept' = [kept EXCEPT ![f][p.lo] = new]
    BY DEF Keep
  <2> HIDE DEF p, new
  <2> QED BY <1>1, <2>1
<1>5. \A a \in Addrs : kept'[f][a] = IF a = p.lo THEN new ELSE kept[f][a]
  <2> HIDE DEF p, new
  <2> QED BY <1>1, <1>3, <1>4
<1>6. /\ new.on /\ new.hi = p.hi /\ new.bytes = p.orig /\ new.img = p.img
      /\ (new.clean <=> p.clean)
  OBVIOUS
<1>7. /\ fe'[f].pc = "idle" /\ fe'[f].op = "nop" /\ ~fe'[f].again /\ fe'[f].img = 0
      /\ ~Flies(f)'
  BY DEF NoPatch, Flies, Submitted
<1> HIDE DEF new
<1>8. Shapes(f)'
  <2>1. \A a \in Addrs : kept'[f][a].on =>
          /\ Within(a, kept'[f][a].hi)
          /\ kept'[f][a].img # 0 /\ (image # 0 => kept'[f][a].img <= image)
    BY <1>1, <1>2, <1>5, <1>6 DEF ListOK, Shapes
  <2> QED BY <1>1, <1>7, <2>1 DEF Shapes, Within
<1>9. KeptOK(f)'
  <2>1. ASSUME NEW a \in Addrs, kept'[f][a].on, kept'[f][a].clean, kept'[f][a].img = image,
               NEW b \in Addrs, b \in a..kept'[f][a].hi, Free(f, b)'
        PROVE  kept'[f][a].bytes[b] # NopByte
    <3>1. CASE a = p.lo
      BY <1>1, <1>5, <1>6, <2>1, <3>1 DEF ListOK, OrigOK
    <3>2. CASE a # p.lo
      BY <1>1, <1>5, <2>1, <3>2 DEF ListOK, KeptOK
    <3> QED BY <3>1, <3>2
  <2> QED BY <2>1 DEF KeptOK
<1>10. NopsOwned(f)'
  <2>1. ASSUME NEW b \in Addrs, Free(f, b)', Now(b)' = NopByte
        PROVE  \E a \in Addrs : kept'[f][a].on /\ b \in a..kept'[f][a].hi
    <3>1. CASE b \in p.lo..p.hi
      BY <1>3, <1>5, <1>6, <3>1
    <3>2. CASE b \notin p.lo..p.hi
      <4>1. PICK a \in Addrs : kept[f][a].on /\ b \in a..kept[f][a].hi
        BY <1>1, <2>1, <3>2 DEF ListOK, NopsOwned
      <4>2. kept'[f][a] = kept[f][a]
        BY <1>2, <1>5, <4>1
      <4> QED BY <4>1, <4>2
    <3> QED BY <3>1, <3>2
  <2> QED BY <2>1 DEF NopsOwned
<1>11. OrigOK(f)' /\ FlightOK(f)' /\ BackOK(f)'
  BY <1>7 DEF OrigOK, FlightOK, BackOK, Answered
<1> QED BY <1>8, <1>9, <1>10, <1>11 DEF ListOK

(* An entry that was put back is forgotten.                                *)
LEMMA ListForgets ==
    ASSUME ListInv, NEW f \in Lists, image' = image, view' = view,
           fe[f].pc = "check", fe[f].op = "restore", fe[f].res = "ok",
           Forget(f, fe[f].lo), fe'[f] = NoPatch,
           \A b \in Addrs : Free(f, b)' => Free(f, b) /\ Now(b)' = Now(b)
    PROVE  ListOK(f)'
<1> DEFINE p == fe[f]
<1>1. /\ ListOK(f) /\ ~Flies(f) /\ image \in Nat /\ f \in Fronts
      /\ kept \in [Fronts -> [Addrs -> Entry]]
  BY DEF ListInv, Flies, PatchInv, PatchTypes, Fronts
<1>2. p.lo \in Addrs /\ p.hi = kept[f][p.lo].hi
  BY <1>1 DEF ListOK, Shapes
<1>3. \A a \in Addrs : kept'[f][a] = IF a = p.lo THEN NotKept ELSE kept[f][a]
  <2>1. kept' = [kept EXCEPT ![f][p.lo] = NotKept]
    BY DEF Forget
  <2> HIDE DEF p
  <2> QED BY <1>1, <1>2, <2>1
<1>4. ~NotKept.on
  BY DEF NotKept
<1>5. /\ fe'[f].pc = "idle" /\ fe'[f].op = "nop" /\ ~fe'[f].again /\ fe'[f].img = 0
      /\ ~Flies(f)'
  BY DEF NoPatch, Flies, Submitted
<1>6. Shapes(f)'
  <2>1. \A a \in Addrs : kept'[f][a].on =>
          /\ Within(a, kept'[f][a].hi)
          /\ kept'[f][a].img # 0 /\ (image # 0 => kept'[f][a].img <= image)
    BY <1>1, <1>3, <1>4 DEF ListOK, Shapes
  <2> QED BY <1>1, <1>5, <2>1 DEF Shapes, Within
<1>7. KeptOK(f)'
  <2>1. ASSUME NEW a \in Addrs, kept'[f][a].on, kept'[f][a].clean, kept'[f][a].img = image,
               NEW b \in Addrs, b \in a..kept'[f][a].hi, Free(f, b)'
        PROVE  kept'[f][a].bytes[b] # NopByte
    <3>1. kept'[f][a] = kept[f][a]
      BY <1>3, <1>4, <2>1
    <3> QED BY <1>1, <2>1, <3>1 DEF ListOK, KeptOK
  <2> QED BY <2>1 DEF KeptOK
<1>8. NopsOwned(f)'
  <2>1. ASSUME NEW b \in Addrs, Free(f, b)', Now(b)' = NopByte
        PROVE  \E a \in Addrs : kept'[f][a].on /\ b \in a..kept'[f][a].hi
    <3>1. PICK a \in Addrs : kept[f][a].on /\ b \in a..kept[f][a].hi
      BY <1>1, <2>1 DEF ListOK, NopsOwned
    <3>2. b \notin p.lo..p.hi
      BY <1>1, <2>1 DEF ListOK, BackOK, Answered
    <3>3. kept'[f][a] = kept[f][a]
      BY <1>2, <1>3, <3>1, <3>2
    <3> QED BY <3>1, <3>3
  <2> QED BY <2>1 DEF NopsOwned
<1>9. OrigOK(f)' /\ FlightOK(f)' /\ BackOK(f)'
  BY <1>5 DEF OrigOK, FlightOK, BackOK, Answered
<1> QED BY <1>6, <1>7, <1>8, <1>9 DEF ListOK

(* A caller's step that touches no code concerns its own list alone.       *)
LEMMA FrontQuiet ==
    ASSUME ListInv, NEW f \in Fronts, fe[f].pc # "submit",
           UNCHANGED <<program, undo, svc>>, told \subseteq told',
           \A g \in Fronts : g # f => fe'[g] = fe[g] /\ kept'[g] = kept[g],
           f \in Lists => ListOK(f)'
    PROVE  Serves' /\ Native' /\ \A g \in Lists : ListOK(g)'
<1>1. Serves'
  BY DEF ListInv, Serves, PatchInv, AtWork
<1>2. \A b \in Addrs : Now(b)' = Now(b)
  BY DEF program, Now
<1>3. Native'
  BY <1>2 DEF ListInv, Native, program
<1>4. ASSUME NEW g \in Lists PROVE ListOK(g)'
  <2>1. CASE g = f
    BY <2>1
  <2>2. CASE g # f
    <3>1. ListOK(g) /\ Leaves(g) /\ fe'[g] = fe[g]
      BY <2>2 DEF ListInv, Leaves, program, Fronts
    <3>2. \A b \in Addrs : Free(g, b)' => Free(g, b) /\ Now(b)' = Now(b)
      BY <1>2 DEF Free, program
    <3> QED BY <3>1, <3>2, ListStays
  <2> QED BY <2>1, <2>2
<1> QED BY <1>1, <1>3, <1>4

(* The bytes that go through the file touch what they were meant for.      *)
LEMMA BackedKeeps ==
    ASSUME ListInv, NEW f \in Fronts, fe[f].pc = "written", fe[f].res = "refused",
           view = "shared", Backed(f), UNCHANGED <<image, view, undo, svc, kept, told>>
    PROVE  Serves' /\ Native' /\ \A g \in Lists : ListOK(g)'
<1> DEFINE p == fe[f]
           D == p.lo..p.hi
<1>t. /\ fe \in [Fronts -> Patch] /\ p \in Patch /\ text \in Content
      /\ p.bytes \in Content /\ p.op \in {"nop", "restore"}
      /\ p.lo \in Int /\ p.hi \in Int
  BY DEF ListInv, PatchInv, PatchTypes, Patch
<1>1. Touch(D, f)
  BY DEF Backed, Promise
<1>2. PICK res \in {"ok", "refused"} :
        /\ fe' = [fe EXCEPT ![f] = [p EXCEPT !.pc = "check", !.res = res]]
        /\ \/ res = "ok" /\ text' = Overlay(text, D, p.bytes)
           \/ /\ res = "refused"
              /\ \E n \in D : text' = Overlay(text, p.lo..(n - 1), p.bytes)
  <2>1. [p EXCEPT !.pc = "check"] = [p EXCEPT !.pc = "check", !.res = "refused"]
    <3> HIDE DEF p
    <3>1. p.res = "refused"
      BY DEF p
    <3> QED BY <1>t, <3>1 DEF Patch
  <2>2. CASE /\ fe' = [fe EXCEPT ![f] = [p EXCEPT !.pc = "check", !.res = "ok"]]
             /\ text' = Overlay(text, D, p.bytes)
    BY <2>2
  <2>3. CASE /\ fe' = [fe EXCEPT ![f] = [p EXCEPT !.pc = "check"]]
             /\ \E n \in D : text' = Overlay(text, p.lo..(n - 1), p.bytes)
    BY <2>1, <2>3
  <2> QED BY <2>2, <2>3 DEF Backed
<1>3. /\ fe'[f].pc = "check" /\ fe'[f].res = res /\ Alike(fe'[f], p)
      /\ \A g \in Fronts : g # f => fe'[g] = fe[g]
  <2> DEFINE q == [p EXCEPT !.pc = "check", !.res = res]
  <2>1. q.pc = "check" /\ q.res = res /\ Alike(q, p)
    <3> HIDE DEF p
    <3> QED BY <1>t DEF Patch, Alike
  <2>2. fe' = [fe EXCEPT ![f] = q]
    BY <1>2
  <2> HIDE DEF q, p
  <2> QED BY <1>t, <2>1, <2>2
<1>4. \A b \in Addrs : /\ b \notin D => Now(b)' = Now(b)
                       /\ b \in D /\ res = "ok" => Now(b)' = p.bytes[b]
  <2>1. CASE res = "ok" /\ text' = Overlay(text, D, p.bytes)
    <3> HIDE DEF p, D
    <3> QED BY <1>t, <2>1, OverContent DEF Now
  <2>2. CASE /\ res = "refused"
             /\ \E n \in D : text' = Overlay(text, p.lo..(n - 1), p.bytes)
    <3>1. PICK n \in D : text' = Overlay(text, p.lo..(n - 1), p.bytes)
      BY <2>2
    <3>2. \A b \in Addrs : b \notin D => b \notin p.lo..(n - 1)
      BY <1>t DEF Addrs
    <3>3. \A b \in Addrs : b \notin D => text'[b] = text[b]
      BY <3>1, <3>2 DEF Overlay
    <3> QED BY <2>2, <3>3 DEF Now
  <2> QED BY <1>2, <2>1, <2>2
<1>5. \A g \in Lists, b \in Addrs :
        /\ b \notin D => (Free(g, b)' <=> Free(g, b))
        /\ b \in D /\ Free(g, b)' => g = f /\ p.clean /\ p.img = image /\ Free(g, b)
  <2> HIDE DEF D
  <2> QED BY <1>1, HandsOn
<1>6. Native'
  <2>1. ASSUME NEW b \in Addrs, b \in D PROVE hands'[b] # {}
    BY <1>1, <2>1 DEF Touch
  <2>2. ASSUME NEW b \in Addrs, b \notin D PROVE hands'[b] = hands[b]
    BY <1>1, <2>2 DEF Touch
  <2> QED BY <1>4, <2>1, <2>2 DEF Native, ListInv
<1>7. Serves'
  BY <1>3 DEF ListInv, Serves, PatchInv, AtWork
<1>8. ASSUME NEW g \in Lists PROVE ListOK(g)'
  <2>0. ListOK(g) /\ Leaves(g) /\ g \in Fronts
    BY DEF ListInv, Leaves, Fronts
  <2>1. CASE g # f
    <3>1. \A b \in Addrs : Free(g, b)' => Free(g, b) /\ Now(b)' = Now(b)
      BY <1>4, <1>5, <2>1
    <3> QED BY <1>3, <2>0, <2>1, <3>1, ListStays
  <2>2. CASE g = f
    <3>1. /\ \A b \in Addrs : Free(g, b)' => Free(g, b)
          /\ \A b \in Addrs : b \notin p.lo..p.hi => Now(b)' = Now(b)
          /\ \A b \in Addrs : b \in p.lo..p.hi /\ Free(g, b)' => p.clean /\ p.img = image
      BY <1>4, <1>5
    <3>2. CASE res = "ok"
      <4>1. \A b \in Addrs : b \in p.lo..p.hi => Now(b)' = p.bytes[b]
        BY <1>4, <3>2
      <4> QED BY <1>t, <1>3, <2>0, <2>2, <3>1, <3>2, <4>1, ListWritten DEF Answered
    <3>3. CASE res = "refused"
      BY <1>t, <1>3, <2>0, <2>2, <3>1, <3>3, ListTorn
    <3> QED BY <3>2, <3>3
  <2> QED BY <2>1, <2>2
<1> QED BY <1>6, <1>7, <1>8

LEMMA FrontKeeps ==
    ASSUME ListInv, NEW f \in Fronts, FrontNext(f)
    PROVE  Serves' /\ Native' /\ \A g \in Lists : ListOK(g)'
<1> DEFINE Good == Serves' /\ Native' /\ \A g \in Lists : ListOK(g)'
           p == fe[f]
<1>t. /\ fe \in [Fronts -> Patch] /\ p \in Patch /\ image \in Nat
      /\ kept \in [Fronts -> [Addrs -> Entry]]
      /\ \A g \in Lists : ListOK(g)
  BY DEF ListInv, PatchInv, PatchTypes
<1>q. ASSUME UNCHANGED program, told \subseteq told'
      PROVE  /\ \A g \in Lists, b \in Addrs :
                  Free(g, b)' => Free(g, b) /\ Now(b)' = Now(b)
             /\ image' = image /\ view' = view
  BY <1>q DEF program, Free, Now
<1>i. ASSUME GoIdle(f) PROVE fe'[f] = NoPatch /\ \A g \in Fronts : g # f => fe'[g] = fe[g]
  BY <1>i, <1>t DEF GoIdle
<1> HIDE DEF p
<1>1. ASSUME NEW i \in Insns, NopInstruction(f, i) PROVE Good
  <2> DEFINE q == [NoPatch EXCEPT !.pc = "read", !.lo = i.lo, !.hi = LastOf(i)]
  <2>1. /\ p.pc = "idle" /\ fe' = [fe EXCEPT ![f] = q] /\ MayNop(f, i.lo)
        /\ UNCHANGED <<program, undo, svc, kept, told>>
    BY <1>1 DEF NopInstruction, p
  <2>2. /\ q.pc = "read" /\ q.op = "nop" /\ ~q.again /\ q.img = 0 /\ q.lo = i.lo
        /\ q.hi = LastOf(i)
    BY DEF NoPatch
  <2> HIDE DEF q
  <2>3. fe'[f] = q /\ \A g \in Fronts : g # f => fe'[g] = fe[g] /\ kept'[g] = kept[g]
    BY <1>t, <2>1
  <2>4. Within(q.lo, q.hi)
    BY <2>2, PatchAssumption DEF Within, LastOf, Addrs
  <2>5. ASSUME f \in Lists PROVE ListOK(f)'
    <3>1. ListOK(f) /\ ~kept[f][q.lo].on /\ Leaves(f)
      BY <1>t, <1>q, <2>1, <2>2, <2>5 DEF MayNop, Leaves
    <3>2. \A b \in Addrs : Free(f, b)' => Free(f, b) /\ Now(b)' = Now(b)
      BY <1>q, <2>1, <2>5
    <3> QED BY <1>t, <2>1, <2>2, <2>3, <2>4, <2>5, <3>1, <3>2, ListTakesUp DEF p
  <2> QED BY <2>1, <2>3, <2>5, FrontQuiet DEF p
<1>2. ASSUME NEW a \in Addrs, RestoreBytes(f, a) PROVE Good
  <2> DEFINE k == kept[f][a]
             q == [NoPatch EXCEPT !.pc = "submit", !.op = "restore", !.lo = a,
                   !.hi = k.hi, !.bytes = k.bytes, !.img = k.img, !.clean = k.clean]
  <2>1. /\ p.pc = "idle" /\ k.on /\ fe' = [fe EXCEPT ![f] = q]
        /\ UNCHANGED <<program, undo, svc, kept, told>>
    BY <1>2 DEF RestoreBytes, p
  <2>2. /\ q.pc = "submit" /\ q.op = "restore" /\ q.lo = a /\ q.hi = k.hi
        /\ q.bytes = k.bytes /\ q.img = k.img /\ (q.clean <=> k.clean) /\ ~q.again
    <3> HIDE DEF k
    <3> QED BY ZenonT(40) DEF NoPatch
  <2> HIDE DEF q
  <2>3. fe'[f] = q /\ \A g \in Fronts : g # f => fe'[g] = fe[g] /\ kept'[g] = kept[g]
    BY <1>t, <2>1
  <2>5. ASSUME f \in Lists PROVE ListOK(f)'
    <3>1. ListOK(f) /\ Leaves(f)
      BY <1>t, <1>q, <2>1, <2>5 DEF Leaves
    <3>2. \A b \in Addrs : Free(f, b)' => Free(f, b) /\ Now(b)' = Now(b)
      BY <1>q, <2>1, <2>5
    <3> QED BY <2>1, <2>2, <2>3, <2>5, <3>1, <3>2, ListPutsBack DEF p
  <2> QED BY <2>1, <2>3, <2>5, FrontQuiet DEF p
<1>3. ASSUME ReadOriginal(f) PROVE Good
  <2>1. p.pc = "read" /\ UNCHANGED <<program, undo, svc, kept, told>>
    BY <1>3 DEF ReadOriginal, p
  <2>2. CASE GoIdle(f)
    <3>1. ASSUME f \in Lists PROVE ListOK(f)'
      <4>1. ListOK(f) /\ Leaves(f) /\ ~Flies(f)
        BY <1>t, <1>q, <2>1, <3>1 DEF Leaves, Flies, Submitted, p
      <4>2. \A b \in Addrs : Free(f, b)' => Free(f, b) /\ Now(b)' = Now(b)
        BY <1>q, <2>1, <3>1
      <4> QED BY <1>i, <1>t, <2>2, <3>1, <4>1, <4>2, ListIdle
    <3> QED BY <1>i, <2>1, <2>2, <3>1, FrontQuiet DEF p
  <2>3. CASE /\ image # 0
             /\ fe' = [fe EXCEPT ![f] = [p EXCEPT !.pc = "submit", !.orig = text,
                                          !.img = image, !.clean = ~undo.on]]
    <3> DEFINE q == [p EXCEPT !.pc = "submit", !.orig = text, !.img = image,
                              !.clean = ~undo.on]
    <3>1. /\ q.pc = "submit" /\ q.op = p.op /\ q.lo = p.lo /\ q.hi = p.hi
          /\ q.orig = text /\ q.img = image /\ (q.clean <=> ~undo.on)
          /\ (q.again <=> p.again)
      BY <1>t, ZenonT(40) DEF Patch
    <3>2. fe' = [fe EXCEPT ![f] = q]
      BY <2>3
    <3> HIDE DEF q
    <3>3. fe'[f] = q /\ \A g \in Fronts : g # f => fe'[g] = fe[g] /\ kept'[g] = kept[g]
      BY <1>t, <2>1, <3>2
    <3>4. ASSUME f \in Lists PROVE ListOK(f)'
      <4>1. Leaves(f)
        BY <1>q, <2>1 DEF Leaves
      <4>2. \A b \in Addrs : Free(f, b)' => Free(f, b) /\ Now(b)' = Now(b)
        BY <1>q, <2>1, <3>4
      <4> QED BY <2>1, <2>3, <3>1, <3>3, <3>4, <4>1, <4>2, ListReads DEF p
    <3> QED BY <2>1, <3>3, <3>4, FrontQuiet DEF p
  <2> QED BY <1>3, <2>2, <2>3 DEF ReadOriginal, GoIdle, p
<1>4. ASSUME WriteCode(f) PROVE Good
  <2>1. p.pc = "written" /\ UNCHANGED <<image, view, undo, svc, kept, told>>
    BY <1>4 DEF WriteCode, p
  <2>2. CASE p.res = "refused" /\ view = "shared" /\ Backed(f)
    BY <2>1, <2>2, BackedKeeps DEF p
  <2>3. CASE /\ fe' = [fe EXCEPT ![f] = [p EXCEPT !.pc = "check"]]
             /\ UNCHANGED <<text, promised, hands>>
    <3> DEFINE q == [p EXCEPT !.pc = "check"]
    <3>1. q.pc = "check" /\ q.res = p.res /\ Alike(q, p)
      BY <1>t DEF Patch, Alike
    <3>2. fe' = [fe EXCEPT ![f] = q]
      BY <2>3
    <3> HIDE DEF q
    <3>3. fe'[f] = q /\ \A g \in Fronts : g # f => fe'[g] = fe[g] /\ kept'[g] = kept[g]
      BY <1>t, <2>1, <3>2
    <3>4. UNCHANGED program
      BY <2>1, <2>3 DEF program
    <3>5. ASSUME f \in Lists PROVE ListOK(f)'
      <4>1. ListOK(f) /\ Leaves(f)
        BY <1>t, <2>1, <3>5 DEF Leaves
      <4>2. \A b \in Addrs : Free(f, b)' => Free(f, b) /\ Now(b)' = Now(b)
        BY <1>q, <2>1, <3>4, <3>5
      <4> QED BY <2>1, <3>1, <3>3, <3>5, <4>1, <4>2, ListChecks DEF p
    <3> QED BY <2>1, <3>3, <3>4, <3>5, FrontQuiet DEF p
  <2> QED BY <1>4, <2>2, <2>3 DEF WriteCode, p
<1>5. ASSUME RestoreChecked(f) PROVE Good
  <2>1. /\ p.pc = "check" /\ p.op = "restore" /\ GoIdle(f)
        /\ UNCHANGED <<program, undo, svc, told>>
        /\ \/ p.res = "ok" /\ Forget(f, p.lo)
           \/ kept' = kept
    BY <1>5 DEF RestoreChecked, p
  <2>2. \A g \in Fronts : g # f => fe'[g] = fe[g] /\ kept'[g] = kept[g]
    BY <1>i, <1>t, <2>1 DEF Forget
  <2>3. ASSUME f \in Lists PROVE ListOK(f)'
    <3>1. \A b \in Addrs : Free(f, b)' => Free(f, b) /\ Now(b)' = Now(b)
      BY <1>q, <2>1, <2>3
    <3>2. CASE p.res = "ok" /\ Forget(f, p.lo)
      BY <1>i, <1>q, <2>1, <2>3, <3>1, <3>2, ListForgets DEF p
    <3>3. CASE kept' = kept
      <4>1. ListOK(f) /\ Leaves(f) /\ ~Flies(f)
        BY <1>t, <1>q, <2>1, <2>3, <3>3 DEF Leaves, Flies, p
      <4> QED BY <1>i, <1>t, <2>1, <2>3, <3>1, <4>1, ListIdle
    <3> QED BY <2>1, <3>2, <3>3
  <2> QED BY <2>1, <2>2, <2>3, FrontQuiet DEF p
<1>6. ASSUME PatchChecked(f) PROVE Good
  <2> DEFINE D == p.lo..p.hi
  <2>1. /\ p.pc = "check" /\ p.op = "nop" /\ ~p.again /\ told \subseteq told'
        /\ UNCHANGED <<program, undo, svc>>
    BY <1>6 DEF PatchChecked, p
  <2>2. CASE Keep(f, p) /\ GoIdle(f)
    <3>1. \A g \in Fronts : g # f => fe'[g] = fe[g] /\ kept'[g] = kept[g]
      BY <1>i, <1>t, <2>2 DEF Keep
    <3>2. ASSUME f \in Lists PROVE ListOK(f)'
      <4>1. \A b \in Addrs : Free(f, b)' => Free(f, b) /\ Now(b)' = Now(b)
        BY <1>q, <2>1, <3>2
      <4> QED BY <1>i, <1>q, <2>1, <2>2, <3>2, <4>1, ListKeeps DEF p
    <3> QED BY <2>1, <3>1, <3>2, FrontQuiet DEF p
  <2>3. CASE /\ \/ p.res \in {"gone", "pending"}
                \/ p.res # "ok" /\ Same(text, D, p.orig)
                \/ p.res = "ok" /\ D \subseteq told'
             /\ GoIdle(f) /\ kept' = kept
    <3>1. ASSUME f \in Lists PROVE ListOK(f)'
      <4>1. ListOK(f) /\ Leaves(f) /\ Flies(f)
        BY <1>t, <1>q, <2>1, <2>3, <3>1 DEF Leaves, Flies, Submitted, p
      <4>2. \A b \in Addrs : Free(f, b)' => Free(f, b) /\ Now(b)' = Now(b)
        BY <1>q, <2>1, <3>1
      <4>3. ASSUME NEW b \in Addrs, b \in D, Free(f, b)' PROVE Now(b) # NopByte
        <5>1. CASE ~Made(f)
          BY <2>1, <4>1, <4>2, <4>3, <5>1 DEF ListOK, FlightOK, p
        <5>2. CASE Made(f) /\ p.res # "ok"
          <6>1. view = "shared" /\ Same(text, D, p.orig) /\ p.clean /\ p.img = image
            BY <2>3, <5>2 DEF Made, p
          <6>2. p.orig[b] # NopByte
            BY <4>1, <4>2, <4>3, <6>1 DEF ListOK, OrigOK, p
          <6> QED BY <4>3, <6>1, <6>2 DEF Now, Same
        <5>3. CASE p.res = "ok"
          BY <2>3, <4>3, <5>3 DEF Free
        <5> QED BY <5>1, <5>2, <5>3
      <4> QED BY <1>i, <1>t, <2>3, <3>1, <4>1, <4>2, <4>3, ListIdle DEF p
    <3> QED BY <1>i, <2>1, <2>3, <3>1, FrontQuiet DEF p
  <2>4. CASE /\ fe' = [fe EXCEPT ![f] = [p EXCEPT !.pc = "submit", !.bytes = p.orig,
                                                   !.again = TRUE]]
             /\ kept' = kept
    <3> DEFINE q == [p EXCEPT !.pc = "submit", !.bytes = p.orig, !.again = TRUE]
    <3>1. /\ q.pc = "submit" /\ q.op = p.op /\ q.lo = p.lo /\ q.hi = p.hi
          /\ q.bytes = p.orig /\ q.orig = p.orig /\ q.img = p.img
          /\ (q.clean <=> p.clean) /\ q.again
      BY <1>t, ZenonT(40) DEF Patch
    <3>2. fe' = [fe EXCEPT ![f] = q]
      BY <2>4
    <3> HIDE DEF q
    <3>3. fe'[f] = q /\ \A g \in Fronts : g # f => fe'[g] = fe[g] /\ kept'[g] = kept[g]
      BY <1>t, <2>4, <3>2
    <3>4. ASSUME f \in Lists PROVE ListOK(f)'
      <4>1. ListOK(f) /\ Leaves(f)
        BY <1>t, <1>q, <2>1, <2>4, <3>4 DEF Leaves
      <4>2. \A b \in Addrs : Free(f, b)' => Free(f, b) /\ Now(b)' = Now(b)
        BY <1>q, <2>1, <3>4
      <4> QED BY <2>1, <3>1, <3>3, <3>4, <4>1, <4>2, ListUndoes DEF p
    <3> QED BY <2>1, <3>3, <3>4, FrontQuiet DEF p
  <2> QED BY <1>6, <2>2, <2>3, <2>4 DEF PatchChecked, p
<1>7. ASSUME UndoChecked(f) PROVE Good
  <2> DEFINE D == p.lo..p.hi
  <2>1. /\ p.pc = "check" /\ p.again /\ GoIdle(f) /\ told \subseteq told'
        /\ UNCHANGED <<program, undo, svc, kept>>
        /\ p.res = "ok" \/ D \subseteq told'
    BY <1>7 DEF UndoChecked, p
  <2>2. ASSUME f \in Lists PROVE ListOK(f)'
    <3>1. ListOK(f) /\ Leaves(f)
      BY <1>t, <1>q, <2>1, <2>2 DEF Leaves
    <3>2. \A b \in Addrs : Free(f, b)' => Free(f, b) /\ Now(b)' = Now(b)
      BY <1>q, <2>1, <2>2
    <3>3. ASSUME NEW b \in Addrs, b \in D, Free(f, b)' PROVE Now(b) # NopByte
      <4>1. p.res = "ok"
        BY <2>1, <3>3 DEF Free
      <4> QED BY <2>1, <3>1, <3>2, <3>3, <4>1 DEF ListOK, BackOK, Answered, p
    <3> QED BY <1>i, <1>t, <2>1, <2>2, <3>1, <3>2, <3>3, ListIdle DEF p
  <2>3. \A g \in Fronts : g # f => fe'[g] = fe[g] /\ kept'[g] = kept[g]
    BY <1>i, <2>1
  <2> QED BY <2>1, <2>2, <2>3, FrontQuiet DEF p
<1> QED BY <1>1, <1>2, <1>3, <1>4, <1>5, <1>6, <1>7 DEF FrontNext

-----------------------------------------------------------------------------
(* The program's steps, and the invariant in every behaviour.              *)

(* What was read of the program that is gone says nothing of this one.     *)
LEMMA ExecKeeps ==
    ASSUME ListInv, Exec
    PROVE  Serves' /\ Native' /\ \A f \in Lists : ListOK(f)'
<1>t. /\ image \in 1..(Images - 1) /\ image' = image + 1 /\ image # 0 /\ image' # 0
      /\ view' = view /\ fe' = fe /\ kept' = kept /\ svc' = svc /\ undo' = undo
      /\ \A b \in Addrs : text'[b] = image + 1 /\ promised'[b] = image + 1
  BY PatchAssumption DEF Exec
<1>1. \A b \in Addrs : Now(b)' # NopByte
  BY <1>t DEF Now, NopByte
<1>2. Serves' /\ Native'
  BY <1>t, <1>1 DEF ListInv, Serves, Native
<1>3. ASSUME NEW f \in Lists PROVE ListOK(f)'
  <2>0. /\ ListOK(f) /\ f \in Fronts /\ fe[f].img \in Int
        /\ \A a \in Addrs : kept[f][a].img \in Int
    BY DEF ListInv, PatchInv, PatchTypes, Patch, Entry, Fronts
  <2>1. fe[f].img # image' /\ \A a \in Addrs : kept[f][a].on => kept[f][a].img # image'
    BY <1>t, <2>0 DEF ListOK, Shapes
  <2>2. Shapes(f)'
    BY <1>t, <2>0 DEF ListOK, Shapes, Within, Flies
  <2>3. OrigOK(f)' /\ KeptOK(f)'
    BY <1>t, <2>1 DEF OrigOK, KeptOK
  <2>4. NopsOwned(f)' /\ FlightOK(f)' /\ BackOK(f)'
    BY <1>1 DEF NopsOwned, FlightOK, BackOK
  <2> QED BY <2>2, <2>3, <2>4 DEF ListOK
<1> QED BY <1>2, <1>3

LEMMA EndsKeeps ==
    ASSUME ListInv, Ends
    PROVE  Serves' /\ Native' /\ \A f \in Lists : ListOK(f)'
<1>t. /\ image' = 0 /\ fe' = fe /\ kept' = kept /\ svc' = svc /\ undo' = undo
      /\ \A f \in Lists, b \in Addrs : ~Free(f, b)'
  BY DEF Ends, Free
<1>1. Serves' /\ Native'
  BY <1>t DEF ListInv, Serves, Native
<1>2. ASSUME NEW f \in Lists PROVE ListOK(f)'
  <2>1. Shapes(f)'
    BY <1>t DEF ListInv, ListOK, Shapes, Within, Flies
  <2>2. OrigOK(f)' /\ KeptOK(f)' /\ NopsOwned(f)' /\ FlightOK(f)' /\ BackOK(f)'
    BY <1>t DEF OrigOK, KeptOK, NopsOwned, FlightOK, BackOK
  <2> QED BY <2>1, <2>2 DEF ListOK
<1> QED BY <1>1, <1>2

LEMMA ListsBegin == PatchInit => ListInv
<1> SUFFICES ASSUME PatchInit PROVE ListInv
  OBVIOUS
<1>0. /\ image = 1 /\ svc = NoJob /\ \A f \in Fronts : fe[f] = NoPatch
      /\ \A f \in Fronts, a \in Addrs : kept[f][a] = NotKept
      /\ \A b \in Addrs : text[b] = 1 /\ promised[b] = 1
  BY DEF PatchInit
<1>1. \A b \in Addrs : Now(b) # NopByte
  BY <1>0 DEF Now, NopByte
<1>2. Serves /\ Native
  BY <1>0, <1>1 DEF Serves, Native, NoJob
<1>3. ASSUME NEW f \in Lists PROVE ListOK(f)
  <2>1. /\ fe[f].pc = "idle" /\ fe[f].op = "nop" /\ ~fe[f].again /\ fe[f].img = 0
        /\ \A a \in Addrs : ~kept[f][a].on
    BY <1>0 DEF Fronts, NoPatch, NotKept
  <2>2. Shapes(f)
    BY <1>0, <2>1 DEF Shapes, Flies, Submitted
  <2>3. OrigOK(f) /\ KeptOK(f) /\ NopsOwned(f) /\ FlightOK(f) /\ BackOK(f)
    BY <1>1, <2>1 DEF OrigOK, KeptOK, NopsOwned, FlightOK, BackOK, Flies, Submitted
  <2> QED BY <2>2, <2>3 DEF ListOK
<1> QED BY <1>2, <1>3, PatchBegins DEF ListInv

LEMMA ListsGoOn == ListInv /\ [PatchNext]_patching => ListInv'
<1> SUFFICES ASSUME ListInv, [PatchNext]_patching PROVE ListInv'
  OBVIOUS
<1>1. PatchInv'
  BY PatchGoesOn DEF ListInv
<1>2. CASE UNCHANGED patching
  <2>1. \A b \in Addrs : Now(b)' = Now(b)
    BY <1>2 DEF patching, program, Now
  <2>2. Native' /\ \A f \in Lists : ListOK(f)'
    BY <1>2, <2>1, QuietKeeps DEF patching, program
  <2>3. Serves'
    BY <1>2 DEF patching, ListInv, Serves
  <2> QED BY <1>1, <2>2, <2>3 DEF ListInv
<1>3. CASE PatchNext
  BY <1>1, <1>3, ServiceKeeps, FrontKeeps, ExecKeeps, EndsKeeps DEF PatchNext, ListInv
<1> QED BY <1>2, <1>3

(* OriginalsKept in every behaviour: for listings and programs of any      *)
(* size, any number of windows and scripts and any number of replacements, *)
(* restorations, failures, execs and exits, nopInstruction never keeps a   *)
(* window's own NOPs as the original bytes of an instruction that only it  *)
(* has replaced.                                                           *)
THEOREM OriginalsAreKept == PatchSpec => []OriginalsKept
<1>1. ASSUME ListInv PROVE OriginalsKept
  <2>1. ASSUME NEW f \in Lists, NEW a \in Addrs, kept[f][a].on,
               kept[f][a].img = image, kept[f][a].clean,
               \A b \in a..kept[f][a].hi : hands[b] \subseteq {<<f, "fresh">>} /\ b \notin told,
               NEW b \in a..kept[f][a].hi
        PROVE  kept[f][a].bytes[b] # NopByte
    <3>1. ListOK(f) /\ f \in Fronts /\ kept[f][a].hi \in Int
      BY <1>1 DEF ListInv, PatchInv, PatchTypes, Entry, Fronts
    <3>2. b \in Addrs
      BY <2>1, <3>1, PatchAssumption DEF ListOK, Shapes, Within, Addrs
    <3>3. image # 0
      BY <2>1, <3>1 DEF ListOK, Shapes
    <3> QED BY <2>1, <3>1, <3>2, <3>3 DEF ListOK, KeptOK, Free
  <2> QED BY <2>1 DEF OriginalsKept
<1> QED BY <1>1, ListsBegin, ListsGoOn, PTL DEF PatchSpec
=============================================================================
