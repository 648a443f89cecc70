------------------------------ MODULE CodePatch ------------------------------
(***************************************************************************)
(* Code of the target replaced by NOPs and put back: the code list, the    *)
(* code finder's window and scripts call nopInstruction and restoreBytes   *)
(* (debug/patch.cpp) on their own threads; LinuxProcessHandle::writeCode   *)
(* hands the bytes to the system call service, whose one thread writes     *)
(* them through a descriptor that pins the program they were meant for     *)
(* (CodeWriteRecovery) and owns what a failed write left behind until the  *)
(* original bytes are back.  A page that is a read-only shared view refuses*)
(* such a write, and the bytes go through the file it is a view of.        *)
(*                                                                         *)
(* A cell is a byte; the program's own byte is the number of its image, so *)
(* that what one program left can be told from the next one's code.        *)
(***************************************************************************)
EXTENDS Integers, FiniteSets

CONSTANTS Size, Lists, Scripts, Insns, Chunk, Images, Tolls

Addrs == 1..Size

ASSUME PatchAssumption ==
    /\ Size \in Nat /\ Chunk \in Nat \ {0} /\ Images \in Nat \ {0}
    /\ \A i \in Insns : i.lo \in Addrs /\ i.hi \in Addrs /\ i.lo <= i.hi

(* Instructions of a listing do not overlap.                               *)
ASSUME ListingAssumption ==
    \A i, j \in Insns : i.lo <= j.hi /\ j.lo <= i.hi => i.lo = j.lo

VARIABLES text, promised, hands, image, view, undo, svc, fe, kept, told, toll

program == <<text, promised, hands, image, view>>
patching == <<program, undo, svc, fe, kept, told, toll>>

Fronts == Lists \cup Scripts

NopByte == 0
Byte == 0..Images
Content == [Addrs -> Byte]

(* What a record of the service holds: the bytes as they were, and the     *)
(* first cell no write has been attempted on.                              *)
NoUndo == [on |-> FALSE, img |-> 0, lo |-> 1, hi |-> 0, att |-> 1,
           orig |-> [a \in Addrs |-> NopByte]]

NoJob == [pc |-> "idle", f |-> "none", by |-> "sweep", off |-> 1, err |-> "ok"]

NoPatch == [pc |-> "idle", op |-> "nop", lo |-> 1, hi |-> 0, res |-> "ok",
            bytes |-> [a \in Addrs |-> NopByte], orig |-> [a \in Addrs |-> NopByte],
            img |-> 0, clean |-> TRUE, again |-> FALSE]

NotKept == [on |-> FALSE, hi |-> 0, bytes |-> [a \in Addrs |-> NopByte],
            img |-> 0, clean |-> TRUE]

PatchInit ==
    /\ text = [a \in Addrs |-> 1] /\ promised = text
    /\ hands = [a \in Addrs |-> {}]
    /\ image = 1 /\ view \in {"private", "shared"}
    /\ undo = NoUndo /\ svc = NoJob
    /\ fe = [f \in Fronts |-> NoPatch]
    /\ kept = [f \in Fronts |-> [a \in Addrs |-> NotKept]]
    /\ told = {} /\ toll \in Tolls

Pay(e) == toll[e] > 0 /\ toll' = [toll EXCEPT ![e] = @ - 1]

(* s with the cells in D taken from b.                                     *)
Overlay(s, D, b) == [a \in Addrs |-> IF a \in D THEN b[a] ELSE s[a]]

Same(s, D, b) == \A a \in D : s[a] = b[a]

(* The caller of a write is told that it is done: from here on the code is *)
(* what he wrote (promised), and his hands were on it, fresh if what he    *)
(* read of the code was of this very program and no restoration's was then *)
(* pending.                                                                *)
Touch(D, f) ==
    LET hand == <<f, IF fe[f].clean /\ fe[f].img = image THEN "fresh" ELSE "stale">>
    IN  hands' = [a \in Addrs |-> IF a \in D THEN hands[a] \cup {hand} ELSE hands[a]]

Promise(D, f, b) == promised' = Overlay(promised, D, b) /\ Touch(D, f)

-----------------------------------------------------------------------------
(* CodeWriteRecovery: every transfer goes through the record's descriptor, *)
(* which reads and writes nothing once the program it pins is gone.        *)
Pinned == undo.on /\ undo.img = image

Attempted == undo.lo..(undo.att - 1)

(* verify() finds other bytes, or is refused the ones that are there.      *)
Misread(D, b) == IF Same(text, D, b) THEN Pay("fault") ELSE UNCHANGED toll

End(off, last) == IF off + Chunk <= last + 1 THEN off + Chunk ELSE last + 1

GoOn(pc) == svc' = [svc EXCEPT !.pc = pc]

(* The job's caller gets its answer.                                       *)
Reply(res) ==
    /\ svc' = NoJob
    /\ fe' = [fe EXCEPT ![svc.f] = [@ EXCEPT !.pc = "written", !.res = res]]

(* restore() is over: recoverAll goes on, recover() lets the job go on or  *)
(* fails it, writeCode() reports why it wrote nothing.                     *)
Restored(ok) ==
    CASE svc.by = "sweep" -> svc' = NoJob /\ UNCHANGED fe
      [] svc.by = "recover" /\ ok -> GoOn("prepare") /\ UNCHANGED fe
      [] svc.by = "recover" /\ ~ok -> Reply("refused")
      [] OTHER -> Reply(IF ok THEN svc.err ELSE "pending")

(* The loop takes a job; recover() deals with an older record first.       *)
TakeWrite(f) ==
    /\ svc.pc = "idle" /\ fe[f].pc = "submit"
    /\ svc' = [NoJob EXCEPT !.f = f, !.by = "recover",
                            !.pc = IF undo.on THEN "restore" ELSE "prepare"]
    /\ UNCHANGED <<program, undo, fe, kept, told, toll>>

(* recoverAll, after a job and every 100 ms, has a record to deal with.    *)
SweepCode ==
    /\ svc.pc = "idle" /\ undo.on
    /\ svc' = [NoJob EXCEPT !.pc = "restore"]
    /\ UNCHANGED <<program, undo, fe, kept, told, toll>>

(* prepare(): the descriptor and the original bytes, before any change.    *)
Prepare ==
    /\ svc.pc = "prepare"
    /\ LET p == fe[svc.f] IN
       \/ /\ image # 0
          /\ undo' = [on |-> TRUE, img |-> image, lo |-> p.lo, hi |-> p.hi,
                      att |-> p.lo, orig |-> text]
          /\ svc' = [svc EXCEPT !.pc = "write", !.by = "write", !.off = p.lo]
          /\ UNCHANGED <<fe, toll>>
       \/ image = 0 /\ Reply("gone") /\ UNCHANGED <<undo, toll>>
       \/ /\ Pay("fault")
          /\ \E res \in {"refused", "busy"} : Reply(res)
          /\ UNCHANGED undo
    /\ UNCHANGED <<program, kept, told>>

WriteFailed(err) == svc' = [svc EXCEPT !.pc = "restore", !.err = err]

\* Mutant of WriteChunk: only what was reported as written is remembered.
WriteChunk_Reported ==
    /\ svc.pc = "write" /\ svc.off <= undo.hi
    /\ LET p == fe[svc.f]
           end == End(svc.off, undo.hi)
       IN
       \/ /\ Pinned /\ view = "private"
          /\ text' = Overlay(text, svc.off..(end - 1), p.bytes)
          /\ undo' = [undo EXCEPT !.att = end]
          /\ svc' = [svc EXCEPT !.off = end]
          /\ UNCHANGED toll
       \/ ~Pinned /\ WriteFailed("gone") /\ UNCHANGED <<text, undo, toll>>
       \/ /\ Pinned /\ view = "private" /\ Pay("fault")
          /\ \E n \in svc.off..end :
               text' = Overlay(text, svc.off..(n - 1), p.bytes)
          /\ WriteFailed("refused")
          /\ UNCHANGED undo
       \/ /\ Pinned /\ view = "shared"
          /\ WriteFailed("refused")
          /\ UNCHANGED <<text, undo, toll>>
    /\ UNCHANGED <<promised, hands, image, view, fe, kept, told>>

(* write(): a chunk is owned before it is written, because an error may be *)
(* reported after the bytes have changed; a short count is believed.       *)
WriteChunk ==
    /\ svc.pc = "write" /\ svc.off <= undo.hi
    /\ LET p == fe[svc.f]
           end == End(svc.off, undo.hi)
       IN
       \/ /\ Pinned /\ view = "private"
          /\ text' = Overlay(text, svc.off..(end - 1), p.bytes)
          /\ undo' = [undo EXCEPT !.att = end]
          /\ svc' = [svc EXCEPT !.off = end]
          /\ UNCHANGED toll
       \/ /\ ~Pinned
          /\ undo' = [undo EXCEPT !.att = end]
          /\ WriteFailed("gone")
          /\ UNCHANGED <<text, toll>>
       \/ /\ Pinned /\ view = "private" /\ Pay("fault")
          /\ \E n \in svc.off..end :
               /\ text' = Overlay(text, svc.off..(n - 1), p.bytes)
               /\ \E att \in {n, end} : undo' = [undo EXCEPT !.att = att]
          /\ WriteFailed("refused")
       \/ /\ Pinned /\ view = "shared"
          /\ undo' = [undo EXCEPT !.att = end]
          /\ WriteFailed("refused")
          /\ UNCHANGED <<text, toll>>
    /\ UNCHANGED <<promised, hands, image, view, fe, kept, told>>

(* verify(): what was written is read back, and the record is over.        *)
WriteDone ==
    /\ svc.pc = "write" /\ svc.off > undo.hi
    /\ LET p == fe[svc.f]
           D == undo.lo..undo.hi
       IN
       \/ /\ Pinned /\ Same(text, D, p.bytes)
          /\ Promise(D, svc.f, p.bytes)
          /\ undo' = NoUndo
          /\ Reply("ok")
          /\ UNCHANGED toll
       \/ /\ Pinned /\ Misread(D, p.bytes)
          /\ WriteFailed("refused")
          /\ UNCHANGED <<promised, hands, undo, fe>>
       \/ /\ ~Pinned
          /\ WriteFailed("gone")
          /\ UNCHANGED <<promised, hands, undo, fe, toll>>
    /\ UNCHANGED <<text, image, view, kept, told>>

(* restore(): nothing to do, already back, or written again chunk by chunk.*)
RestoreBegin ==
    /\ svc.pc = "restore"
    /\ \/ /\ \/ undo.att = undo.lo
             \/ ~Pinned
             \/ Same(text, Attempted, undo.orig)
          /\ undo' = NoUndo
          /\ Restored(TRUE)
          /\ UNCHANGED toll
       \/ /\ undo.att # undo.lo /\ Pinned
          /\ Misread(Attempted, undo.orig)
          /\ svc' = [svc EXCEPT !.pc = "rewrite", !.off = undo.lo]
          /\ UNCHANGED <<undo, fe>>
    /\ UNCHANGED <<program, kept, told>>

RestoreChunk ==
    /\ svc.pc = "rewrite" /\ svc.off < undo.att
    /\ LET end == End(svc.off, undo.att - 1) IN
       \/ /\ Pinned /\ view = "private"
          /\ text' = Overlay(text, svc.off..(end - 1), undo.orig)
          /\ svc' = [svc EXCEPT !.off = end]
          /\ UNCHANGED <<undo, fe, toll>>
       \/ /\ ~Pinned
          /\ undo' = NoUndo
          /\ Restored(TRUE)
          /\ UNCHANGED <<text, toll>>
       \/ /\ Pinned
          /\ IF view = "private" THEN Pay("fault") ELSE UNCHANGED toll
          /\ \E n \in svc.off..end :
               /\ view = "shared" => n = svc.off
               /\ text' = Overlay(text, svc.off..(n - 1), undo.orig)
          /\ Restored(FALSE)
          /\ UNCHANGED undo
    /\ UNCHANGED <<promised, hands, image, view, kept, told>>

RestoreDone ==
    /\ svc.pc = "rewrite" /\ svc.off >= undo.att
    /\ \/ /\ ~Pinned \/ Same(text, Attempted, undo.orig)
          /\ undo' = NoUndo
          /\ Restored(TRUE)
          /\ UNCHANGED toll
       \/ /\ Pinned
          /\ Misread(Attempted, undo.orig)
          /\ Restored(FALSE)
          /\ UNCHANGED undo
    /\ UNCHANGED <<program, kept, told>>

-----------------------------------------------------------------------------
(* nopInstruction and patchInstructionBytes, on the caller's thread.  What *)
(* is replaced is what is there now: one byte if a NOP is.                 *)
LastOf(i) == IF text[i.lo] = NopByte THEN i.lo ELSE i.hi

\* Mutant of MayNop: an instruction on the list is replaced once more.
MayNop_Again(f, a) == TRUE

(* The windows offer to replace what they have not replaced yet.           *)
MayNop(f, a) == f \in Lists => ~kept[f][a].on

NopInstruction(f, i) ==
    /\ fe[f].pc = "idle" /\ image # 0 /\ MayNop(f, i.lo)
    /\ Pay("op")
    /\ fe' = [fe EXCEPT ![f] = [NoPatch EXCEPT !.pc = "read", !.lo = i.lo,
                                                !.hi = LastOf(i)]]
    /\ UNCHANGED <<program, undo, svc, kept, told>>

ReadOriginal(f) ==
    /\ fe[f].pc = "read"
    /\ \/ /\ image # 0
          /\ fe' = [fe EXCEPT ![f] = [@ EXCEPT !.pc = "submit", !.orig = text,
                                       !.img = image, !.clean = ~undo.on]]
          /\ UNCHANGED toll
       \/ /\ IF image # 0 THEN Pay("fault") ELSE UNCHANGED toll
          /\ fe' = [fe EXCEPT ![f] = NoPatch]
    /\ UNCHANGED <<program, undo, svc, kept, told>>

(* restoreBytes with the bytes that were kept.                             *)
RestoreBytes(f, a) ==
    /\ fe[f].pc = "idle" /\ kept[f][a].on
    /\ Pay("op")
    /\ fe' = [fe EXCEPT ![f] = [NoPatch EXCEPT
                 !.pc = "submit", !.op = "restore", !.lo = a,
                 !.hi = kept[f][a].hi, !.bytes = kept[f][a].bytes,
                 !.img = kept[f][a].img, !.clean = kept[f][a].clean]]
    /\ UNCHANGED <<program, undo, svc, kept, told>>

(* writeSharedMappingBacking: the bytes go into the file, all or some.     *)
Backed(f) ==
    LET p == fe[f] IN
    \/ /\ text' = Overlay(text, p.lo..p.hi, p.bytes)
       /\ Promise(p.lo..p.hi, f, p.bytes)
       /\ fe' = [fe EXCEPT ![f] = [@ EXCEPT !.pc = "check", !.res = "ok"]]
       /\ UNCHANGED toll
    \/ /\ Pay("fault")
       /\ \E n \in p.lo..p.hi : text' = Overlay(text, p.lo..(n - 1), p.bytes)
       /\ Touch(p.lo..p.hi, f)
       /\ fe' = [fe EXCEPT ![f] = [@ EXCEPT !.pc = "check"]]
       /\ UNCHANGED promised

(* LinuxProcessHandle::writeCode: only a page that refused the write is    *)
(* written through its file.                                               *)
WriteCode(f) ==
    /\ fe[f].pc = "written"
    /\ IF fe[f].res = "refused" /\ view = "shared" /\ image # 0 THEN Backed(f)
       ELSE /\ fe' = [fe EXCEPT ![f] = [@ EXCEPT !.pc = "check"]]
            /\ UNCHANGED <<text, promised, hands, toll>>
    /\ UNCHANGED <<image, view, undo, svc, kept, told>>

Keep(f, p) ==
    kept' = [kept EXCEPT ![f][p.lo] = [on |-> TRUE, hi |-> p.hi, bytes |-> p.orig,
                                       img |-> p.img, clean |-> p.clean]]

Forget(f, a) == kept' = [kept EXCEPT ![f][a] = NotKept]

GoIdle(f) == fe' = [fe EXCEPT ![f] = NoPatch]

(* The result of a restoration is what the write said.                     *)
RestoreChecked(f) ==
    /\ fe[f].pc = "check" /\ fe[f].op = "restore"
    /\ GoIdle(f)
    /\ IF fe[f].res = "ok" THEN Forget(f, fe[f].lo) ELSE UNCHANGED kept
    /\ UNCHANGED <<program, undo, svc, told, toll>>

(* The result of a patch is what is read back: done, failed with nothing   *)
(* changed or nothing left to do, or written back.  Whoever asked is told  *)
(* when his bytes were written and are not there any more.                 *)
PatchChecked(f) ==
    /\ fe[f].pc = "check" /\ fe[f].op = "nop" /\ ~fe[f].again
    /\ LET p == fe[f]
           D == p.lo..p.hi
           done == p.res = "ok" /\ image # 0 /\ Same(text, D, p.bytes)
           nothing == image # 0 /\ Same(text, D, p.orig)
       IN
       \/ /\ done
          /\ Keep(f, p) /\ GoIdle(f)
          /\ UNCHANGED <<told, toll>>
       \/ /\ p.res \in {"gone", "pending"} \/ (nothing /\ ~done)
          /\ GoIdle(f)
          /\ told' = IF p.res = "ok" THEN told \cup D ELSE told
          /\ UNCHANGED <<kept, toll>>
       \/ /\ p.res \notin {"gone", "pending"}
          /\ IF done \/ nothing THEN Pay("fault") ELSE UNCHANGED toll
          /\ fe' = [fe EXCEPT ![f] = [@ EXCEPT !.pc = "submit", !.bytes = p.orig,
                                                !.again = TRUE]]
          /\ UNCHANGED <<kept, told>>
    /\ UNCHANGED <<program, undo, svc>>

(* The original bytes were written back: whoever asked is told if not.     *)
UndoChecked(f) ==
    /\ fe[f].pc = "check" /\ fe[f].again
    /\ LET p == fe[f]
           D == p.lo..p.hi
       IN
       \/ /\ p.res = "ok" /\ image # 0 /\ Same(text, D, p.orig)
          /\ UNCHANGED <<told, toll>>
       \/ /\ IF p.res = "ok" /\ image # 0 /\ Same(text, D, p.orig)
             THEN Pay("fault") ELSE UNCHANGED toll
          /\ told' = told \cup D
    /\ GoIdle(f)
    /\ UNCHANGED <<program, undo, svc, kept>>

-----------------------------------------------------------------------------
(* The program executes another one, or ends.                              *)
Exec ==
    /\ image \in 1..(Images - 1) /\ Pay("exec")
    /\ image' = image + 1
    /\ text' = [a \in Addrs |-> image + 1] /\ promised' = text'
    /\ hands' = [a \in Addrs |-> {}] /\ told' = {}
    /\ UNCHANGED <<view, undo, svc, fe, kept>>

Ends ==
    /\ image # 0 /\ Pay("exit")
    /\ image' = 0
    /\ UNCHANGED <<text, promised, hands, view, undo, svc, fe, kept, told>>

ServiceNext ==
    \/ SweepCode \/ Prepare \/ WriteChunk \/ WriteDone
    \/ RestoreBegin \/ RestoreChunk \/ RestoreDone
    \/ \E f \in Fronts : TakeWrite(f)

FrontNext(f) ==
    \/ \E i \in Insns : NopInstruction(f, i)
    \/ \E a \in Addrs : RestoreBytes(f, a)
    \/ ReadOriginal(f) \/ WriteCode(f) \/ RestoreChecked(f)
    \/ PatchChecked(f) \/ UndoChecked(f)

PatchNext ==
    \/ ServiceNext \/ Exec \/ Ends
    \/ \E f \in Fronts : FrontNext(f)

PatchSpec == PatchInit /\ [][PatchNext]_patching

-----------------------------------------------------------------------------
(* Whatever the kernel reported: the code of a program is what the last    *)
(* successful write promised, or the service holds the promised bytes and  *)
(* has them among those it will put back.  What it holds for one program   *)
(* never reaches the next.                                                 *)
CodeOwned ==
    view = "private" /\ image # 0 =>
      \A a \in Addrs : text[a] # promised[a] =>
        Pinned /\ a \in Attempted /\ undo.orig[a] = promised[a]

(* What a window keeps for an instruction that only it has replaced, with  *)
(* what it read of this program, are not its own NOPs: putting the entry   *)
(* back puts the program's code back.  (Unless somebody was told that the  *)
(* code there could not be verified or put back.)                          *)
OriginalsKept ==
    \A f \in Lists, a \in Addrs :
      LET k == kept[f][a]
          D == a..k.hi
      IN  /\ k.on /\ k.img = image /\ k.clean
          /\ \A b \in D : hands[b] \subseteq {<<f, "fresh">>} /\ b \notin told
          => \A b \in D : k.bytes[b] # NopByte

=============================================================================
