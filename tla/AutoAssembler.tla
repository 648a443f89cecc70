--------------------------- MODULE AutoAssembler ---------------------------
(***************************************************************************)
(* The auto assembler (core/autoasm.cpp): scripts that patch a running     *)
(* program, and the undo information that takes them out again; and the    *)
(* simple hooks (core/simple_hook.cpp) that patch the same program.        *)
(*                                                                         *)
(* One assembler is used by one thread.  Beside it the target runs: it     *)
(* writes its memory, unmaps a library, replaces its image by exec, and    *)
(* ends injected threads, between any two of the assembler's accesses.     *)
(* Any access may be refused, at most scen.faults times.                   *)
(***************************************************************************)
EXTENDS ScriptText, FiniteSets

CONSTANTS
  Script,     \* the scripts, by name: records of sections
  Ext,        \* addresses of the target's own memory that scripts patch
  Code,       \* those of them that are executable
  ReadOnly,   \* those of them that are data and not writable
  Fresh,      \* what a new image holds there
  Block,      \* addresses where an allocation may be placed
  BlockLen,   \* cells of an allocation
  Site,       \* where a simple hook may be installed
  MaxRun,     \* bound: runs of a section and hooks installed, at most
  Scenarios   \* scripts used, what is refused and what the target does

ASSUME AutoAssemblerAssumption ==
  /\ Code \subseteq Ext /\ ReadOnly \subseteq Ext \ Code /\ Site \subseteq Code
  /\ Ext \subseteq Nat \ {0} /\ Block \subseteq Nat \ {0} /\ BlockLen \in Nat \ {0} /\ MaxRun \in Nat
  /\ \A b \in Block : (b .. b + BlockLen - 1) \cap (Ext \cup Block) = {b}

VARIABLES
  scen,                     \* the scenario, chosen at the start
  img, mem, gone, ro,       \* the target: its image, memory, unmapped and read-only addresses
  mapped, thr, writes,      \* mapped blocks, injected threads, what the target did
  known, globals,           \* knownAllocations_, globalAllocations_
  syms, symOwner,           \* globalSymbols_, symbolOwners_
  livep,                    \* livePatches_: owners with the addresses they wrote
  leases,                   \* every allocation made: AllocEntry with its released flag
  und,                      \* DisableInfo and its Ownership, by the run that made it
  rec,                      \* the undo a record holds, by script (0: off)
  hooks,                    \* the undos that are installed simple hooks
  c,                        \* the operation in progress: the locals of run and cleanup
  faults                    \* accesses refused so far

target == <<img, mem, gone, ro, mapped, thr, writes>>
tables == <<known, globals, syms, symOwner, livep>>
vars == <<scen, target, tables, leases, und, rec, hooks, c, faults>>

Cells(b) == b .. b + BlockLen - 1
Addr == Ext \cup UNION {Cells(b) : b \in Block}
SymName == UNION {UNION {{l.n : l \in {k \in ToSet(Section(s, p)) : "n" \in DOMAIN k}} : p \in {"ENABLE", "DISABLE"}}
                  : s \in {Script[t] : t \in DOMAIN Script}} \ DOMAIN Place
Readable == (Ext \ gone) \cup UNION {Cells(b) : b \in mapped}
Memory == [a \in Readable |-> mem[a]]
Nop == 90
Jump(t) == 100 + t

NewUndo(i) == [img |-> i, allocs |-> <<>>, orig |-> <<>>, prot |-> <<>>, syms |-> {}, over |-> <<>>,
               complete |-> FALSE, sect |-> FALSE, names |-> {}, stale |-> {}]
Idle == [pc |-> "idle"]

Init ==
  /\ scen \in Scenarios
  /\ img = 1 /\ gone = {} /\ ro = ReadOnly /\ mapped = {} /\ thr = {} /\ writes = 0
  /\ mem = [a \in Addr |-> IF a \in Ext THEN Fresh[a] ELSE 0]
  /\ known = [n \in SymName |-> 0] /\ globals = {}
  /\ syms = [n \in SymName |-> 0] /\ symOwner = [n \in SymName |-> 0]
  /\ livep = <<>> /\ leases = <<>> /\ und = <<>>
  /\ rec = [s \in DOMAIN Script |-> 0] /\ hooks = {}
  /\ c = Idle /\ faults = 0

Refused == faults < scen.faults /\ faults' = faults + 1
Granted == UNCHANGED faults
Alive(o) == und[o].img = img
LiveLease(l) == ~leases[l].rel /\ leases[l].img = img
Busy(a) == \E t \in thr : a \in t.cells

----------------------------------------------------------------------------
(* The target. *)

TargetWrite(a) ==
  /\ writes < scen.writes /\ a \in scen.cells \ gone
  /\ \E v \in scen.vals : v # mem[a] /\ mem' = [mem EXCEPT ![a] = v]
  /\ writes' = writes + 1
  /\ UNCHANGED <<scen, img, gone, ro, mapped, thr, tables, leases, und, rec, hooks, c, faults>>

TargetUnmap(a) ==
  /\ writes < scen.writes /\ a \in scen.unmap \ gone
  /\ gone' = gone \cup {a} /\ writes' = writes + 1
  /\ UNCHANGED <<scen, img, mem, ro, mapped, thr, tables, leases, und, rec, hooks, c, faults>>

TargetExec ==
  /\ img < scen.images
  /\ img' = img + 1 /\ gone' = {} /\ ro' = ReadOnly /\ mapped' = {} /\ thr' = {}
  /\ mem' = [a \in Addr |-> IF a \in Ext THEN Fresh[a] ELSE 0]
  /\ UNCHANGED <<scen, writes, tables, leases, und, rec, hooks, c, faults>>

ThreadEnds(t) ==
  /\ thr' = thr \ {t}
  /\ UNCHANGED <<scen, img, mem, gone, ro, mapped, writes, tables, leases, und, rec, hooks, c, faults>>

----------------------------------------------------------------------------
(* Saved originals. *)

(* overrideOriginals, for every override in order. *)
Overridden(o) ==
  [k \in DOMAIN und[o].orig |->
     LET p == und[o].orig[k]
         i == SelectLastInSeq(und[o].over, LAMBDA w : w[1] = p.a)
     IN IF i = 0 THEN p ELSE [p EXCEPT !.b = und[o].over[i][2]]]

(* withoutUnmapped, then what a released allocation no longer needs. *)
Needed(o) == SelectSeq(Overridden(o), LAMBDA p : p.a \in Readable /\ (p.l = 0 \/ ~leases[p.l].rel))
Protections(o) == SelectSeq(und[o].prot, LAMBDA p : p.a \in Readable /\ (p.l = 0 \/ ~leases[p.l].rel))

(* codeOwnershipConflict: code that holds none of the values this undo knows. *)
Conflict(o) ==
  LET saved == Needed(o)
  IN \E k \in DOMAIN saved : saved[k].ver
       /\ ~\E j \in DOMAIN saved : saved[j].a = saved[k].a /\ mem[saved[k].a] \in {saved[j].b, saved[j].w}

(* What the undo restores at a: the original of the earliest write there. *)
OriginalAt(saved, a) == saved[SelectInSeq(saved, LAMBDA p : p.a = a)].b

(* planHandovers: data that a newer live script wrote again, with the first
   such script; it will restore this one's original. *)
Pruned(patches) == SelectSeq(patches, LAMBDA p : ~und[p.o].complete)
Newer(o) ==
  LET live == Pruned(livep)
      self == SelectInSeq(live, LAMBDA p : p.o = o)
  IN IF self = 0 THEN <<>>
     ELSE SelectSeq(SubSeq(live, self + 1, Len(live)), LAMBDA p : Alive(p.o) /\ p.cells # {})
Heir(o, a) == LET n == Newer(o)
                  i == SelectInSeq(n, LAMBDA p : a \in p.cells)
              IN IF i = 0 THEN 0 ELSE n[i].o
HandedOver(o) ==
  LET saved == Needed(o)
  IN {a \in {saved[k].a : k \in {j \in DOMAIN saved : ~saved[j].ver /\ saved[j].l = 0}} : Heir(o, a) # 0}

(* What is left to restore once those addresses are dropped. *)
Restorable(o) == LET given == HandedOver(o) IN SelectSeq(Needed(o), LAMBDA p : p.a \notin given)
(* Mutant: the symbols of a disabled script stay. *)
EraseSymbols_Left(o) == UNCHANGED <<syms, symOwner>>
EraseSymbols(o) ==
  LET mine == {n \in SymName : <<n, syms[n]>> \in und[o].syms /\ symOwner[n] = o}
  IN /\ syms' = [n \in SymName |-> IF n \in mine THEN 0 ELSE syms[n]]
     /\ symOwner' = [n \in SymName |-> IF n \in mine THEN 0 ELSE symOwner[n]]

(* Released allocations leave the names that still stand for them; the mutant
   forgets the names. *)
ForgetLeases_Named(L) ==
  leases' = [l \in DOMAIN leases |-> IF l \in L THEN [leases[l] EXCEPT !.rel = TRUE] ELSE leases[l]] /\ UNCHANGED known
ForgetLeases(L) ==
  /\ leases' = [l \in DOMAIN leases |-> IF l \in L THEN [leases[l] EXCEPT !.rel = TRUE] ELSE leases[l]]
  /\ known' = [n \in SymName |-> IF known[n] \in L THEN 0 ELSE known[n]]

----------------------------------------------------------------------------
(* cleanup. *)

Cleanup(o, back) == [pc |-> "clean", s |-> c.s, o |-> c.o, u |-> c.u, co |-> o, back |-> back, ng |-> c.ng]

(* What a failed cleanup returns to: a record keeps its undo; a failed run
   becomes the undo of its record; the leftovers of a failed [DISABLE] section
   are lost and the record keeps its undo. *)
GiveUp ==
  /\ c' = Idle
  /\ rec' = IF c.back = "rollback" /\ c.u = 0 THEN [rec EXCEPT ![c.s] = c.o] ELSE rec

(* After a rollback the names of new global blocks are as they were, unless
   their memory is still part of the undo. *)
UndoneBlocks(left) == {b \in c.ng : ~\E k \in DOMAIN left : left[k] = b.l}
ForgetBlocks(left, knownNow) ==
  /\ known' = [n \in SymName |->
       IF \E b \in UndoneBlocks(left) : b.n = n /\ b.prev # 0 /\ knownNow[n] = 0
       THEN (CHOOSE b \in UndoneBlocks(left) : b.n = n).prev ELSE knownNow[n]]
  /\ globals' = globals \ {b.n : b \in {d \in UndoneBlocks(left) : ~d.was}}

(* A finished cleanup: the record is off, or the run is undone, or the undo of
   the section is and the record's own follows. *)
Finished ==
  IF c.back = "disable" THEN c' = Idle /\ rec' = [rec EXCEPT ![c.s] = 0]
  ELSE IF c.u = 0 THEN c' = Idle /\ UNCHANGED rec
  ELSE c' = Cleanup(c.u, "disable") /\ UNCHANGED rec

Completed(o) == [NewUndo(0) EXCEPT !.complete = TRUE]
SectionRan(o) == IF c.back = "rollback" /\ o = c.u THEN [und[o] EXCEPT !.sect = FALSE] ELSE und[o]
CleanRetired ==
  /\ c.pc = "clean" /\ ~Alive(c.co)
  /\ LET L == {und[c.co].allocs[k] : k \in DOMAIN und[c.co].allocs}
         now == [n \in SymName |-> IF known[n] \in L THEN 0 ELSE known[n]]
     IN /\ leases' = [l \in DOMAIN leases |-> IF l \in L THEN [leases[l] EXCEPT !.rel = TRUE] ELSE leases[l]]
        /\ IF c.back = "rollback" THEN ForgetBlocks(<<>>, now) ELSE known' = now /\ UNCHANGED globals
  /\ EraseSymbols(c.co)
  /\ und' = [o \in DOMAIN und |-> IF o = c.co THEN Completed(o) ELSE SectionRan(o)]
  /\ Finished
  /\ UNCHANGED <<scen, target, livep, hooks, faults>>

(* An injected thread still runs in its memory (the mutant does not ask), or
   code is not this undo's. *)
InUse_Never(o) == FALSE
InUse(o) ==
  \/ \E k \in DOMAIN und[o].allocs : ~leases[und[o].allocs[k]].rel /\ \E a \in Cells(leases[und[o].allocs[k]].b) : Busy(a)
  \/ \E p \in ToSet(Needed(o)) \cup ToSet(Protections(o)) : Busy(p.a)
(* Nothing is changed when memory of this undo is in use, its code has another
   owner, or the image or the code cannot be looked at. *)
CleanRefused ==
  /\ c.pc = "clean" /\ Alive(c.co)
  /\ IF InUse(c.co) \/ Conflict(c.co) THEN Granted ELSE Refused
  /\ GiveUp
  /\ UNCHANGED <<scen, target, tables, leases, und, hooks>>

(* The plan: what newer scripts take over, what is left to restore, and the
   protections.  Bytes that are all as they were are not written, nor are they
   read again; where they cannot be read they are written. *)
Differs(saved) == \E k \in DOMAIN saved : saved[k].a \notin Readable \/ mem[saved[k].a] # OriginalAt(saved, saved[k].a)
CleanBegin ==
  /\ c.pc = "clean" /\ Alive(c.co) /\ ~InUse(c.co) /\ ~Conflict(c.co)
  /\ livep' = Pruned(livep)
  /\ LET want == Restorable(c.co)
         plan == [want |-> want, given |-> {<<Heir(c.co, a), a, OriginalAt(Needed(c.co), a)>> : a \in HandedOver(c.co)},
                  prot |-> Protections(c.co), bad |-> FALSE]
     IN \/ ~Differs(want) /\ Granted /\ c' = [c EXCEPT !.pc = "protect"] @@ plan @@ [todo |-> <<>>]
        \/ /\ want # <<>> /\ (IF Differs(want) THEN Granted ELSE Refused)
           /\ c' = [c EXCEPT !.pc = "restore"] @@ plan @@ [todo |-> Reverse(want)]
  /\ UNCHANGED <<scen, target, known, globals, syms, symOwner, leases, und, rec, hooks>>

(* A write that changes an address leaves newer undos stale there: had they
   still been in memory, the code would have had another owner.  (Ghost.) *)
Outlived(a, v) ==
  [o \in DOMAIN und |-> IF o > c.co /\ mem[a] # v THEN [und[o] EXCEPT !.stale = @ \cup {a}] ELSE und[o]]
CleanWrite ==
  /\ c.pc = "restore" /\ c.todo # <<>>
  /\ LET p == Head(c.todo)
     IN \/ /\ Alive(c.co) /\ p.a \in Readable /\ p.a \notin ro \ Code
           /\ mem' = [mem EXCEPT ![p.a] = p.b]
           /\ und' = Outlived(p.a, p.b)
           /\ c' = [c EXCEPT !.todo = Tail(@)]
           /\ Granted
        \/ /\ IF Alive(c.co) /\ p.a \in Readable /\ p.a \notin ro \ Code THEN Refused ELSE Granted
           /\ c' = [c EXCEPT !.todo = Tail(@), !.bad = TRUE]
           /\ UNCHANGED <<mem, und>>
  /\ UNCHANGED <<scen, img, gone, ro, mapped, thr, writes, tables, leases, rec, hooks>>

(* What was written is read back; one write or read that failed ends it.  The
   mutant trusts the writes. *)
CleanVerify_Trusting ==
  /\ c.pc = "restore" /\ c.todo = <<>>
  /\ c' = [c EXCEPT !.pc = "protect"]
  /\ UNCHANGED <<scen, target, tables, leases, und, rec, hooks, faults>>
CleanVerify ==
  /\ c.pc = "restore" /\ c.todo = <<>>
  /\ LET failed == c.bad \/ ~Alive(c.co) \/ Differs(c.want)
     IN \/ ~failed /\ Granted /\ c' = [c EXCEPT !.pc = "protect"] /\ UNCHANGED rec
        \/ (IF failed THEN Granted ELSE Refused) /\ GiveUp
  /\ UNCHANGED <<scen, target, tables, leases, und, hooks>>

(* The bytes are back: then the page protections, each as it was before the
   first change, the originals that newer scripts take over, and this script's
   place among the live patches.  The mutant hands no original on. *)
Given_Lost(o) == <<>>
Given(o) == SetToSeq({<<g[2], g[3]>> : g \in {h \in c.given : h[1] = o}})
CleanProtect ==
  /\ c.pc = "protect"
  /\ LET changed == {c.prot[k].a : k \in DOMAIN c.prot}
         readonly == {a \in changed : c.prot[SelectInSeq(c.prot, LAMBDA p : p.a = a)].ro}
     IN \/ /\ Alive(c.co) \/ changed = {}
           /\ Granted
           /\ ro' = (ro \ changed) \cup readonly
           /\ und' = [o \in DOMAIN und |->
                        IF o = c.co THEN [und[o] EXCEPT !.orig = <<>>, !.prot = <<>>]
                        ELSE [und[o] EXCEPT !.over = @ \o Given(o)]]
           /\ livep' = SelectSeq(livep, LAMBDA p : p.o # c.co)
           /\ c' = [pc |-> "free", s |-> c.s, o |-> c.o, u |-> c.u, co |-> c.co, back |-> c.back, ng |-> c.ng, pend |-> {}]
           /\ UNCHANGED rec
        \/ /\ changed # {} /\ (IF Alive(c.co) THEN Refused ELSE Granted)
           /\ \E a \in changed : ro' = IF Alive(c.co) THEN (ro \ (changed \ {a})) \cup (readonly \ {a}) ELSE ro
           /\ GiveUp
           /\ UNCHANGED <<und, livep>>
  /\ UNCHANGED <<scen, img, mem, gone, mapped, thr, writes, known, globals, syms, symOwner, leases, hooks>>

(* The allocations are freed one by one; one that is refused stays pending. *)
Unfreed == {k \in DOMAIN und[c.co].allocs : ~leases[und[c.co].allocs[k]].rel /\ und[c.co].allocs[k] \notin c.pend}
CleanFree ==
  /\ c.pc = "free" /\ Unfreed # {}
  /\ LET l == und[c.co].allocs[Min(Unfreed)]
     IN \/ /\ Alive(c.co) /\ Granted
           /\ mapped' = mapped \ {leases[l].b}
           /\ ForgetLeases({l})
           /\ UNCHANGED c
        \/ /\ IF Alive(c.co) THEN Refused ELSE Granted
           /\ c' = [c EXCEPT !.pend = @ \cup {l}]
           /\ UNCHANGED <<mapped, leases, known>>
  /\ UNCHANGED <<scen, img, mem, gone, ro, thr, writes, globals, syms, symOwner, livep, und, rec, hooks>>

CleanPending ==
  /\ c.pc = "free" /\ Unfreed = {} /\ c.pend # {}
  /\ LET left == SelectSeq(und[c.co].allocs, LAMBDA l : l \in c.pend)
     IN /\ und' = [und EXCEPT ![c.co].allocs = left]
        /\ IF c.back = "rollback" THEN ForgetBlocks(left, known) ELSE UNCHANGED <<known, globals>>
  /\ GiveUp
  /\ UNCHANGED <<scen, target, syms, symOwner, livep, leases, hooks, faults>>

CleanDone ==
  /\ c.pc = "free" /\ Unfreed = {} /\ c.pend = {}
  /\ EraseSymbols(c.co)
  /\ und' = [o \in DOMAIN und |-> IF o = c.co THEN Completed(o) ELSE SectionRan(o)]
  /\ IF c.back = "rollback" THEN ForgetBlocks(<<>>, known) ELSE UNCHANGED <<known, globals>>
  /\ Finished
  /\ UNCHANGED <<scen, target, livep, leases, hooks, faults>>

----------------------------------------------------------------------------
(* run: one section of a script, as the run o; u is the undo that a [DISABLE]
   section belongs to. *)

FailRun == c' = Cleanup(c.o, "rollback")

(* Blocks of an image that is gone are forgotten, with their symbols. *)
DeadBlocks == {n \in globals : known[n] # 0 /\ leases[known[n]].img # img}
ForgetDead ==
  LET gonesym == {n \in DeadBlocks : syms[n] = leases[known[n]].b}
  IN /\ globals' = globals \ DeadBlocks
     /\ known' = [n \in SymName |-> IF n \in DeadBlocks THEN 0 ELSE known[n]]
     /\ syms' = [n \in SymName |-> IF n \in gonesym THEN 0 ELSE syms[n]]
     /\ symOwner' = [n \in SymName |-> IF n \in gonesym THEN 0 ELSE symOwner[n]]

(* What an activation named, for its [DISABLE] section. *)
UndoNames(u) ==
  IF u = 0 THEN {}
  ELSE und[u].syms \cup und[u].names
       \cup {<<leases[und[u].allocs[k]].n, leases[und[u].allocs[k]].b>> : k \in DOMAIN und[u].allocs}

(* Parsing: the section as it stands for an answer of the Lua evaluator. *)
StartRun(s, part, u) ==
  LET o == Len(und) + 1
      names == UndoNames(u)
      known1 == {n[1] : n \in names} \cup {n \in SymName : syms'[n] # 0}
  IN \E truth \in scen.truth :
       LET text == Preprocess(Section(Script[s], part), truth, known1)
           labels == Names(text.out, {"label"})
           defines == AobDefines(text.out, Memory)
           declared == labels \cup DOMAIN defines \cup Names(text.out, {"alloc", "globalalloc"})
           inherited == {n \in names : n[1] \notin declared}
           run == [pc |-> "alloc", s |-> s, o |-> o, u |-> u, ng |-> {}, labels |-> labels,
                   allocs |-> Allocs(text.out), lines |-> AsmLines(text.out), regs |-> Registered(text.out),
                   env |-> defines @@ [n \in {m[1] : m \in inherited} |-> (CHOOSE m \in inherited : m[1] = n)[2]]
                           @@ [n \in labels |-> 0],
                   globs |-> {}, i |-> 1, cur |-> 0, sizes |-> <<>>, threads |-> <<>>, deallocs |-> <<>>,
                   unreg |-> {}, refs |-> {}, put |-> <<>>]
       IN c' = IF text.err = "" /\ ~AobMissing(text.out, Memory) /\ ~Breaks(text.out) THEN run
               ELSE [pc |-> "clean", s |-> s, o |-> o, u |-> u, co |-> o, back |-> "rollback", ng |-> {}]

(* The user enables a record.  The pin of the image may be refused. *)
Execute(s) ==
  /\ c.pc = "idle" /\ s \in scen.scripts /\ rec[s] = 0 /\ Len(und) < scen.runs
  /\ ForgetDead
  /\ und' = Append(und, NewUndo(img))
  /\ StartRun(s, "ENABLE", 0)
  /\ UNCHANGED <<scen, target, livep, leases, rec, hooks, faults>>

(* Another user of the undo's addresses: the lease that holds an address, this
   run's first and then those that names stand for. *)
LeaseAt(a) ==
  LET mine == {l \in ToSet(und[c.o].allocs) : LiveLease(l) /\ a \in Cells(leases[l].b)}
      named == {l \in {known[n] : n \in SymName} \ {0} : LiveLease(l) /\ a \in Cells(leases[l].b)}
  IN IF mine # {} THEN Min(mine) ELSE IF named # {} THEN Min(named) ELSE 0
InGlobalBlock(a) == \E n \in globals : known[n] # 0 /\ leases[known[n]].img = und[c.o].img
                                        /\ a \in Cells(leases[known[n]].b)

(* Memory of a section: a name of the undo; a global block that exists; or a
   new block. *)
Free == Block \ mapped
AllocNamed ==
  /\ c.pc = "alloc" /\ c.allocs # <<>> /\ c.u # 0 /\ Head(c.allocs).op = "alloc"
  /\ LET n == Head(c.allocs).n
         at == {m[2] : m \in {k \in UndoNames(c.u) : k[1] = n}}
     IN IF at = {} THEN FailRun
        ELSE c' = [c EXCEPT !.allocs = Tail(@), !.env = (n :> Min(at)) @@ @]
  /\ UNCHANGED <<scen, target, tables, leases, und, rec, hooks, faults>>

Shares(n) == n \in globals /\ known[n] # 0 /\ syms[n] = leases[known[n]].b /\ leases[known[n]].img = und[c.o].img
AllocShared ==
  /\ c.pc = "alloc" /\ c.allocs # <<>> /\ Head(c.allocs).op = "globalalloc" /\ Shares(Head(c.allocs).n)
  /\ LET n == Head(c.allocs).n
     IN c' = [c EXCEPT !.allocs = Tail(@), !.env = (n :> syms[n]) @@ @, !.globs = @ \cup {n}]
  /\ UNCHANGED <<scen, target, tables, leases, und, rec, hooks, faults>>

AllocNew ==
  /\ c.pc = "alloc" /\ c.allocs # <<>>
  /\ LET line == Head(c.allocs)
         n == line.n
         global == line.op = "globalalloc"
         l == Len(leases) + 1
     IN /\ global \/ c.u = 0
        /\ ~(global /\ Shares(n))
        /\ \/ /\ Alive(c.o) /\ Free # {} /\ Granted
              /\ mapped' = mapped \cup {Min(Free)}
              /\ mem' = [a \in Addr |-> IF a \in Cells(Min(Free)) THEN 0 ELSE mem[a]]
              /\ leases' = Append(leases, [n |-> n, b |-> Min(Free), o |-> c.o, img |-> img, rel |-> FALSE, hook |-> FALSE])
              /\ und' = [und EXCEPT ![c.o].allocs = Append(@, l)]
              /\ globals' = IF global THEN globals \cup {n} ELSE globals
              /\ known' = [known EXCEPT ![n] = l]
              /\ c' = [c EXCEPT !.allocs = Tail(@), !.env = (n :> Min(Free)) @@ @,
                                !.globs = IF global THEN @ \cup {n} ELSE @,
                                !.ng = IF global THEN @ \cup {[n |-> n, l |-> l, prev |-> known[n], was |-> n \in globals]} ELSE @]
           \/ /\ IF Alive(c.o) /\ Free # {} THEN Refused ELSE Granted
              /\ FailRun
              /\ UNCHANGED <<mapped, mem, leases, und, globals, known>>
  /\ UNCHANGED <<scen, img, gone, ro, thr, writes, syms, symOwner, livep, rec, hooks>>

(* The branches of {$try} are chosen and every label gets its address. *)
SizeLines ==
  /\ c.pc = "alloc" /\ c.allocs = <<>>
  /\ LET chosen == SelectTry(c.lines, c.env, syms, Memory)
         sized == ResolveLabels(chosen.out, c.labels, syms, Memory, c.env)
     IN IF chosen.err # "" \/ sized.err # "" THEN FailRun
        ELSE c' = [c EXCEPT !.pc = "line", !.lines = chosen.out, !.env = sized.env, !.sizes = sized.sizes]
  /\ UNCHANGED <<scen, target, tables, leases, und, rec, hooks, faults>>

Line == c.lines[c.i]
AtLine(ops) == c.pc = "line" /\ c.i <= Len(c.lines) /\ Line.op \in ops
Place0(n) == Resolve(n, c.env, syms)

(* readBeforeScript: memory as it was before this run's own writes. *)
Before(a) == LET k == SelectInSeq(und[c.o].orig, LAMBDA p : p.a = a)
             IN IF k = 0 THEN mem[a] ELSE und[c.o].orig[k].b
Inspectable(a) == Alive(c.o) /\ a \in Readable

(* patchMemory: the original is read and saved, except in a shared block; then
   the bytes are written.  A branch that is written is noted in refs. *)
PatchMemory(a, bytes, mutable, n, refs) ==
  LET A == a .. a + Len(bytes) - 1
      exec == a \notin Ext \/ a \in Code
      saved == [k \in DOMAIN bytes |->
                  [a |-> a + k - 1, b |-> mem[a + k - 1], w |-> bytes[k], ver |-> exec /\ ~mutable, l |-> LeaseAt(a)]]
      shared == InGlobalBlock(a)
      there == Alive(c.o) /\ A \subseteq Readable
      put == [a |-> a, bytes |-> bytes, mut |-> mutable, n |-> n, refs |-> refs]
  IN /\ \/ /\ there \/ shared
           /\ Granted
           /\ und' = IF shared THEN und ELSE [und EXCEPT ![c.o].orig = @ \o saved]
           /\ c' = [c EXCEPT !.pc = "write", !.put = <<put>>]
        \/ /\ ~shared /\ (IF there THEN Refused ELSE Granted)
           /\ FailRun /\ UNCHANGED und
     /\ UNCHANGED <<scen, target, tables, leases, rec, hooks>>

(* The write: a page that is not writable takes it after its protection is
   saved and changed; memory that an injected thread runs in takes data only;
   one that fails may have written some of the bytes. *)
Written(n) == LET p == Head(c.put) IN [x \in Addr |-> IF x \in p.a .. p.a + n - 1 THEN p.bytes[x - p.a + 1] ELSE mem[x]]
WriteBytes ==
  /\ c.pc = "write"
  /\ LET p == Head(c.put)
         A == p.a .. p.a + Len(p.bytes) - 1
         there == Alive(c.o) /\ A \subseteq Readable
         kept == ~p.mut /\ \E x \in A : Busy(x)
         prot == [a |-> p.a, ro |-> p.a \in ro, l |-> LeaseAt(p.a)]
     IN \/ /\ there /\ ~kept /\ Granted
           /\ mem' = Written(Len(p.bytes))
           /\ ro' = ro \ {p.a}
           /\ und' = IF p.a \in ro THEN [und EXCEPT ![c.o].prot = Append(@, prot)] ELSE und
           /\ c' = [c EXCEPT !.pc = "line", !.put = <<>>, !.i = @ + 1, !.cur = @ + p.n, !.refs = @ \cup p.refs]
        \/ /\ IF there /\ ~kept THEN Refused ELSE Granted
           /\ \E n \in IF there /\ ~kept THEN 0 .. Len(p.bytes) - 1 ELSE {0} : mem' = Written(n)
           /\ ro' \in IF there THEN {ro, ro \ {p.a}} ELSE {ro}
           /\ und' = IF there THEN [und EXCEPT ![c.o].prot = Append(@, prot)] ELSE und
           /\ FailRun
  /\ UNCHANGED <<scen, img, gone, mapped, thr, writes, tables, leases, rec, hooks>>

NextLine(n) == [c EXCEPT !.i = @ + 1, !.cur = @ + n]
Quiet(next) == c' = next /\ UNCHANGED <<scen, target, tables, leases, und, rec, hooks, faults>>

LabelLine ==
  /\ AtLine({"at"})
  /\ Quiet(IF Line.n \in c.labels THEN [NextLine(0) EXCEPT !.env[Line.n] = c.cur]
           ELSE [NextLine(0) EXCEPT !.cur = Place0(Line.n)])

FullAccessLine ==
  /\ AtLine({"full"})
  /\ LET a == Place0(Line.n)
         save == [und EXCEPT ![c.o].prot = Append(@, [a |-> a, ro |-> a \in ro, l |-> LeaseAt(a)])]
     IN IF ~Inspectable(a) THEN FailRun /\ Granted /\ UNCHANGED <<ro, und>>
        ELSE /\ und' = save
             /\ \/ ro' = ro \ {a} /\ c' = NextLine(0) /\ Granted
                \/ UNCHANGED ro /\ FailRun /\ Refused
  /\ UNCHANGED <<scen, img, mem, gone, mapped, thr, writes, tables, leases, rec, hooks>>

AssertLine ==
  /\ AtLine({"assert"})
  /\ LET a == Place0(Line.n)
     IN IF Inspectable(a) /\ Before(a) = Line.v THEN Quiet(NextLine(0)) ELSE Quiet(Cleanup(c.o, "rollback"))

(* dealloc and unregistersymbol take effect after every other line; while
   disabling, dealloc is left to the undo. *)
DeferLine ==
  /\ AtLine({"dealloc", "unregister", "thread", "threadwait"})
  /\ Quiet(CASE Line.op = "dealloc" ->
                   IF c.u = 0 THEN [NextLine(0) EXCEPT !.deallocs = Append(@, Line.n)] ELSE NextLine(0)
              [] Line.op = "unregister" -> [NextLine(0) EXCEPT !.unreg = @ \cup {Line.n}]
              [] OTHER -> [NextLine(0) EXCEPT !.threads = Append(@, Line)])

(* The mutant takes the code as it is now, whatever size was planned for it. *)
ReassembleLine_AnySize ==
  /\ AtLine({"reassemble"})
  /\ LET a == Place0(Line.n)
         v == Before(a)
     IN IF ~Inspectable(a) THEN Quiet(Cleanup(c.o, "rollback"))
        ELSE PatchMemory(c.cur, [k \in 1 .. InstructionSize(v) |-> v], FALSE, InstructionSize(v), {})
ReassembleLine ==
  /\ AtLine({"reassemble"})
  /\ LET a == Place0(Line.n)
         v == Before(a)
     IN IF ~Inspectable(a) \/ InstructionSize(v) # c.sizes[c.i] THEN Quiet(Cleanup(c.o, "rollback"))
        ELSE PatchMemory(c.cur, [k \in 1 .. InstructionSize(v) |-> v], FALSE, InstructionSize(v), {})

ReadMemLine ==
  /\ AtLine({"readmem"})
  /\ IF Inspectable(Place0(Line.n)) THEN PatchMemory(c.cur, <<Before(Place0(Line.n))>>, FALSE, 1, {})
     ELSE Quiet(Cleanup(c.o, "rollback"))

FillLine ==
  /\ AtLine({"fill"})
  /\ PatchMemory(Place0(Line.n), <<Line.v>>, FALSE, 0, {})

NopLine ==
  /\ AtLine({"nop"})
  /\ PatchMemory(c.cur, [k \in 1 .. Line.v |-> Nop], FALSE, Line.v, {})

(* db at a place that is not the script's own memory is code; other data may
   change while the script is enabled. *)
DataLine ==
  /\ AtLine({"db", "dd"})
  /\ PatchMemory(c.cur, <<Line.v>>, Line.op = "dd" \/ LeaseAt(c.cur) # 0, 1, {})

(* Any other line is an instruction; a branch holds its target's address. *)
Encoding(n) == IF BranchSize(c.cur, Place0(n)) = 1 THEN <<Jump(Place0(n))>> ELSE <<Nop, Jump(Place0(n))>>
AsmLine ==
  \/ AtLine({"asm"}) /\ PatchMemory(c.cur, <<Line.v>>, FALSE, 1, {})
  \/ AtLine({"ref"}) /\ PatchMemory(c.cur, Encoding(Line.n), FALSE, Len(Encoding(Line.n)), {<<Line.n, Place0(Line.n)>>})

(* Injected threads: each gets a stack and holds all that the run has saved. *)
Storage == UNION {Cells(leases[l].b) : l \in ToSet(und[c.o].allocs)} \cup {p.a : p \in ToSet(und[c.o].orig)}
           \cup {p.a : p \in ToSet(und[c.o].prot)}
AllLines == c.pc = "line" /\ c.i > Len(c.lines)
StartThread ==
  /\ AllLines /\ c.threads # <<>>
  /\ LET wait == Head(c.threads).op = "threadwait"
         done == [c EXCEPT !.threads = Tail(@)]
         stack == [n |-> "stack", b |-> Min(Free), o |-> c.o, img |-> img, rel |-> FALSE, hook |-> FALSE]
     IN \/ /\ IF Alive(c.o) /\ Free # {} THEN Refused ELSE Granted
           /\ FailRun /\ UNCHANGED <<thr, leases, mapped, und>>
        \/ /\ Alive(c.o) /\ Free # {} /\ wait /\ Granted
           /\ c' = done /\ UNCHANGED <<thr, leases, mapped, und>>
        \/ /\ Alive(c.o) /\ Free # {} /\ Granted
           /\ mapped' = mapped \cup {Min(Free)}
           /\ leases' = Append(leases, stack)
           /\ und' = [und EXCEPT ![c.o].allocs = Append(@, Len(leases) + 1)]
           /\ thr' = thr \cup {[o |-> c.o, cells |-> Storage \cup Cells(Min(Free))]}
           /\ IF wait THEN FailRun ELSE c' = done
  /\ UNCHANGED <<scen, img, mem, gone, ro, writes, tables, rec, hooks>>

Dealloc ==
  /\ AllLines /\ c.threads = <<>> /\ c.deallocs # <<>>
  /\ LET n == Head(c.deallocs)
         l == known[n]
         done == [c EXCEPT !.deallocs = Tail(@)]
         retired == leases[l].img # img
     IN \/ /\ l = 0 /\ c' = done /\ Granted /\ UNCHANGED <<leases, known, globals, mapped>>
        \/ /\ l # 0 /\ Granted
           /\ retired \/ ~\E a \in Cells(leases[l].b) : Busy(a)
           /\ leases' = [leases EXCEPT ![l].rel = TRUE]
           /\ known' = [known EXCEPT ![n] = 0] /\ globals' = globals \ {n}
           /\ mapped' = IF retired THEN mapped ELSE mapped \ {leases[l].b}
           /\ c' = done
        \/ /\ l # 0 /\ ~retired
           /\ IF \E a \in Cells(leases[l].b) : Busy(a) THEN Granted ELSE Refused
           /\ FailRun /\ UNCHANGED <<leases, known, globals, mapped>>
  /\ UNCHANGED <<scen, img, mem, gone, ro, thr, writes, syms, symOwner, livep, und, rec, hooks>>

(* Symbols are unregistered and registered last; new global blocks leave the
   undo.  An activation is now live and its record holds its undo. *)
Unregistered == {n \in c.unreg : c.u = 0 \/ ~\E a \in und[c.u].syms : a[1] = n}
RegisterSymbols ==
  LET regs == {n \in c.regs : Place0(n) # 0}
      now(n) == n \in c.globs \/ n \in regs
  IN /\ syms' = [n \in SymName |-> IF now(n) THEN (IF n \in regs THEN Place0(n) ELSE c.env[n])
                                    ELSE IF n \in Unregistered THEN 0 ELSE syms[n]]
     /\ symOwner' = [n \in SymName |-> IF n \in regs /\ c.u = 0 THEN c.o
                                        ELSE IF now(n) \/ n \in Unregistered THEN 0 ELSE symOwner[n]]
NewBlocks == {b.l : b \in c.ng}
(* The names that a [DISABLE] section may use: allocations and labels, but not
   those of anonymous labels nor what a scan defined.  (A hooked function is
   found again by its name.) *)
ScriptNames == DOMAIN c.env \cap ((c.labels \ ToSet(AnonName)) \cup c.globs \cup {leases[l].n : l \in ToSet(und[c.o].allocs)})
Activated ==
  /\ AllLines /\ c.threads = <<>> /\ c.deallocs = <<>> /\ c.u = 0
  /\ RegisterSymbols
  /\ LET regs == {n \in c.regs : Place0(n) # 0}
         done == [und[c.o] EXCEPT !.allocs = SelectSeq(@, LAMBDA l : l \notin NewBlocks), !.sect = TRUE,
                                  !.syms = {<<n, Place0(n)>> : n \in regs},
                                  !.names = {<<n, c.env[n]>> : n \in {m \in ScriptNames : c.env[m] # 0}}]
     IN /\ und' = [und EXCEPT ![c.o] = done]
        /\ livep' = IF done.orig = <<>> THEN livep
                    ELSE Append(Pruned(livep), [o |-> c.o, cells |-> {p.a : p \in ToSet(done.orig)}])
  /\ rec' = [rec EXCEPT ![c.s] = c.o]
  /\ c' = Idle
  /\ UNCHANGED <<scen, target, known, globals, leases, hooks, faults>>

----------------------------------------------------------------------------
(* disable: the [DISABLE] section once, then the cleanup of the undo. *)

HasSection(s) == "DISABLE" \in DOMAIN Script[s]
Disabling(s, o) == [pc |-> "clean", s |-> s, o |-> o, u |-> o, co |-> o, back |-> "disable", ng |-> {}]
RunsSection(s) == und[rec[s]].sect /\ HasSection(s) /\ Alive(rec[s])

DisableSection(s) ==
  /\ c.pc = "idle" /\ s \in scen.scripts /\ rec[s] # 0 /\ RunsSection(s) /\ Len(und) < scen.runs
  /\ ~Conflict(rec[s])
  /\ ForgetDead
  /\ und' = Append(und, NewUndo(und[rec[s]].img))
  /\ StartRun(s, "DISABLE", rec[s])
  /\ UNCHANGED <<scen, target, livep, leases, rec, hooks, faults>>

DisableOnly(s) ==
  /\ c.pc = "idle" /\ s \in scen.scripts /\ rec[s] # 0 /\ ~RunsSection(s)
  /\ und' = [und EXCEPT ![rec[s]].sect = FALSE]
  /\ c' = Disabling(s, rec[s])
  /\ UNCHANGED <<scen, target, tables, leases, rec, hooks, faults>>

(* What the section wrote is what the script leaves behind. *)
SectionDone ==
  /\ AllLines /\ c.threads = <<>> /\ c.deallocs = <<>> /\ c.u # 0
  /\ RegisterSymbols
  /\ LET left == [k \in DOMAIN und[c.o].orig |-> <<und[c.o].orig[k].a, und[c.o].orig[k].w>>]
     IN und' = [und EXCEPT ![c.u].over = @ \o left, ![c.u].sect = FALSE,
                           ![c.o] = Completed(c.o)]
  /\ c' = Disabling(c.s, c.u)
  /\ UNCHANGED <<scen, target, known, globals, livep, leases, rec, hooks, faults>>

----------------------------------------------------------------------------
(* Simple hooks: a jump over code to a block whose trampoline runs the code
   that the jump displaced.  Instructions that cannot move are refused. *)

HookBegin(a) ==
  /\ c.pc = "idle" /\ scen.hooks /\ a \in Readable /\ mem[a] < Jump(0) /\ Len(und) < scen.runs
  /\ Free # {}
  /\ \/ /\ Granted
        /\ mapped' = mapped \cup {Min(Free)}
        /\ leases' = Append(leases, [n |-> "hook", b |-> Min(Free), o |-> Len(und) + 1, img |-> img, rel |-> FALSE, hook |-> TRUE])
        /\ und' = Append(und, [NewUndo(img) EXCEPT !.orig =
                                <<[a |-> a, b |-> mem[a], w |-> Jump(Min(Free)), ver |-> TRUE, l |-> 0]>>])
        /\ c' = [pc |-> "hook", o |-> Len(und) + 1, a |-> a, was |-> mem[a], b |-> Min(Free)]
     \/ Refused /\ UNCHANGED <<mapped, leases, und, c>>
  /\ UNCHANGED <<scen, img, mem, gone, ro, thr, writes, tables, rec, hooks>>

HookInstall ==
  /\ c.pc = "hook"
  /\ c' = Idle
  /\ \/ /\ Alive(c.o) /\ c.a \in Readable /\ Granted
        /\ mem' = [mem EXCEPT ![c.a] = Jump(c.b)]
        /\ hooks' = hooks \cup {c.o}
        /\ UNCHANGED <<mapped, leases>>
     \/ /\ IF Alive(c.o) /\ c.a \in Readable THEN Refused ELSE Granted
        /\ IF Alive(c.o) /\ c.a \in Readable /\ mem[c.a] = c.was
           THEN /\ mapped' = mapped \ {c.b}
                /\ leases' = [leases EXCEPT ![Len(leases)].rel = TRUE]
           ELSE UNCHANGED <<mapped, leases>>
        /\ UNCHANGED <<mem, hooks>>
  /\ UNCHANGED <<scen, img, gone, ro, thr, writes, tables, und, rec>>

(* Removal: nothing to do in a new image; refused when the code is neither the
   hook's nor the original; the block stays, since code may still run there. *)
HookRemove(o) ==
  /\ c.pc = "idle"
  /\ LET p == und[o].orig[1]
     IN \/ /\ ~Alive(o) /\ hooks' = hooks \ {o} /\ UNCHANGED c
        \/ /\ Alive(o) /\ p.a \in Readable /\ mem[p.a] \in {p.b, p.w}
           /\ c' = [pc |-> "unhook", o |-> o, co |-> o] /\ UNCHANGED hooks
  /\ UNCHANGED <<scen, target, tables, leases, und, rec, faults>>

HookRestore ==
  /\ c.pc = "unhook"
  /\ LET p == und[c.o].orig[1]
     IN \/ /\ Alive(c.o) /\ p.a \in Readable /\ mem[p.a] = p.b /\ Granted
           /\ und' = [und EXCEPT ![c.o] = Completed(c.o)] /\ hooks' = hooks \ {c.o}
           /\ c' = Idle /\ UNCHANGED mem
        \/ /\ Alive(c.o) /\ p.a \in Readable /\ mem[p.a] # p.b /\ Granted
           /\ mem' = [mem EXCEPT ![p.a] = p.b]
           /\ und' = Outlived(p.a, p.b)
           /\ UNCHANGED <<hooks, c>>
        \/ /\ IF Alive(c.o) /\ p.a \in Readable THEN mem[p.a] # p.b /\ Refused ELSE Granted
           /\ c' = Idle /\ UNCHANGED <<mem, und, hooks>>
  /\ UNCHANGED <<scen, img, gone, ro, mapped, thr, writes, tables, leases, rec>>

----------------------------------------------------------------------------
Clean == CleanRetired \/ CleanRefused \/ CleanBegin \/ CleanWrite \/ CleanVerify \/ CleanProtect
         \/ CleanFree \/ CleanPending \/ CleanDone
Run == AllocNamed \/ AllocShared \/ AllocNew \/ SizeLines \/ LabelLine \/ FullAccessLine \/ AssertLine
       \/ DeferLine \/ ReassembleLine \/ ReadMemLine \/ FillLine \/ NopLine \/ DataLine \/ AsmLine \/ WriteBytes
       \/ StartThread \/ Dealloc \/ Activated \/ SectionDone

Next ==
  \/ \E s \in DOMAIN Script : Execute(s) \/ DisableSection(s) \/ DisableOnly(s)
  \/ Run \/ Clean
  \/ \E a \in Site : HookBegin(a)
  \/ HookInstall \/ HookRestore
  \/ \E o \in hooks : HookRemove(o)
  \/ \E a \in Ext : TargetWrite(a) \/ TargetUnmap(a)
  \/ TargetExec
  \/ \E t \in thr : ThreadEnds(t)

Spec == Init /\ [][Next]_vars

----------------------------------------------------------------------------
(* The memory as a stack of patches. *)

Held == {rec[s] : s \in DOMAIN Script} \cup hooks \cup (IF c.pc = "idle" THEN {} ELSE {c.o})
Over(a) == IF a \in gone THEN <<>>
           ELSE SetToSortSeq({o \in Held \ {0} : Alive(o) /\ a \notin und[o].stale /\ \E k \in DOMAIN und[o].orig : und[o].orig[k].a = a}, <)
Stack(a) == IF a \in gone THEN <<>>
            ELSE LET patches == Over(a)
                     below(o) == LET i == SelectLastInSeq(und[o].over, LAMBDA w : w[1] = a)
                                 IN IF i = 0 THEN OriginalAt(und[o].orig, a) ELSE und[o].over[i][2]
                 IN [k \in DOMAIN patches |-> below(patches[k])] \o <<mem[a]>>
Working == CASE c.pc = "idle" -> <<"idle", 0, 0>>
             [] c.pc \in {"alloc", "line", "write"} -> <<"apply", c.o, c.u>>
             [] c.pc = "hook" -> <<"apply", c.o, 0>>
             [] c.pc = "unhook" -> <<"undo", c.o, 0>>
             [] OTHER -> <<IF c.pc \in {"protect", "free"} THEN "undone" ELSE "undo", c.co,
                           IF c.back = "rollback" THEN c.u ELSE 0>>
Wrote(a) == IF c.pc = "hook" THEN Jump(c.b) ELSE IF Working[1] # "apply" THEN 0
            ELSE LET k == SelectLastInSeq(und[c.o].orig, LAMBDA p : p.a = a)
                 IN IF k = 0 THEN 0 ELSE und[c.o].orig[k].w

(* Every step of scripts and hooks is a step of a stack of patches: in whatever
   order they are enabled and disabled, what one wrote or saved is never lost
   to another; one is only gone once what was under it was seen in memory, or
   once the one over it has that to put back; and nothing is written into a
   new image.  Accesses are refused, also with two layers of code; two things
   the stack does not promise are left to the scenarios: a data script whose
   failed run could not be taken back, which no other script then knows of,
   and a target that writes the very code of a patch that was half undone. *)
Layers == INSTANCE PatchStack WITH
  Cell <- Ext, Patch <- 1 .. MaxRun, stack <- [a \in Ext |-> Stack(a)], over <- [a \in Ext |-> Over(a)],
  image <- img, work <- Working, wrote <- [a \in Ext |-> Wrote(a)]
LayersSpec == Layers!Spec

(* Between operations every mapped block belongs to exactly one allocation that
   is not released, and an undo that a record holds, a global name or a hook
   still leads to it; no name stands for a released one. *)
Reachable(l) ==
  \/ \E s \in DOMAIN Script : rec[s] # 0 /\ l \in ToSet(und[rec[s]].allocs)
  \/ \E n \in globals : known[n] = l
  \/ leases[l].hook
BlocksOwned == c.pc = "idle" =>
  /\ \A b \in mapped : \E l \in DOMAIN leases :
       /\ LiveLease(l) /\ leases[l].b = b /\ Reachable(l)
       /\ \A m \in DOMAIN leases : LiveLease(m) /\ leases[m].b = b => m = l
  /\ \A l \in DOMAIN leases : LiveLease(l) => leases[l].b \in mapped
  /\ \A n \in SymName : known[n] # 0 => ~leases[known[n]].rel

(* Undoing a patch leaves alone what has a new owner since: blocks whose
   address was given out again, symbols registered by another script, and
   everything an injected thread still runs in. *)
Undoing == c.pc \in {"clean", "restore", "protect", "free"}
UndoKeepsOthers == [][Undoing /\ img' = img /\ writes' = writes =>
  /\ \A b \in mapped \cap mapped' : (\E a \in Cells(b) : mem'[a] # mem[a]) =>
       \E k \in DOMAIN und[c.co].orig : LET l == und[c.co].orig[k].l IN l # 0 /\ LiveLease(l) /\ leases[l].b = b
  /\ \A n \in SymName : syms'[n] # syms[n] => symOwner[n] = c.co
  /\ \A t \in thr : \A a \in t.cells : mem'[a] = mem[a] /\ (a \in Readable => a \in Readable')]_vars

(* A registered symbol that has an owner is one of that owner's undo, and the
   owner is not undone: disabling a script removes all its own symbols. *)
SymbolsOwned == \A n \in SymName : symOwner[n] # 0 =>
  ~und[symOwner[n]].complete /\ <<n, syms[n]>> \in und[symOwner[n]].syms

(* Once all lines are written, every branch goes where its label ended up,
   although labels move between the passes and the target changes the code
   that reassemble copies. *)
LabelsAgree == c.pc = "line" /\ c.i > Len(c.lines) => \A r \in c.refs : Place0(r[1]) = r[2]

(* Blocks, symbols and labels are what the scripts that own them say. *)
Accounted == BlocksOwned /\ SymbolsOwned /\ LabelsAgree
=============================================================================
