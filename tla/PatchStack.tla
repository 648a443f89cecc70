----------------------------- MODULE PatchStack -----------------------------
(***************************************************************************)
(* What enabling and disabling patches promises about the target's memory. *)
(*                                                                         *)
(* Every cell holds a stack of values: what the target had, then what each *)
(* patch over it wrote, in the order they were applied; the last value is  *)
(* the one in memory.  A patch may be taken out at any place of the stack: *)
(* the values below and above it stay as they are.                         *)
(***************************************************************************)
EXTENDS Naturals, Sequences, SequencesExt

CONSTANTS
  Cell,    \* the addresses
  Patch,   \* the patches, numbered in the order they begin
  Fresh    \* what a new image holds, by cell

VARIABLES
  stack,   \* by cell: the values, the original first and the live one last
  over,    \* by cell: the patches between them, oldest first
  writes,  \* writes the target has made
  image,   \* images the target has had
  work,    \* what is done, to which patch, and the patch it is a part of undoing
  wrote    \* by cell: what the patch being applied wrote there last

pvars == <<stack, over, writes, image, work, wrote>>

(* A patch is applied or undone; "undone" is one whose values were seen to be
   out of memory.  The third part is the patch that a patch of its own, made
   while undoing it, belongs to (0: none). *)
Idle == <<"idle", 0, 0>>
Work == {Idle} \cup {"apply", "undo", "undone"} \X Patch \X (Patch \cup {0})

Init ==
  /\ stack = [c \in Cell |-> <<Fresh[c]>>]
  /\ over = [c \in Cell |-> <<>>]
  /\ writes = 0
  /\ image = 1
  /\ work = Idle
  /\ wrote = [c \in Cell |-> 0]

Live(c) == Last(stack[c])
At(o, c) == SelectInSeq(over[c], LAMBDA p : p = o)
Cells(o) == {c \in Cell : stack[c] # <<>> /\ At(o, c) # 0}
IsLast(o, c) == At(o, c) = Len(over[c])

Doing(kind, o) == work[1] = kind /\ work[2] = o

(* The patch being applied writes cells: over a cell that it has not written
   before it adds a value, over its own, the last one, it changes the live one. *)
Push(o, C) ==
  /\ Doing("apply", o) \/ (work = Idle /\ work' = <<"apply", o, 0>>)
  /\ work'[1] # "undone"
  /\ \A c \in C : stack[c] # <<>> /\ At(o, c) \in {0, Len(over[c])}
  /\ over' = [c \in Cell |-> IF c \in C /\ At(o, c) = 0 THEN Append(over[c], o) ELSE over[c]]
  /\ \A c \in Cell \ C : stack'[c] = stack[c]
  /\ \A c \in C : stack'[c] # <<>> /\ Front(stack'[c]) = IF At(o, c) = 0 THEN stack[c] ELSE Front(stack[c])
  /\ \A c \in C : Live(c)' \in {wrote[c], wrote'[c], Live(c)}
  /\ UNCHANGED <<writes, image>>

(* A patch that could not be applied leaves, where nothing of it is in memory. *)
Cancel(o) ==
  /\ Doing("apply", o) /\ work' = Idle
  /\ \A c \in Cells(o) : IsLast(o, c) /\ Live(c) # wrote[c]
  /\ over' = [c \in Cell |-> IF c \in Cells(o) THEN Front(over[c]) ELSE over[c]]
  /\ stack' = [c \in Cell |-> IF c \in Cells(o) THEN RemoveAt(stack[c], At(o, c)) ELSE stack[c]]
  /\ UNCHANGED <<writes, image>>

(* The patch being undone writes a cell where no other is over it, or only such
   that what was under them is in memory: those are out of this cell then, and
   will not write it.  It is gone itself only once what was under it is seen. *)
PutBack(o, c) ==
  /\ Doing("undo", o) /\ work' = work
  /\ c \in Cells(o) /\ \A k \in At(o, c) + 1 .. Len(over[c]) : stack[c][k] = Live(c)
  /\ over' = [over EXCEPT ![c] = SubSeq(@, 1, At(o, c))]
  /\ Len(stack'[c]) = At(o, c) + 1 /\ Front(stack'[c]) = SubSeq(stack[c], 1, At(o, c))
  /\ \A d \in Cell \ {c} : stack'[d] = stack[d]
  /\ UNCHANGED <<writes, image>>

(* Wherever the patch is the last one, what was under it is in memory again. *)
Restored(o) == \A c \in Cells(o) : IsLast(o, c) => Live(c) = stack[c][At(o, c)]

(* That was seen; from now on only the target changes these cells. *)
See(o) == Doing("undo", o) /\ Restored(o) /\ work' = [work EXCEPT ![1] = "undone"] /\ UNCHANGED <<stack, over, writes, image>>

(* The patch is gone.  Where it was the last one, the live value stays; where
   another was applied over it, only its own value leaves, and that other one
   now has the value below it to put back. *)
Take(o) ==
  /\ Doing("undone", o) \/ (Doing("undo", o) /\ Restored(o))
  /\ over' = [c \in Cell |-> IF c \in Cells(o) THEN RemoveAt(over[c], At(o, c)) ELSE over[c]]
  /\ stack' = [c \in Cell |-> IF c \notin Cells(o) THEN stack[c]
                              ELSE RemoveAt(stack[c], IF IsLast(o, c) THEN At(o, c) ELSE At(o, c) + 1)]
  /\ UNCHANGED <<writes, image>>

(* A patch made while u is undone is applied: it stays for good, and where u
   wrote as well, undoing u now leaves what this one wrote. *)
Keep(o, u) ==
  LET left(c) == RemoveAt(stack[c], At(o, c))
  IN /\ work = <<"apply", o, u>> /\ u # 0 /\ work' = <<"undo", u, 0>>
     /\ over' = [c \in Cell |-> IF c \in Cells(o) THEN RemoveAt(over[c], At(o, c)) ELSE over[c]]
     /\ stack' = [c \in Cell |-> IF c \notin Cells(o) THEN stack[c]
                                 ELSE IF At(u, c) # 0 THEN [left(c) EXCEPT ![At(u, c)] = wrote[c]]
                                 ELSE left(c)]
     /\ UNCHANGED <<writes, image>>

(* Or it could neither be applied nor be undone: it is lost, and what it left
   in memory stays there.  A patch of its own is never lost like this. *)
Lose(o, u) ==
  /\ work[1] \in {"undo", "undone"} /\ work[2] = o /\ work[3] = u /\ u # 0 /\ work' = Idle
  /\ \A c \in Cells(o) : IsLast(o, c)
  /\ over' = [c \in Cell |-> IF c \in Cells(o) THEN Front(over[c]) ELSE over[c]]
  /\ stack' = [c \in Cell |-> IF c \in Cells(o) THEN RemoveAt(stack[c], At(o, c)) ELSE stack[c]]
  /\ UNCHANGED <<writes, image>>

(* The target writes a cell, loses one with a library, or runs exec. *)
TargetWrite(c) ==
  /\ writes' = writes + 1
  /\ stack[c] # <<>>
  /\ stack'[c] # <<>> /\ Front(stack'[c]) = Front(stack[c])
  /\ \A d \in Cell \ {c} : stack'[d] = stack[d]
  /\ UNCHANGED <<over, image, wrote, work>>
TargetUnmap(c) ==
  /\ writes' = writes + 1
  /\ stack' = [stack EXCEPT ![c] = <<>>]
  /\ over' = [over EXCEPT ![c] = <<>>]
  /\ UNCHANGED <<image, wrote, work>>
TargetExec ==
  /\ image' = image + 1
  /\ stack' = [c \in Cell |-> <<Fresh[c]>>]
  /\ over' = [c \in Cell |-> <<>>]
  /\ UNCHANGED <<writes, wrote, work>>

(* Work starts, goes on and ends between these steps, and with any of them;
   but no patch is undone that was not seen to be. *)
Turn == (work'[1] = "undone" => work' = work) /\ UNCHANGED <<stack, over, writes, image>>
Step ==
  \/ Turn
  \/ \E o \in {work[2], work'[2]} \cap Patch : Push(o, {c \in Cell : stack'[c] # stack[c]})
  \/ \E o \in {work[2]} \cap Patch :
       \/ Cancel(o)
       \/ \E c \in Cell : PutBack(o, c)
       \/ See(o)
       \/ Take(o)
       \/ \E u \in Patch : Keep(o, u) \/ Lose(o, u)
  \/ \E c \in Cell : TargetWrite(c) \/ TargetUnmap(c)
  \/ TargetExec

Next == Step /\ work' \in Work

Spec == Init /\ [][Next]_pvars
=============================================================================
