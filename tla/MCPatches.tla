----------------------------- MODULE MCPatches ------------------------------
(***************************************************************************)
(* The breakpoint table, or the code patches, for TLC.  The patches are of *)
(* one instruction of three bytes, written two at a time, of a program     *)
(* that is replaced once; the instruction is in a window's list and in a   *)
(* script.  Which of the two happens, and what of it how often, is the     *)
(* initial state's toll.                                                   *)
(***************************************************************************)
EXTENDS BreakpointManager, CodePatch

MCInsns == {[lo |-> 1, hi |-> 3]}

Toll(op, fault, exec, exit) ==
    [op |-> op, fault |-> fault, exec |-> exec, exit |-> exit,
     table |-> op = 0]

MCTolls == {Toll(0, 0, 0, 0), Toll(2, 2, 1, 0), Toll(4, 1, 0, 0), Toll(3, 1, 0, 1)}

PatchesInit == Init /\ PatchInit /\ (toll.table => view = "private")

PatchesNext ==
    \/ toll.table /\ Next /\ UNCHANGED patching
    \/ PatchNext /\ UNCHANGED vars

PatchesSpec == PatchesInit /\ [][PatchesNext]_<<vars, patching>>
=============================================================================
