-------------------------- MODULE MCAutoAssembler --------------------------
(* AutoAssembler for TLC.  "game" is code, "hp" data, "ro" data on a read-only
   page.  Each scenario has the scripts that matter to one another. *)
EXTENDS AutoAssembler

MCPlace == ("game" :> 1) @@ ("hp" :> 2) @@ ("ro" :> 3)
MCFunc == "Draw" :> 1
MCFresh == <<11, 12, 13>>
At(n) == [op |-> "at", n |-> n]
Do(op, n) == [op |-> op, n |-> n]
Put(op, v) == [op |-> op, v |-> v]

MCScript ==
  "inject" :> [ENABLE |-> <<Do("alloc", "cave"), Do("register", "cave"), At("cave"), Do("reassemble", "game"),
                            Do("ref", "@F"), Put("nop", 1), At("@@"), Put("db", 21), At("game"), Do("ref", "cave")>>] @@
  "over" :> [ENABLE |-> <<Do("aobscan", "spot") @@ [v |-> 11], At("game"), Put("asm", 22)>>] @@
  "low" :> [ENABLE |-> <<At("hp"), Put("dd", 31)>>, DISABLE |-> <<At("hp"), Put("dd", 35)>>] @@
  "mid" :> [ENABLE |-> <<Do("assert", "hp") @@ [v |-> 12], At("hp"), Put("dd", 32), Put("dd", 36)>>] @@
  "top" :> [ENABLE |-> <<Do("if", ""), Do("full", "ro"), Do("else", ""), At("hp"), Put("dd", 37), Do("endif", ""),
                         At("hp"), Put("dd", 33)>>] @@
  "shared" :> [ENABLE |-> <<Do("globalalloc", "pool"), Do("alloc", "own"), At("pool"), Put("dd", 41),
                            At("own"), Do("readmem", "game")>>] @@
  "guest" :> [ENABLE |-> <<Do("globalalloc", "pool"), Do("try", ""), Do("assert", "game") @@ [v |-> 11],
                           At("cave"), Put("dd", 42), Do("except", ""), Do("fill", "hp") @@ [v |-> 43], Do("endtry", ""),
                           Do("unregister", "cave")>>] @@
  "drop" :> [ENABLE |-> <<Do("dealloc", "cave"), Do("dealloc", "pool")>>] @@
  "worker" :> [ENABLE |-> <<Do("alloc", "cave"), At("cave"), Put("dd", 0), Do("thread", "cave")>>,
               DISABLE |-> <<Do("alloc", "cave"), At("cave"), Put("dd", 1), Do("dealloc", "cave")>>] @@
  "waiter" :> [ENABLE |-> <<Do("alloc", "cave"), At("cave"), Put("dd", 0), Do("threadwait", "cave")>>]

Base == [scripts |-> {}, runs |-> 3, faults |-> 0, writes |-> 0, cells |-> {}, vals |-> {}, unmap |-> {}, images |-> 1,
         hooks |-> FALSE, truth |-> {"yes"}]
MCScenarios ==
  {[Base EXCEPT !.scripts = {"low", "mid", "top"}, !.runs = 4, !.writes = 1, !.cells = {2}, !.vals = {51}],
   [Base EXCEPT !.scripts = {"low", "top"}, !.faults = 1, !.images = 2, !.truth = {"yes", "no"}],
   [Base EXCEPT !.scripts = {"inject", "over"}, !.writes = 1, !.cells = {1}, !.vals = {61}],
   [Base EXCEPT !.scripts = {"inject", "over"}, !.faults = 1],
   [Base EXCEPT !.scripts = {"inject", "over"}, !.hooks = TRUE],
   [Base EXCEPT !.scripts = {"over"}, !.faults = 1, !.hooks = TRUE],
   [Base EXCEPT !.hooks = TRUE, !.faults = 1, !.images = 2, !.writes = 1, !.cells = {1}, !.vals = {61}],
   [Base EXCEPT !.scripts = {"inject"}, !.faults = 1, !.images = 2, !.unmap = {1}, !.writes = 1, !.truth = {"yes", "error"}, !.runs = 2],
   [Base EXCEPT !.scripts = {"inject", "guest", "drop"}],
   [Base EXCEPT !.scripts = {"shared", "guest", "drop"}, !.faults = 1, !.images = 2],
   [Base EXCEPT !.scripts = {"worker", "waiter"}, !.faults = 1]}
=============================================================================
