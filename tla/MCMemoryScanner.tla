-------------------------- MODULE MCMemoryScanner --------------------------
(***************************************************************************)
(* Instances of MemoryScanner: two pages of four bytes, or two regions far *)
(* enough apart to need two frames, and short sequences of scans.          *)
(***************************************************************************)
EXTENDS PointerScanner

Mem(bytes) == [a \in 0 .. Len(bytes) - 1 |-> bytes[a + 1]]

Region(base, size, type) == [base |-> base, size |-> size, type |-> type, write |-> TRUE, exec |-> FALSE]

Cfg(kind, align, cmp, v) ==
  [kind |-> kind, align |-> align, cmp |-> cmp, v |-> v, v2 |-> v, lo |-> 0, hi |-> 100,
   types |-> {"private", "image"}, writable |-> "any", executable |-> "any", pat |-> <<>>, fold |-> FALSE, rounding |-> "none",
   percent |-> <<>>]

\* A scan for text, a pattern, a group or a formula.
Pat(kind, align, cmp, pat) == [Cfg(kind, align, cmp, 0) EXCEPT !.pat = pat]
Float(align, cmp, v, rounding, tolerance) ==
  [Cfg("float", align, cmp, v) EXCEPT !.v2 = tolerance, !.rounding = rounding]

None == [disk |-> 0, throw |-> 0, ui |-> 0, poke |-> 0, unmap |-> 0, lost |-> 0, cancel |-> 0,
         kill |-> 0, week |-> 0, other |-> 0]

Base == [mem |-> Mem(<<1, 0, 0, 1, 0, 1, 1, 0>>), regions |-> <<Region(0, 8, "private")>>,
         touched |-> {0, 1}, threads |-> 2, chunk |-> 3, remote |-> FALSE, cli |-> FALSE,
         scans |-> <<Cfg("word", 1, "exact", 1), Cfg("word", 1, "unchanged", 0)>>, left |-> None]

MCScenarios == {
  \* unaligned words over chunk ends, memory changing, a page unmapped
  [Base EXCEPT !.left.poke = 1, !.left.unmap = 1],
  \* aligned words, a page nobody touched left out, then touched
  [Base EXCEPT !.mem = Mem(<<1, 0, 1, 0, 0, 0, 0, 0, 1, 0, 0, 1>>), !.regions = <<Region(0, 12, "private")>>,
               !.touched = {0, 2}, !.chunk = 2, !.scans = <<Cfg("word", 2, "exact", 1), Cfg("word", 2, "sameasfirst", 0)>>,
               !.left.poke = 2],
  \* a range too small to ask which of its pages were touched
  [Base EXCEPT !.mem = Mem(<<1, 0, 1, 0, 0, 0, 0, 0>>), !.touched = {0}, !.chunk = 2, !.left.poke = 2,
               !.scans = <<[Cfg("word", 2, "exact", 1) EXCEPT !.lo = 5], Cfg("word", 2, "changed", 0)>>],
  \* every type at once, then one of them
  [Base EXCEPT !.scans = <<Cfg("all", 1, "exact", 1), Cfg("all", 1, "unchanged", 0), Cfg("byte", 1, "increased", 0)>>,
               !.left.poke = 1, !.left.unmap = 1],
  \* unknown value, narrowed twice, rows removed, undone
  [Base EXCEPT !.mem = Mem(<<1, 0, 0, 1>>), !.regions = <<Region(0, 4, "image")>>, !.touched = {0},
               !.scans = <<Cfg("byte", 1, "unknown", 0), Cfg("byte", 1, "increasedby", 1), Cfg("byte", 1, "sameasfirst", 0)>>,
               !.left.poke = 2, !.left.ui = 2],
  \* two frames, a clipped range, pokes
  [Base EXCEPT !.mem = Mem(<<1, 0, 0, 1, 0, 1, 1, 0, 1, 1, 0, 1>>), !.regions = <<Region(0, 3, "image"), Region(7, 5, "image")>>,
               !.touched = {0, 1, 2}, !.chunk = 2,
               !.scans = <<[Cfg("byte", 1, "between", 1) EXCEPT !.lo = 1, !.v2 = 2], [Cfg("byte", 1, "exact", 1) EXCEPT !.hi = 10]>>,
               !.left.poke = 1],
  \* the disk fills up, a worker throws, the scan is cancelled
  [Base EXCEPT !.scans = <<Cfg("byte", 1, "unknown", 0), Cfg("byte", 1, "unchanged", 0)>>,
               !.left.disk = 1, !.left.throw = 1, !.left.cancel = 1],
  \* a remote target that may be lost
  [Base EXCEPT !.remote = TRUE, !.left.lost = 1, !.left.unmap = 1,
               !.scans = <<Pat("text", 1, "exact", <<1, 0>>), Pat("text", 1, "exact", <<1, 0>>)>>],
  \* the process is killed and restarted, others clean up
  [Base EXCEPT !.mem = Mem(<<1, 0, 0, 1>>), !.regions = <<Region(0, 4, "image")>>, !.touched = {0},
               !.scans = <<Cfg("byte", 1, "exact", 1), Cfg("byte", 1, "exact", 1), Cfg("byte", 1, "exact", 1)>>,
               !.left.kill = 1, !.left.week = 1, !.left.other = 2, !.left.ui = 1],
  \* the command line: kept results, a week, cleanups
  [Base EXCEPT !.mem = Mem(<<1, 0, 0, 1>>), !.regions = <<Region(0, 4, "image")>>, !.touched = {0}, !.cli = TRUE,
               !.scans = <<Cfg("byte", 1, "exact", 1), Cfg("byte", 1, "exact", 1), Cfg("byte", 1, "exact", 1)>>,
               !.left.kill = 1, !.left.week = 1, !.left.other = 1, !.left.disk = 1]}
  \* no region passes the filter
  \cup {[Base EXCEPT !.cli = cli, !.left.ui = 1,
             !.scans = <<[Cfg("byte", 1, "exact", 1) EXCEPT !.writable = IF cli THEN "no" ELSE "any",
                                                            !.executable = IF cli THEN "any" ELSE "yes"],
                         Cfg("byte", 1, "changed", 0)>>] : cli \in BOOLEAN}

\* Searches of memory that nobody disturbs.
Letters == [Base EXCEPT !.mem = Mem(<<1, 0, 2, 0, 1, 2, 2, 1, 0, 1, 2, 0>>), !.regions = <<Region(0, 12, "private")>>,
                        !.touched = {0, 1, 2}]
Wild == [is |-> "any"]
Half(b) == [is |-> "half", b |-> b]
Run(bytes) == [is |-> "run", bytes |-> bytes]
Bad == [is |-> "bad"]
Term(off, w, v) == [off |-> off, w |-> w, v |-> v, bad |-> FALSE]
Lua(compiles, matches, memory) == [compiles |-> compiles, matches |-> matches, memory |-> memory]

MCSearches == {[Letters EXCEPT !.scans = scans] : scans \in {
  \* text, in its own case and in any (in two-byte units below)
  <<Pat("text", 1, "exact", <<1, 2>>), Pat("text", 1, "changed", <<1, 2>>)>>,
  <<[Pat("text", 1, "exact", <<1, 2>>) EXCEPT !.fold = TRUE], [Pat("text", 1, "exact", <<2, 1>>) EXCEPT !.fold = TRUE]>>,
  \* patterns: a byte to look for, none, some of a byte, one that is no pattern
  <<Pat("aob", 1, "exact", <<Wild, Half(2), Run(<<1, 2>>)>>), Pat("aob", 1, "exact", <<Run(<<1, 2>>), Wild, Wild>>)>>,
  <<Pat("aob", 1, "exact", <<Wild, Run(<<0>>)>>)>>,
  <<Pat("aob", 1, "exact", <<Half(2), Wild>>), Pat("aob", 1, "exact", <<Bad>>), Pat("aob", 1, "increased", <<Wild, Wild>>)>>,
  <<Pat("aob", 1, "exact", <<Run(<<1>>), Bad>>), Pat("binary", 1, "exact", <<Run(<<0>>), Bad, Half(2)>>)>>,
  \* groups
  <<Pat("group", 2, "exact", <<Term(0, 1, 1), Term(2, 1, 2)>>), Pat("group", 2, "unchanged", <<Term(0, 1, 1), Term(2, 1, 2)>>)>>,
  <<Pat("group", 1, "unknown", <<Term(0, 2, 1)>>), Pat("group", 1, "exact", <<Term(0, 2, 6)>>), Pat("group", 1, "greater", <<Term(0, 2, 6)>>)>>,
  \* formulas: out of memory for some values, and one that is no formula
  <<Pat("custom", 1, "exact", Lua(TRUE, {1, 2, 5}, {6, 7})), Pat("custom", 1, "exact", Lua(TRUE, {2}, {1}))>>,
  <<Pat("custom", 2, "exact", Lua(FALSE, {1}, {})), Pat("custom", 2, "unchanged", Lua(TRUE, {1}, {}))>>,
  \* floating point
  <<Float(2, "exact", 2, "rounded", 0), Float(2, "exact", 1, "truncated", 0)>>,
  <<Float(2, "exact", 1, "extreme", 2), Float(2, "unchanged", 0, "none", 0)>>,
  <<Float(1, "exact", -3, "rounded", 0), Float(1, "less", -3, "none", 0)>>,
  <<Float(2, "greater", 1, "none", 0), [Float(2, "less", 0, "none", 0) EXCEPT !.percent = <<50, 0>>]>>,
  <<Float(2, "exact", 2, "none", 0), Float(2, "between", 1, "none", 2)>>,
  \* integers at the ends of their types
  <<Cfg("all", 1, "exact", -1), Cfg("all", 1, "exact", -1)>>,
  <<Cfg("all", 1, "exact", 5), Cfg("word", 1, "exact", 5)>>,
  <<Cfg("word", 2, "exact", 7), Cfg("word", 2, "less", 0)>>,
  <<Cfg("byte", 1, "exact", 4), Cfg("byte", 1, "exact", -1), Cfg("byte", 1, "greater", -1)>>,
  <<Cfg("word", 1, "greater", 5), Cfg("word", 1, "greater", -4)>>}}
  \cup {[Letters EXCEPT !.scans = scans, !.chunk = 4] : scans \in {
  <<Pat("wide", 1, "exact", <<1, 0>>), Pat("wide", 1, "unchanged", <<1, 0>>)>>,
  <<[Pat("wide", 1, "exact", <<1, 0>>) EXCEPT !.fold = TRUE], Pat("wide", 1, "exact", <<2, 0>>)>>}}
  \cup {[Letters EXCEPT !.scans = <<Cfg("word", 2, "unknown", 0), Cfg("word", 2, cmp, -1)>>, !.left.poke = 1]
          : cmp \in {"increasedby", "decreasedby"}}
  \cup {[Letters EXCEPT !.scans = <<Cfg("byte", 2, "unknown", 0), [Cfg("byte", 2, cmp, 0) EXCEPT !.percent = <<100, -50>>]>>,
                        !.left.poke = 1] : cmp \in {"increased", "decreased", "greater", "between"}}

-----------------------------------------------------------------------------
(* Pointer scans: addresses 2 .. 11, in modules "a" at 2 and "b" at 8, say. *)
Ptr(v) == <<v % 3, v \div 3>>
PtrMem(vals) == Mem(<<Hole, Hole>> \o FlattenSeq([i \in DOMAIN vals |-> Ptr(vals[i])]))
PtrBase == [Base EXCEPT !.scans = <<>>, !.touched = {0, 1, 2}, !.mem = PtrMem(<<4, 6, 8, 4, 2>>),
                        !.regions = <<Region(2, 10, "private")>>]

Budget == [scan |-> 1, cancel |-> 0, close |-> 0, rescan |-> 0, file |-> 0]
PtrCfg == [target |-> 8, depth |-> 3, offset |-> 2, negative |-> FALSE, aligned |-> TRUE, static |-> TRUE, shards |-> 1,
           maxResults |-> 100, maxVisits |-> 100, maxEntries |-> 100]
PtrScen == [cfg |-> PtrCfg, modules |-> <<[name |-> 1, base |-> 2, size |-> 4], [name |-> 1, base |-> 8, size |-> 2]>>,
            width |-> TRUE, moved |-> {7, 8}, budget |-> Budget]

MCPtrScenarios == {
  \* cancelled, rescanned, saved, loaded, closed
  [PtrScen EXCEPT !.budget = [scan |-> 2, cancel |-> 1, close |-> 1, rescan |-> 1, file |-> 2]],
  \* bases anywhere, pointers anywhere, both signs
  [PtrScen EXCEPT !.cfg.static = FALSE, !.cfg.negative = TRUE, !.cfg.depth = 2, !.budget.rescan = 1],
  [PtrScen EXCEPT !.cfg.aligned = FALSE, !.cfg.offset = 1],
  \* two shards
  [PtrScen EXCEPT !.cfg.static = FALSE, !.cfg.shards = 2, !.cfg.depth = 2, !.budget.scan = 2,
                  !.modules = <<[name |-> 1, base |-> 2, size |-> 2], [name |-> 2, base |-> 4, size |-> 2]>>],
  \* each limit
  [PtrScen EXCEPT !.cfg.maxResults = 1, !.cfg.static = FALSE], [PtrScen EXCEPT !.cfg.maxVisits = 3],
  [PtrScen EXCEPT !.cfg.maxEntries = 2],
  \* a target whose pointers have no known width
  [PtrScen EXCEPT !.width = FALSE]}

\* Memory that stays, that changes, and with a page nobody touched.
MCAllScenarios == MCScenarios \cup MCSearches \cup {PtrBase, [PtrBase EXCEPT !.left.poke = 1],
                                   [PtrBase EXCEPT !.mem = PtrMem(<<4, 0, 0, 8, 2>>), !.touched = {0, 2}]}
=============================================================================
