--------------------------- MODULE MemoryScanner ---------------------------
(***************************************************************************)
(* The memory scanner (scanner/memory_scanner.cpp) in the sessions that    *)
(* use it: the main window's, which keeps the last result and one to undo  *)
(* to (gui/mainwindow.cpp), and the command line's, which keeps a result   *)
(* on disk for a later run (cli/main.cpp).                                 *)
(*                                                                         *)
(* A first scan filters and clips the target's regions, leaves out pages   *)
(* nobody touched when zeros cannot match, cuts what is left into chunks   *)
(* that overlap by a value less one byte, and gives each worker a run of   *)
(* chunks.  A next scan gives each worker a slice of the previous result,  *)
(* which it reads in batches.  Workers write files of their own, the       *)
(* result references them in order.  Meanwhile the target runs: it writes  *)
(* its memory, unmaps a page, exits or disconnects; a write to disk fails; *)
(* a worker throws; the scan is cancelled; this process is killed; another *)
(* instance, here or on a host that shares the directory, clears what it   *)
(* takes for stale.                                                        *)
(*                                                                         *)
(* A read of one chunk, or of one batch of values, is one step.            *)
(***************************************************************************)
EXTENDS ScanFiles

CONSTANTS
  Scenarios,  \* memory, scans, threads and faults of each instance checked
  Page,       \* bytes of a page
  PagemapMin, \* region size from which untouched pages are left out (256 KB)
  Batch,      \* records a next scan reads at a time (4096 in the code)
  MTFloor     \* records below which a next scan has one worker (65536)

ASSUME ScannerAssumption == {Page, PagemapMin, Batch, MTFloor} \subseteq Nat \ {0}

VARIABLES
  scen,     \* the instance
  mem,      \* the target's bytes, Hole where nothing is mapped
  touched,  \* its pages that are resident or swapped
  live,     \* whether the target still answers
  dirs,     \* the scan directories on disk
  nextDir,  \* the name the next one gets
  scan,     \* the scan in progress, or NoScan
  last,     \* the session's result (lastResult_), or NoResult
  undo,     \* the result Undo goes back to (undoResult_), or NoResult
  pruned,   \* whether this process has cleared stale directories yet
  todo,     \* the scans the session has still to run
  ghost,    \* memory when the scan began and the bytes written since
  left      \* faults and changes still allowed

vars == <<scen, mem, touched, live, dirs, nextDir, scan, last, undo, pruned, todo, ghost, left>>

NoScan == [on |-> FALSE]
NoResult == [dir |-> 0]

Addrs == DOMAIN mem
PageOf(a) == a \div Page

-----------------------------------------------------------------------------
(* The target's memory, as the scanner reads it *)

\* A read stops at the first byte it cannot reach; a lost target gives none.
read(base, size) ==
  LET mapped == {n \in 0 .. size : live /\ \A i \in 0 .. n - 1 : mem[base + i] # Hole}
  IN  [i \in 1 .. Max(mapped \cup {0}) |-> mem[base + i - 1]]

\* Many values at once: an address that faults is marked and left out, the
\* rest of the batch is read all the same.
readMany(addr, size) == live /\ \A i \in 0 .. size - 1 : addr + i \in Addrs /\ mem[addr + i] # Hole

\* The runs of pages in [base, base + size) that hold anything, clipped.
residentRanges(base, size) ==
  LET worth == {a \in base .. base + size - 1 : PageOf(a) \in touched}
      starts == {a \in worth : a - 1 \notin worth}
      End(a) == Min({e \in a .. base + size - 1 : e \in worth /\ e + 1 \notin worth})
  IN  [i \in 1 .. Cardinality(starts) |->
         LET a == SetToSortSeq(starts, <)[i] IN [base |-> a, size |-> End(a) - a + 1]]

-----------------------------------------------------------------------------
(* What a first scan covers *)

protAllowed(match, has) == match = "any" \/ (match = "yes") = has

memoryTypeAllowed(cfg, r) ==
  /\ r.type \in cfg.types
  /\ protAllowed(cfg.writable, r.write) /\ protAllowed(cfg.executable, r.exec)

\* Numbers are looked for on the alignment grid and two-byte text at even
\* addresses, so a start off the grid moves up.
grid(cfg) ==
  CASE cfg.kind \in {"byte", "word", "all", "float"} -> Max({1, cfg.align})
    [] cfg.kind = "wide" -> 2
    [] OTHER -> 1

clip(cfg, r) ==
  LET from == Max({r.base, cfg.lo})
      start == ((from + grid(cfg) - 1) \div grid(cfg)) * grid(cfg)
      end == Min({r.base + r.size - 1, cfg.hi})
  IN  [base |-> start, size |-> end - start + 1, type |-> r.type]

scanRegions(cfg) ==
  SelectSeq([i \in DOMAIN scen.regions |->
               IF memoryTypeAllowed(cfg, scen.regions[i]) THEN clip(cfg, scen.regions[i])
                                                          ELSE [base |-> 0, size |-> 0]],
            LAMBDA r : r.size > 0)

\* Untouched pages are left out when zeros do not match and no value tried
\* can reach across the end of a page.
skipNonResident(cfg) ==
  /\ stride(cfg) >= valueSizeForConfig(cfg)
  /\ Page % stride(cfg) = 0
  /\ ~zeroMatches(cfg)

Ranges(cfg, r) ==
  IF skipNonResident(cfg) /\ r.type = "private" /\ r.size >= PagemapMin THEN residentRanges(r.base, r.size)
  ELSE <<[base |-> r.base, size |-> r.size]>>

\* Mutant: chunks do not read past the starts they own.
chunksOf_NoOverlap(cfg, range) ==
  LET align == Max({1, cfg.align})
      ownedLen == Max({align, (scen.chunk \div align) * align})
      count == (range.size + ownedLen - 1) \div ownedLen
  IN  [i \in 1 .. count |->
         LET owned == Min({ownedLen, range.size - (i - 1) * ownedLen})
         IN  [base |-> range.base + (i - 1) * ownedLen, owned |-> owned, readLen |-> owned]]

\* A chunk owns the starts in it and reads far enough past them for a value
\* that begins at the last one; owned is a multiple of the alignment.
chunksOf(cfg, range) ==
  LET align == Max({1, cfg.align})
      ownedLen == Max({align, (scen.chunk \div align) * align})
      overlap == valueSizeForConfig(cfg) - 1
      count == (range.size + ownedLen - 1) \div ownedLen
  IN  [i \in 1 .. count |->
         LET offset == (i - 1) * ownedLen
             owned == Min({ownedLen, range.size - offset})
         IN  [base |-> range.base + offset, owned |-> owned,
              readLen |-> owned + Min({overlap, range.size - offset - owned})]]

chunks(cfg) ==
  FlattenSeq([i \in DOMAIN scanRegions(cfg) |->
    LET ranges == Ranges(cfg, scanRegions(cfg)[i])
    IN  FlattenSeq([j \in DOMAIN ranges |-> chunksOf(cfg, ranges[j])])])

\* Contiguous runs of chunks of about equal size, the last worker taking
\* what is left: for each worker its first chunk and the one after its last.
partition(list, threads) ==
  LET bytes == FoldLeft(LAMBDA a, c : a + c.owned, 0, list)
      per == Max({1, (bytes + threads - 1) \div threads})
      Take(parts, t) ==
        LET first == IF parts = <<>> THEN 1 ELSE parts[Len(parts)].end
            Owned(n) == FoldLeft(LAMBDA a, c : a + c.owned, 0, SubSeq(list, first, n - 1))
            stops == {n \in first .. Len(list) + 1 : n = Len(list) + 1 \/ (t < threads /\ Owned(n) >= per)}
        IN  Append(parts, [pos |-> first, end |-> Min(stops \cup {Len(list) + 1})])
  IN  FoldLeft(Take, <<>>, [t \in 1 .. threads |-> t])

\* Mutant: slices rounded down, so that the last records have no worker.
slices_Floor(total, threads) ==
  LET per == total \div threads
  IN  [t \in 1 .. threads |-> [pos |-> (t - 1) * per + 1, end |-> t * per + 1]]

\* Slices of the previous result's records, one per worker.
slices(total, threads) ==
  LET per == (total + threads - 1) \div threads
  IN  [t \in 1 .. threads |-> [pos |-> Min({total, (t - 1) * per}) + 1, end |-> Min({total, t * per}) + 1]]

-----------------------------------------------------------------------------
(* Scan directories *)

locked(d) ==
  \/ last.dir = d /\ last.lock
  \/ undo.dir = d /\ undo.lock
  \/ scan.on /\ scan.dir = d /\ scan.lock

\* Mutant: a directory whose lock a live result holds is not told apart.
stale_Unlocked(host) ==
  {d \in DOMAIN dirs :
     IF dirs[d].kept THEN dirs[d].old
     ELSE IF host = "ours" THEN dirs[d].dead ELSE dirs[d].old}

\* The directories a cleanup on this host, or on another one, removes: a kept
\* one when a week old, this host's when their process is gone, another
\* host's when nothing changed in them for a week; a lock protects the first
\* and the last.
stale(host) ==
  {d \in DOMAIN dirs :
     IF dirs[d].kept THEN dirs[d].old /\ ~locked(d)
     ELSE IF host = "ours" THEN dirs[d].dead
     ELSE dirs[d].old /\ ~locked(d)}

Without(ds) == [d \in DOMAIN dirs \ ds |-> dirs[d]]

\* A new directory; the first one a process makes clears the stale ones.
makeScanDir(ds) ==
  LET kept == IF pruned THEN dirs ELSE Without(stale("ours"))
      new == [shards |-> ds, kept |-> FALSE, old |-> FALSE, dead |-> FALSE]
  IN  [d \in DOMAIN kept \cup {nextDir} |-> IF d = nextDir THEN new ELSE kept[d]]

\* A result that is destroyed removes the directory it owns.
Destroyed(results) == {r.dir : r \in {x \in results : x.dir # 0 /\ x.own}}

\* A result in memory: its directory, its workers' counts, the size of a
\* value, whether it carries candidates of every type, whether it is marked
\* incomplete, whether it owns the directory and holds its lock.
Result(d, counts, size, all, err) ==
  [dir |-> d, counts |-> counts, size |-> size, all |-> all, err |-> err, own |-> TRUE, lock |-> TRUE]

Count(r) == Total(r.counts)

\* A result opened from a directory: what its files say, owning nothing.
Opened(r) ==
  LET loaded == loadShards(dirs[r.dir].shards, r.counts)
  IN  [r EXCEPT !.err = ~loaded.ok, !.size = loaded.size, !.own = FALSE, !.lock = FALSE]

\* The window takes a result: the one before it becomes the one to undo to,
\* and the one before that is destroyed.  The command line keeps a complete
\* result on disk and exits, which drops its lock; it deletes another.
Adopt(r, ds) ==
  IF ~scen.cli
    THEN /\ last' = r
         /\ undo' = last
         /\ dirs' = [d \in DOMAIN ds \ Destroyed({undo}) |-> ds[d]]
         /\ pruned' = TRUE
  ELSE /\ undo' = NoResult
       /\ pruned' = FALSE
       /\ IF r.err
            THEN last' = last /\ dirs' = [d \in DOMAIN ds \ {r.dir} |-> ds[d]]
            ELSE /\ last' = [r EXCEPT !.own = FALSE, !.lock = FALSE]
                 /\ dirs' = [ds EXCEPT ![r.dir].kept = TRUE, ![r.dir].dead = TRUE]

-----------------------------------------------------------------------------
Remembers == [mem |-> mem, dirty |-> {}]

Init ==
  /\ scen \in Scenarios
  /\ mem = scen.mem
  /\ touched = scen.touched
  /\ live = TRUE
  /\ dirs = <<>>
  /\ nextDir = 1
  /\ scan = NoScan
  /\ last = NoResult
  /\ undo = NoResult
  /\ pruned = FALSE
  /\ todo = scen.scans
  /\ ghost = Remembers
  /\ left = scen.left

-----------------------------------------------------------------------------
(* Starting a scan *)

Begun(kind, cfg, parts, list, prev, lock) ==
  [on |-> TRUE, kind |-> kind, cfg |-> cfg, dir |-> nextDir, chunks |-> list, prev |-> prev,
   from |-> IF kind = "next" THEN dirs[prev.dir].shards ELSE <<>>,
   lock |-> lock, failed |-> FALSE, cancelled |-> FALSE,
   workers |-> [t \in DOMAIN parts |->
     [pos |-> parts[t].pos, end |-> parts[t].end, state |-> "start", lua |-> "none",
      out |-> NewResult(kind = "next")]]]

\* A scan of nothing: an empty result, complete.
EmptyScan(cfg, storeFirst) ==
  /\ Adopt(Result(nextDir, <<0>>, 0, cfg.kind = "all", FALSE),
           makeScanDir(<<Files(NewResult(storeFirst))>>))
  /\ UNCHANGED scan

StartScan(next) ==
  /\ scan' = next
  /\ dirs' = makeScanDir(<<>>)
  /\ pruned' = TRUE
  /\ UNCHANGED <<last, undo>>

Idle == ~scan.on /\ todo # <<>>

\* What a scan refuses before it makes a directory.
firstScanAllowed(cfg) ==
  /\ parsed(cfg) /\ checkIntegerRange(cfg)
  /\ live
  /\ cfg.lo <= cfg.hi
  /\ cfg.cmp \in literalCompares
  /\ cfg.kind \in {"group", "custom"} => cfg.cmp \in {"exact", "unknown"}

nextScanAllowed(cfg, prev) ==
  /\ parsed(cfg) /\ checkIntegerRange(cfg)
  /\ ~prev.err
  /\ live
  /\ cfg.lo <= cfg.hi
  /\ cfg.kind \in {"group", "custom"} => cfg.cmp \in {"exact", "changed", "unchanged", "sameasfirst", "unknown"}
  /\ bytewise(cfg) => cfg.cmp \notin {"greater", "less", "between", "increasedby", "decreasedby"}
  /\ Count(prev) > 0 =>
       /\ prev.size = IF prev.all THEN 2 ELSE valueSizeForConfig(targetScanConfig(cfg))
       /\ cfg.kind = "all" => prev.all
       /\ prev.all => cfg.kind \in {"byte", "word", "float", "all"}

\* The result a next scan narrows: the window's own, or the directory the
\* command line was given.
Previous == IF scen.cli THEN Opened(last) ELSE last

HavePrevious == last.dir # 0 /\ (scen.cli => last.dir \in DOMAIN dirs)

Refuse ==
  /\ Idle
  /\ LET cfg == todo[1] IN
       IF HavePrevious THEN ~nextScanAllowed(cfg, Previous) ELSE ~firstScanAllowed(cfg)
  /\ todo' = Tail(todo)
  /\ UNCHANGED <<scen, mem, touched, live, dirs, nextDir, scan, last, undo, pruned, ghost, left>>

firstScan ==
  /\ Idle /\ ~HavePrevious
  /\ LET cfg == targetScanConfig(todo[1])
         list == chunks(cfg)
         threads == Min({IF scen.remote THEN 1 ELSE scen.threads, Max({1, Len(list)})})
     IN  /\ firstScanAllowed(todo[1])
         /\ IF list = <<>> THEN EmptyScan(cfg, FALSE)
            ELSE StartScan(Begun("first", cfg, partition(list, threads), list, NoResult, FALSE))
  /\ todo' = Tail(todo)
  /\ nextDir' = nextDir + 1
  /\ ghost' = Remembers
  /\ UNCHANGED <<scen, mem, touched, live, left>>

nextScan ==
  /\ Idle /\ HavePrevious
  /\ LET cfg == targetScanConfig(todo[1])
         total == Count(Previous)
         threads == IF total < MTFloor \/ scen.remote THEN 1
                    ELSE Max({1, Min({scen.threads, total \div Batch})})
     IN  /\ nextScanAllowed(todo[1], Previous)
         /\ IF total = 0 THEN EmptyScan(cfg, TRUE)
            ELSE StartScan(Begun("next", cfg, slices(total, threads), <<>>, Previous, threads = 1))
  /\ todo' = Tail(todo)
  /\ nextDir' = nextDir + 1
  /\ ghost' = Remembers
  /\ UNCHANGED <<scen, mem, touched, live, left>>

-----------------------------------------------------------------------------
(* The workers *)

Steps == {"no"} \cup (IF left.disk > 0 THEN {"off", "val", "fst", "frames"} ELSE {})
Spend(bad) == left' = IF bad = "no" THEN left ELSE [left EXCEPT !.disk = @ - 1]

WorkerOnly == UNCHANGED <<scen, mem, touched, live, dirs, nextDir, last, undo, pruned, todo, ghost>>

Running(t) == scan.on /\ t \in DOMAIN scan.workers /\ scan.workers[t].state = "run"
Stopped == scan.cancelled \/ scan.failed

\* A next scan's worker opens the previous files for itself.  Files that have
\* gone mark its part of the result; files once open stay readable.
OpenReader(t) ==
  /\ scan.on /\ t \in DOMAIN scan.workers /\ scan.workers[t].state = "start"
  /\ scan' = IF scan.kind = "next" /\ scan.prev.dir \notin DOMAIN dirs
               THEN [scan EXCEPT !.workers[t].out.err = TRUE, !.workers[t].state = "done"]
               ELSE [scan EXCEPT !.workers[t].state = "run"]
  /\ WorkerOnly /\ UNCHANGED left

\* One chunk: read, searched, its matches added.
ScanChunk(t) ==
  /\ Running(t) /\ scan.kind = "first" /\ ~Stopped
  /\ scan.workers[t].pos < scan.workers[t].end
  /\ LET w == scan.workers[t]
         c == scan.chunks[w.pos]
         bytes == read(c.base, c.readLen)
         found == scanRegion(scan.cfg, bytes, c.base, Min({Len(bytes), c.owned}), w.lua)
     IN  \E bad \in Steps :
           /\ scan' = [scan EXCEPT !.workers[t].pos = @ + 1,
                                   !.workers[t].lua = IF Formula(scan.cfg) THEN scanCustom(scan.cfg, bytes, @).state ELSE @,
                                   !.workers[t].out = addResults(@, found, bad)]
           /\ Spend(bad)
  /\ WorkerOnly

\* What a next scan makes of one record: the types that fit the range and can
\* be read now (a wide read that fails leaves the narrower ones), compared; a
\* formula goes on with the worker's Lua state.
Narrowed(cfg, rec, all, lua) ==
  LET size == valueSizeForConfig(cfg)
      asked == IF cfg.kind = "all" THEN rec.types
               ELSE IF all /\ size \notin rec.types THEN {} ELSE {size}
      fits == {w \in asked : rec.addr >= cfg.lo /\ rec.addr + w - 1 <= cfg.hi}
      readable == {w \in fits : readMany(rec.addr, w)}
      cur == Padded(read(rec.addr, Max(readable \cup {0})), 0, size)
      tried == evalFormula(cfg.pat, lua, readScanScalar(cur, 2))
      kept == IF readable = {} THEN {}
              ELSE IF Formula(cfg) THEN (IF tried.match THEN readable ELSE {})
              ELSE nextScanCompare(cfg, readable, cur, rec.val, rec.first)
  IN  [lua |-> IF Formula(cfg) /\ readable # {} THEN tried.state ELSE lua,
       rec |-> [addr |-> rec.addr, val |-> cur, first |-> SubSeq(rec.first, 1, size), types |-> kept]]

NarrowedAll(cfg, records, all, lua) ==
  LET One(acc, rec) ==
        LET n == Narrowed(cfg, rec, all, acc.lua)
        IN  [lua |-> n.lua, kept |-> IF n.rec.types = {} THEN acc.kept ELSE Append(acc.kept, n.rec)]
  IN  FoldLeft(One, [lua |-> lua, kept |-> <<>>], records)

\* One batch of the previous records.
ScanBatch(t) ==
  /\ Running(t) /\ scan.kind = "next" /\ ~Stopped
  /\ scan.workers[t].pos < scan.workers[t].end
  /\ LET w == scan.workers[t]
         n == Min({Batch, w.end - w.pos})
         records == SubSeq(ShardReader(scan.from), w.pos, w.pos + n - 1)
         narrowed == NarrowedAll(scan.cfg, records, scan.prev.all, w.lua)
     IN  \E bad \in Steps :
           /\ scan' = [scan EXCEPT !.workers[t].pos = @ + n,
                                   !.workers[t].lua = narrowed.lua,
                                   !.workers[t].out = addResults(@, narrowed.kept, bad)]
           /\ Spend(bad)
  /\ WorkerOnly

\* A worker at the end of its part, or stopped, writes what it holds.
FinishWorker(t) ==
  /\ Running(t)
  /\ scan.workers[t].pos = scan.workers[t].end \/ Stopped
  /\ \E bad \in Steps :
       /\ scan' = [scan EXCEPT !.workers[t].state = "done", !.workers[t].out = finalize(@, bad)]
       /\ Spend(bad)
  /\ WorkerOnly

\* A worker throws (no memory left, say): the others stop at their next step.
ThrowWorker(t) ==
  /\ Running(t) /\ left.throw > 0
  /\ scan' = [scan EXCEPT !.workers[t].state = "threw", !.failed = TRUE]
  /\ left' = [left EXCEPT !.throw = @ - 1]
  /\ WorkerOnly

Joined == scan.on /\ \A t \in DOMAIN scan.workers : scan.workers[t].state \in {"done", "threw"}

\* Mutant: a failed scan leaves its partial files behind.
ScanFails_Left ==
  /\ Joined
  /\ scan.failed \/ (scen.remote /\ ~live)
  /\ scan' = NoScan
  /\ pruned' = (pruned /\ ~scen.cli)
  /\ UNCHANGED <<scen, mem, touched, live, dirs, nextDir, last, undo, todo, ghost, left>>

\* Every worker has joined and one threw, or a remote target was lost on the
\* way: the scan fails and its directory goes.
ScanFails ==
  /\ Joined
  /\ scan.failed \/ (scen.remote /\ ~live)
  /\ scan' = NoScan
  /\ dirs' = Without({scan.dir})
  /\ pruned' = (pruned /\ ~scen.cli)
  /\ UNCHANGED <<scen, mem, touched, live, nextDir, last, undo, todo, ghost, left>>

\* The workers' files become the result, in worker order: the manifest is
\* written and loaded again, and a worker's error marks the whole.  A next
\* scan with one worker is its own result.
assembleShardedResult ==
  /\ Joined
  /\ ~scan.failed /\ (scen.remote => live)
  /\ LET outs == [t \in DOMAIN scan.workers |-> scan.workers[t].out]
         shards == [t \in DOMAIN outs |-> Files(outs[t])]
         counts == [t \in DOMAIN outs |-> outs[t].count]
         loaded == loadShards(shards, counts)
         single == scan.kind = "next" /\ Len(outs) = 1
         marked == \E t \in DOMAIN outs : outs[t].err
         err == marked \/ (~single /\ ~loaded.ok)
     IN  /\ Adopt(Result(scan.dir, IF single \/ loaded.ok THEN counts ELSE <<>>,
                         IF single THEN (IF counts[1] = 0 THEN 0 ELSE valueSizeForConfig(scan.cfg)) ELSE loaded.size,
                         scan.cfg.kind = "all", err),
                  [dirs EXCEPT ![scan.dir].shards = shards])
         /\ scan' = NoScan
  /\ UNCHANGED <<scen, mem, touched, live, nextDir, todo, ghost, left>>

-----------------------------------------------------------------------------
(* The window's other operations on its results *)

Ui == ~scan.on /\ ~scen.cli /\ left.ui > 0 /\ left' = [left EXCEPT !.ui = @ - 1]

onNewScan ==
  /\ Ui /\ last.dir # 0
  /\ last' = NoResult /\ undo' = NoResult
  /\ dirs' = Without(Destroyed({last, undo}))
  /\ UNCHANGED <<scen, mem, touched, live, nextDir, scan, pruned, todo, ghost>>

onUndoScan ==
  /\ Ui /\ undo.dir # 0
  /\ last' = undo /\ undo' = NoResult
  /\ dirs' = Without(Destroyed({last}))
  /\ UNCHANGED <<scen, mem, touched, live, nextDir, scan, pruned, todo, ghost>>

\* Rows removed from the list: the others are copied, with their first
\* values, into a result of their own.
pruneScanResult ==
  /\ Ui /\ last.dir # 0 /\ ~last.err /\ Count(last) > 0
  /\ LET records == ShardReader(dirs[last.dir].shards) IN
       \E row \in DOMAIN records :
         LET out == finalize(addResults(NewResult(TRUE), RemoveAt(records, row), "no"), "no")
         IN  Adopt(Result(nextDir, <<out.count>>, IF out.count = 0 THEN 0 ELSE last.size, last.all, out.err),
                   makeScanDir(<<Files(out)>>))
  /\ nextDir' = nextDir + 1
  /\ UNCHANGED <<scen, mem, touched, live, scan, todo, ghost>>

-----------------------------------------------------------------------------
(* The world around the scanner *)

Poke(a, v) ==
  /\ left.poke > 0 /\ mem[a] \notin {Hole, v}
  /\ mem' = [mem EXCEPT ![a] = v]
  /\ touched' = touched \cup {PageOf(a)}
  /\ ghost' = [ghost EXCEPT !.dirty = @ \cup {a}]
  /\ left' = [left EXCEPT !.poke = @ - 1]
  /\ UNCHANGED <<scen, live, dirs, nextDir, scan, last, undo, pruned, todo>>

Unmap(page) ==
  /\ left.unmap > 0 /\ \E a \in Addrs : PageOf(a) = page /\ mem[a] # Hole
  /\ mem' = [a \in Addrs |-> IF PageOf(a) = page THEN Hole ELSE mem[a]]
  /\ touched' = touched \ {page}
  /\ ghost' = [ghost EXCEPT !.dirty = @ \cup {a \in Addrs : PageOf(a) = page}]
  /\ left' = [left EXCEPT !.unmap = @ - 1]
  /\ UNCHANGED <<scen, live, dirs, nextDir, scan, last, undo, pruned, todo>>

TargetLost ==
  /\ live /\ left.lost > 0
  /\ live' = FALSE
  /\ left' = [left EXCEPT !.lost = @ - 1]
  /\ UNCHANGED <<scen, mem, touched, dirs, nextDir, scan, last, undo, pruned, todo, ghost>>

cancel ==
  /\ scan.on /\ left.cancel > 0 /\ ~scan.cancelled
  /\ scan' = [scan EXCEPT !.cancelled = TRUE]
  /\ left' = [left EXCEPT !.cancel = @ - 1]
  /\ WorkerOnly

\* This process is killed: its directories stay, its locks go.
Killed ==
  /\ left.kill > 0
  /\ scan' = NoScan /\ pruned' = FALSE /\ undo' = NoResult
  /\ last' = IF scen.cli THEN last ELSE NoResult
  /\ dirs' = [d \in DOMAIN dirs |-> [dirs[d] EXCEPT !.dead = TRUE]]
  /\ left' = [left EXCEPT !.kill = @ - 1]
  /\ UNCHANGED <<scen, mem, touched, live, nextDir, todo, ghost>>

\* A week passes with no scan running.
Week ==
  /\ ~scan.on /\ left.week > 0 /\ DOMAIN dirs # {}
  /\ dirs' = [d \in DOMAIN dirs |-> [dirs[d] EXCEPT !.old = TRUE]]
  /\ left' = [left EXCEPT !.week = @ - 1]
  /\ UNCHANGED <<scen, mem, touched, live, nextDir, scan, last, undo, pruned, todo, ghost>>

\* Another instance starts its first scan, on this host or another.
pruneStaleScanDirectories(host) ==
  /\ left.other > 0 /\ stale(host) # {}
  /\ dirs' = Without(stale(host))
  /\ left' = [left EXCEPT !.other = @ - 1]
  /\ UNCHANGED <<scen, mem, touched, live, nextDir, scan, last, undo, pruned, todo, ghost>>

\* The session is over.
Over == ~scan.on /\ todo = <<>> /\ UNCHANGED vars

Next ==
  \/ Refuse \/ firstScan \/ nextScan
  \/ \E t \in 1 .. scen.threads :
       OpenReader(t) \/ ScanChunk(t) \/ ScanBatch(t) \/ FinishWorker(t) \/ ThrowWorker(t)
  \/ ScanFails \/ assembleShardedResult
  \/ onNewScan \/ onUndoScan \/ pruneScanResult
  \/ \E a \in Addrs, v \in 0 .. Radix - 1 : Poke(a, v)
  \/ \E p \in {PageOf(a) : a \in Addrs} : Unmap(p)
  \/ TargetLost \/ cancel \/ Killed \/ Week
  \/ \E host \in {"ours", "other"} : pruneStaleScanDirectories(host)
  \/ Over

Spec == Init /\ [][Next]_vars

-----------------------------------------------------------------------------
(* Properties *)

Ascending(records) == \A i, j \in DOMAIN records : i < j => records[i].addr < records[j].addr

\* The types that match at an address of region r, by the definition: every
\* width that fits region and range, read from the memory m.
Reference(cfg, r, a, m) ==
  {w \in allCandidateWidths(cfg) :
     /\ a + w - 1 <= Min({r.base + r.size - 1, cfg.hi})
     /\ literalMatch(cfg, [i \in 1 .. w |-> m[a + i - 1]], w)}

\* The addresses of region r a first scan tries.
Tried(cfg, r) ==
  LET start == clip(cfg, r).base
  IN  {a \in start .. Min({r.base + r.size - 1, cfg.hi}) : (a - start) % step(cfg) = 0}

Window(cfg, r, a) == a .. Min({r.base + r.size - 1, cfg.hi, a + valueSizeForConfig(cfg) - 1})

\* The step in which a scan, not cancelled, hands over an unmarked result.
Hands(kind) == /\ scan.on /\ scan.kind = kind /\ ~scan.cancelled
               /\ ~scan'.on /\ last'.dir = scan.dir /\ ~last'.err

\* Wherever the target left its memory alone while a first scan ran, a scan
\* that is neither cancelled nor marked holds an address exactly when it
\* matches: none is lost at the end of a chunk, of a worker's run, of a page
\* that was left out or of a frame, none is there twice, none shifts off the
\* grid, and each has the value and the types memory had.  (A page unmapped
\* while it is read hides the rest of its chunk and a local target that exits
\* reads as nothing, so those are not judged.)
FirstExact ==
  (Hands("first") /\ live) =>
       LET cfg == scan.cfg
           records == ShardReader(dirs'[last'.dir].shards)
           Allowed == {r \in Range(scen.regions) : memoryTypeAllowed(cfg, r)}
           At(a) == {n \in DOMAIN records : records[n].addr = a}
       IN  /\ Ascending(records)
           /\ \A n \in DOMAIN records :
                \E r \in Allowed : records[n].addr \in Tried(cfg, r)
           /\ \A r \in {x \in Allowed : \A a \in x.base .. x.base + x.size - 1 : mem[a] # Hole} :
                \A a \in {x \in Tried(cfg, r) : Window(cfg, r, x) \cap ghost.dirty = {}} :
                  LET types == Reference(cfg, r, a, mem) IN
                    IF types = {} THEN At(a) = {}
                    ELSE \E n \in At(a) : /\ records[n].types = types
                                          /\ \A x \in 1 .. Max(types) : records[n].val[x] = mem[a + x - 1]

\* A next scan that is neither cancelled nor marked keeps exactly the records
\* of the previous result whose memory, if left alone while it ran, still
\* compares: none is skipped or repeated where a batch, a worker's slice or a
\* shard ends, and each keeps the first scan's value however often narrowed.
NextExact ==
  (Hands("next") /\ live) =>
       LET cfg == scan.cfg
           old == ShardReader(scan.from)
           new == ShardReader(dirs'[last'.dir].shards)
           Of(a) == {n \in DOMAIN new : new[n].addr = a}
       IN  /\ Ascending(new)
           /\ \A n \in DOMAIN new : \E o \in DOMAIN old :
                /\ old[o].addr = new[n].addr
                /\ new[n].first = SubSeq(old[o].first, 1, valueSizeForConfig(cfg))
           /\ \A o \in DOMAIN old :
                LET rec == old[o]
                    window == {rec.addr + i - 1 : i \in 1 .. valueSizeForConfig(cfg)} \cap Addrs
                    asked == IF cfg.kind = "all" THEN rec.types ELSE {valueSizeForConfig(cfg)} \cap rec.types
                    types == {w \in asked :
                                /\ rec.addr >= cfg.lo /\ rec.addr + w - 1 <= cfg.hi
                                /\ \A i \in 0 .. w - 1 : mem[rec.addr + i] # Hole
                                /\ w \in nextScanCompare(cfg, {w}, [i \in 1 .. w |-> mem[rec.addr + i - 1]],
                                                          SubSeq(rec.val, 1, w), SubSeq(rec.first, 1, w))}
                IN  window \cap ghost.dirty = {} =>
                      IF types = {} THEN Of(rec.addr) = {}
                      ELSE \E n \in Of(rec.addr) :
                             /\ new[n].types = types
                             /\ \A x \in 1 .. Max(types) : new[n].val[x] = mem[rec.addr + x - 1]

Results == {r \in {last, undo} : r.dir # 0}

\* A result that is not marked reads back whole: as many records as it
\* counts, in ascending order, every value of the result's size.  A disk that
\* filled up under any worker, in any of its files, is never a shorter or a
\* misaligned result that looks complete.
WholeOrMarked ==
  \A r \in Results :
    (~r.err /\ r.dir \in DOMAIN dirs) =>
      LET shards == dirs[r.dir].shards IN
        /\ \A i \in DOMAIN shards : /\ Len(shards[i].off) = Len(shards[i].val)
                                    /\ shards[i].storeFirst => Len(shards[i].fst) = Len(shards[i].off)
        /\ Len(ShardReader(shards)) = Count(r)
        /\ Ascending(ShardReader(shards))
        /\ \A rec \in Range(ShardReader(shards)) : Len(rec.val) = r.size

\* The directory of every result the window holds, and of a scan under way,
\* is there: no cleanup of this instance or another takes it.
LiveDirsKept ==
  /\ \A r \in Results : r.own => r.dir \in DOMAIN dirs
  /\ scan.on => scan.dir \in DOMAIN dirs

\* Every directory is somebody's: a result's, the scan's, kept on purpose, or
\* left by a process that was killed, and then only until the next process
\* of this host makes its first scan.
NoDirLeaks ==
  \A d \in DOMAIN dirs :
    \/ \E r \in Results : r.dir = d
    \/ scan.on /\ scan.dir = d
    \/ dirs[d].kept
    \/ dirs[d].dead /\ ~pruned

\* Every result directory is there as long as somebody reads it, and no longer.
DirsAccounted == LiveDirsKept /\ NoDirLeaks
=============================================================================
