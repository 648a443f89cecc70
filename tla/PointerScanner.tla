--------------------------- MODULE PointerScanner ---------------------------
(***************************************************************************)
(* The pointer scanner (scanner/pointer_scanner.cpp) and the window that   *)
(* runs it (gui/pointerscan_dialog.cpp), on the memory of MemoryScanner.   *)
(* A worker reads all readable memory window by window into a map of       *)
(* pointer-like values while the target runs, then searches the map back   *)
(* from the target address, one length of paths after the other.  The user *)
(* cancels, rescans the paths for another address, saves, loads and closes *)
(* the window at any time.                                                 *)
(*                                                                         *)
(* A pointer has two bytes.  A path is its module (0: an absolute base),   *)
(* the offset of its first pointer and the offsets added after each        *)
(* pointer read.                                                           *)
(***************************************************************************)
EXTENDS MemoryScanner

CONSTANTS
  PtrScenarios,  \* what the pointer scans of each instance look for
  ReadWindow,    \* bytes read at a time (64 MB in the code)
  CheckEvery     \* candidates between two looks at the cancel flag (1024)

ASSUME PointerAssumption == {ReadWindow, CheckEvery} \subseteq Nat \ {0}

VARIABLE ps   \* the window and its worker

PtrSize == 2
NoWork == [phase |-> "none"]
NoPtr == [cfg |-> [shards |-> 1], modules |-> <<>>]

\* Job::None, the scanner's flags and the window's two lists of paths.
NewDialog(s) ==
  [scen |-> s, open |-> TRUE, job |-> "none", work |-> NoWork, results |-> <<>>, done |-> FALSE, failed |-> FALSE,
   cancelled |-> FALSE, limit |-> {}, shard |-> 0, to |-> 0, file |-> <<>>, asked |-> FALSE]

PtrInit == \E s \in IF scen.scans = <<>> THEN PtrScenarios ELSE {NoPtr} : ps = NewDialog(s)

cfgNow == ps.scen.cfg

-----------------------------------------------------------------------------
(* The map of pointers *)

ReadableSpans == UNION {r.base .. r.base + r.size - 1 : r \in Range(scen.regions)}
PtrStep == IF cfgNow.aligned THEN PtrSize ELSE 1

\* What is read: whole regions, or their touched pages when an aligned slot of
\* zeros is no pointer.
readSpans ==
  LET skip == cfgNow.aligned /\ 0 \notin ReadableSpans
      Of(r) == IF skip /\ r.type = "private" /\ r.size >= PagemapMin
               THEN [i \in DOMAIN residentRanges(r.base, r.size) |->
                       LET q == residentRanges(r.base, r.size)[i]
                           up == (PtrStep - ((q.base - r.base) % PtrStep)) % PtrStep
                       IN  [base |-> q.base + up, size |-> q.size - up]]
               ELSE <<[base |-> r.base, size |-> r.size]>>
  IN  FlattenSeq([i \in DOMAIN scen.regions |-> SelectSeq(Of(scen.regions[i]), LAMBDA q : q.size > 0)])

\* Mutant: windows without the overlap.
readWindows_Apart ==
  LET owned == Max({PtrStep, (ReadWindow \div PtrStep) * PtrStep})
      Of(q) == [i \in 1 .. (q.size + owned - 1) \div owned |->
                  [base |-> q.base + (i - 1) * owned, owned |-> owned, want |-> Min({owned, q.size - (i - 1) * owned})]]
  IN  FlattenSeq([i \in DOMAIN readSpans |-> Of(readSpans[i])])

\* Each window reads a pointer less one byte past the starts it owns.
readWindows ==
  LET owned == Max({PtrStep, (ReadWindow \div PtrStep) * PtrStep})
      Of(q) == [i \in 1 .. (q.size + owned - 1) \div owned |->
                  [base |-> q.base + (i - 1) * owned, owned |-> owned,
                   want |-> Min({owned + PtrSize - 1, q.size - (i - 1) * owned})]]
  IN  FlattenSeq([i \in DOMAIN readSpans |-> Of(readSpans[i])])

\* The pointer-like values of one window, in order of their places.
candidates(win) ==
  LET bytes == read(win.base, win.want)
      n == IF Len(bytes) < PtrSize THEN 0 ELSE Min({win.owned, Len(bytes) - PtrSize + 1})
      At(o) == readScanScalar(<<bytes[o + 1], bytes[o + 2]>>, 2)
      offsets == {o \in 0 .. n - 1 : o % PtrStep = 0 /\ At(o) \in ReadableSpans}
  IN  [i \in 1 .. Cardinality(offsets) |->
         LET o == SetToSortSeq(offsets, <)[i] IN [to |-> At(o), at |-> win.base + o]]

setEntries(entries) == SortSeq(entries, LAMBDA a, b : a.to < b.to)

\* The module a base is named after: the first that holds it, of those whose
\* name no earlier one has.
nameable == {i \in DOMAIN ps.scen.modules :
               \A j \in 1 .. i - 1 : ps.scen.modules[j].name # ps.scen.modules[i].name}
holding(addr) == {i \in nameable : addr - ps.scen.modules[i].base \in 0 .. ps.scen.modules[i].size - 1}

PtrNow(addr) == LET b == IF {addr, addr + 1} \subseteq Addrs THEN read(addr, PtrSize) ELSE <<>>
                IN  IF Len(b) = PtrSize THEN readScanScalar(b, 2) ELSE 0

\* Follows a path in the target; 0 when a read fails or a pointer is null.
dereference(path) ==
  LET named == {i \in DOMAIN ps.scen.modules : ps.scen.modules[i].name = path.module}
      base == IF path.module = 0 THEN 0 ELSE ps.scen.modules[Min(named)].base
      Step(addr, off) == IF addr <= 0 \/ PtrNow(addr) = 0 THEN -1 ELSE PtrNow(addr) + off
  IN  IF path.module # 0 /\ named = {} THEN 0 ELSE Max({0, FoldLeft(Step, base + path.base, path.offsets)})

-----------------------------------------------------------------------------
(* The window's buttons *)

PtrStays == UNCHANGED <<scen, mem, touched, live, dirs, nextDir, scan, last, undo, pruned, todo>>
PtrOnly == PtrStays /\ UNCHANGED <<ghost, left>>
Use(k) == ps.scen.budget[k] > 0
Spent(k) == [ps EXCEPT !.scen.budget[k] = @ - 1]
IsOpen == scen.scans = <<>> /\ ps.open

startJob(p, job, work) == [p EXCEPT !.job = job, !.work = work, !.done = FALSE, !.failed = FALSE]

\* A new scanner, then the worker; the scan of a shard follows the one before.
onScan ==
  /\ IsOpen /\ ps.job = "none" /\ Use("scan")
  /\ ps' = startJob([Spent("scan") EXCEPT !.cancelled = FALSE, !.asked = FALSE, !.limit = {}], "scan", [phase |-> "start"])
  /\ PtrOnly

\* The same button while a job runs, and the window's destructor.
cancelJob(p) == [p EXCEPT !.cancelled = TRUE, !.asked = @ \/ ~p.done]

onCancel ==
  /\ IsOpen /\ ps.job # "none" /\ ~ps.cancelled /\ Use("cancel")
  /\ ps' = cancelJob(Spent("cancel"))
  /\ PtrOnly

closeDialog ==
  /\ IsOpen /\ Use("close")
  /\ ps' = [IF ps.job = "none" THEN Spent("close") ELSE cancelJob(Spent("close")) EXCEPT !.open = FALSE]
  /\ PtrOnly

\* The destructor joins the worker.
destroyDialog ==
  /\ ~ps.open /\ ps.job # "none" /\ ps.done
  /\ ps' = [ps EXCEPT !.job = "none", !.work = NoWork]
  /\ PtrOnly

rescanTo ==
  /\ IsOpen /\ ps.job = "none" /\ ps.results # <<>> /\ Use("rescan")
  /\ \E to \in ps.scen.moved :
       ps' = [startJob([Spent("rescan") EXCEPT !.cancelled = FALSE, !.asked = FALSE], "rescan",
                       [phase |-> "walk", paths |-> ps.results, next |-> 1, kept |-> <<>>]) EXCEPT !.to = to]
  /\ ghost' = Remembers
  /\ PtrStays /\ UNCHANGED left

\* A save that fails leaves a file that does not load.
onSave ==
  /\ IsOpen /\ ps.job = "none" /\ ps.results # <<>> /\ Use("file")
  /\ \E f \in {ps.results, <<>>} : ps' = [Spent("file") EXCEPT !.file = f]
  /\ PtrOnly

onLoad ==
  /\ IsOpen /\ ps.job = "none" /\ Use("file") /\ ps.file # <<>>
  /\ ps' = [Spent("file") EXCEPT !.results = ps.file]
  /\ PtrOnly

-----------------------------------------------------------------------------
(* The worker *)

\* Mutant: scan() begins with a fresh cancel flag.
scanStart_Clears(p) == [p EXCEPT !.limit = {}, !.cancelled = FALSE]

\* A cancel that came before the worker ran stays.
scanStart(p) == [p EXCEPT !.limit = {}]

Ended(p) == [p EXCEPT !.done = TRUE, !.work.phase = "done"]

scanBegins ==
  /\ ps.work.phase = "start"
  /\ ps' = LET p == scanStart(ps) IN
           IF ~ps.scen.width THEN Ended([p EXCEPT !.failed = TRUE, !.work = [phase |-> "", found |-> <<>>]])
           ELSE [p EXCEPT !.work = [phase |-> "map", windows |-> readWindows, next |-> 1, entries |-> <<>>, full |-> FALSE]]
  /\ ghost' = IF ps.shard = 0 THEN Remembers ELSE ghost
  /\ PtrStays /\ UNCHANGED left

buildPointerMap ==
  /\ ps.work.phase = "map"
  /\ LET w == ps.work
         new == IF w.next <= Len(w.windows) THEN candidates(w.windows[w.next]) ELSE <<>>
         room == Min({Len(new), cfgNow.maxEntries - Len(w.entries)})
     IN ps' =
        IF ps.cancelled THEN Ended([ps EXCEPT !.work = [phase |-> "", found |-> <<>>]])
        ELSE IF w.full \/ w.next > Len(w.windows)
        THEN [ps EXCEPT !.limit = IF w.full THEN {"MapEntries"} ELSE {},
                        !.work = [phase |-> "search", entries |-> setEntries(w.entries), pass |-> 0, stack |-> <<>>,
                                  chain |-> <<>>, ancestors |-> <<>>, visits |-> 0, deeper |-> TRUE, found |-> <<>>]]
        ELSE [ps EXCEPT !.work.next = @ + 1, !.work.entries = @ \o SubSeq(new, 1, room),
                        !.work.full = room < Len(new)]
  /\ PtrOnly

\* Mutant: only pointers at or below the address, negative offsets or not.
window_Below(entries, addr) ==
  {i \in DOMAIN entries : entries[i].to \in addr - cfgNow.offset .. addr}

\* The entries that point within the largest offset below the address, or
\* above it with negative offsets.
window(entries, addr) ==
  {i \in DOMAIN entries :
     entries[i].to \in addr - cfgNow.offset .. addr + (IF cfgNow.negative THEN cfgNow.offset ELSE 0)}

FrameAt(entries, addr) == [addr |-> addr, left |-> SetToSortSeq(window(entries, addr), <)]

\* Mutant: bases outside the modules belong to no shard.
ownShard_Modules(addr) ==
  LET h == holding(addr) IN h # {} /\ (Min(h) - 1) % cfgNow.shards = ps.shard

\* Modules are dealt to the shards by index, other bases by page.
ownShard(addr) ==
  LET h == holding(addr) IN
  IF h = {} THEN PageOf(addr) % cfgNow.shards = ps.shard ELSE (Min(h) - 1) % cfgNow.shards = ps.shard

PathOf(addr, offsets) ==
  LET h == holding(addr) IN
  IF h = {} THEN [module |-> 0, base |-> addr, offsets |-> offsets]
  ELSE LET m == ps.scen.modules[Min(h)] IN [module |-> m.name, base |-> addr - m.base, offsets |-> offsets]

Recorded(addr) == (holding(addr) # {} \/ ~cfgNow.static) /\ ownShard(addr)

\* One step of the search: the next pass, back out of a slot, or look at the
\* next candidate: record the path that ends there or walk on from it.
searchStep ==
  /\ ps.work.phase = "search"
  /\ LET w == ps.work
         finish(p) == Ended(IF p.cancelled THEN [p EXCEPT !.work.found = <<>>] ELSE p)
     IN
     IF w.stack = <<>> THEN
          ps' = IF ~w.deeper \/ w.pass = cfgNow.depth \/ ps.cancelled THEN finish(ps)
                ELSE [ps EXCEPT !.work.pass = @ + 1, !.work.deeper = FALSE, !.work.chain = <<>>,
                                !.work.ancestors = <<cfgNow.target>>, !.work.stack = <<FrameAt(w.entries, cfgNow.target)>>]
     ELSE IF Last(w.stack).left = <<>> THEN
          ps' = [ps EXCEPT !.work.stack = Front(@),
                           !.work.chain = IF Len(w.stack) > 1 THEN Front(@) ELSE @,
                           !.work.ancestors = IF Len(w.stack) > 1 THEN Front(@) ELSE @]
     ELSE IF w.visits >= cfgNow.maxVisits THEN ps' = finish([ps EXCEPT !.limit = @ \cup {"Work"}])
     ELSE IF (w.visits + 1) % CheckEvery = 0 /\ ps.cancelled THEN ps' = finish(ps)
     ELSE LET f == Last(w.stack)
              e == w.entries[Head(f.left)]
              offset == f.addr - e.to
              fresh == e.at \notin Range(w.ancestors)
              path == PathOf(e.at, <<offset>> \o Reverse(w.chain))
              p == [ps EXCEPT !.work.visits = @ + 1, !.work.stack[Len(w.stack)].left = Tail(@)]
          IN ps' =
             IF Len(w.stack) = w.pass
             THEN IF ~Recorded(e.at) THEN [p EXCEPT !.work.deeper = @ \/ fresh]
                  ELSE IF Len(w.found) >= cfgNow.maxResults THEN finish([p EXCEPT !.limit = @ \cup {"Results"}])
                  ELSE [p EXCEPT !.work.found = Append(@, path), !.work.deeper = @ \/ fresh]
             ELSE IF fresh
             THEN [p EXCEPT !.work.chain = Append(@, offset), !.work.ancestors = Append(@, e.at),
                            !.work.stack = Append(@, FrameAt(w.entries, e.at))]
             ELSE p
  /\ PtrOnly

\* Mutant: a path that no longer resolves is kept.
keeps_Broken(path, to) == dereference(path) \in {0, to}
keeps(path, to) == dereference(path) = to

\* One path of a rescan.
rescanStep ==
  /\ ps.work.phase = "walk"
  /\ LET w == ps.work IN
     ps' = IF w.next > Len(w.paths) \/ ((w.next - 1) % CheckEvery = 0 /\ ps.cancelled)
           THEN Ended([ps EXCEPT !.work.kept = IF ps.cancelled THEN <<>> ELSE @])
           ELSE [ps EXCEPT !.work.next = @ + 1,
                           !.work.kept = IF keeps(w.paths[w.next], ps.to) THEN Append(@, w.paths[w.next]) ELSE @]
  /\ PtrOnly

\* The results of the shards are merged, each path once.
mergePointerPaths(a, b) == a \o SelectSeq(b, LAMBDA p : p \notin Range(a))

\* Mutant: a cancelled rescan takes what the worker left.
finishRescan_Takes(p) == [p EXCEPT !.results = p.work.kept]

\* A rescan that was cancelled leaves the paths as they were.
finishRescan(p) == IF p.failed \/ p.cancelled THEN p ELSE [p EXCEPT !.results = p.work.kept]

\* The poll finds the worker done.
finishJob ==
  /\ IsOpen /\ ps.job # "none" /\ ps.done
  /\ LET p == IF ps.job = "rescan" THEN finishRescan(ps)
              ELSE [ps EXCEPT !.results = IF ps.shard = 0 THEN ps.work.found ELSE mergePointerPaths(@, ps.work.found),
                              !.shard = (@ + 1) % cfgNow.shards]
     IN  ps' = [p EXCEPT !.job = "none", !.work = NoWork]
  /\ PtrOnly

PtrNext ==
  \/ onScan \/ onCancel \/ closeDialog \/ destroyDialog \/ rescanTo \/ onSave \/ onLoad
  \/ scanBegins \/ buildPointerMap \/ searchStep \/ rescanStep \/ finishJob

SessionInit == Init /\ PtrInit
SessionNext == (Next /\ UNCHANGED ps) \/ PtrNext
SessionSpec == SessionInit /\ [][SessionNext]_<<vars, ps>>

-----------------------------------------------------------------------------
(* Properties *)

\* The slots that hold a pointer in the memory m.
Slots == {a \in ReadableSpans :
            /\ a + 1 \in ReadableSpans /\ {mem[a], mem[a + 1]} \cap {Hole} = {}
            /\ \E r \in Range(scen.regions) : /\ a >= r.base /\ a + 1 < r.base + r.size
                                              /\ (a - r.base) % PtrStep = 0
            /\ PtrNow(a) \in ReadableSpans}

Links(a, b) == b - PtrNow(a) \in (IF cfgNow.negative THEN -cfgNow.offset ELSE 0) .. cfgNow.offset

\* All paths, by the definition: sequences of slots, each pointing close to
\* the next and the last to the target, that pass no slot twice.
AllPaths ==
  LET Chain(c) == /\ \A i \in DOMAIN c : Links(c[i], IF i = Len(c) THEN cfgNow.target ELSE c[i + 1])
                  /\ \A i \in 2 .. Len(c) : c[i] # cfgNow.target /\ \A j \in i + 1 .. Len(c) : c[i] # c[j]
                  /\ cfgNow.static => holding(c[1]) # {}
      Offsets(c) == [i \in DOMAIN c |-> (IF i = Len(c) THEN cfgNow.target ELSE c[i + 1]) - PtrNow(c[i])]
  IN  {PathOf(c[1], Offsets(c)) : c \in {x \in UNION {[1 .. k -> Slots] : k \in 1 .. cfgNow.depth} : Chain(x)}}

Finishes(job) == ps.job = job /\ ps'.job = "none" /\ ps'.open

\* A pointer scan of memory that stays as it is finds exactly the paths that
\* exist, each once and the short ones first, also when its shards are merged;
\* one that misses some says which limit it met, and still shows only paths
\* that lead to the target.  A cancelled one, however early, shows none.
PointersExact ==
  Finishes("scan") =>
    LET found == ps.work.found
        all == ps'.results
    IN  /\ (ps.asked \/ ps.failed) => found = <<>>
        /\ Cardinality(Range(all)) = Len(all)
        /\ \A i, j \in DOMAIN found : i < j => Len(found[i].offsets) <= Len(found[j].offsets)
        /\ (~ps.asked /\ ~ps.failed /\ ghost.dirty = {}) =>
             /\ Range(found) \subseteq AllPaths
             /\ \A i \in DOMAIN found : dereference(found[i]) = cfgNow.target
             /\ (ps'.shard = 0 /\ ps.limit = {}) => Range(all) = AllPaths

\* A rescan keeps exactly the paths that lead to the new address, or, when it
\* is cancelled, all of them.
RescansExact ==
  Finishes("rescan") =>
    IF ps.cancelled THEN ps'.results = ps.results
    ELSE ghost.dirty = {} => ps'.results = SelectSeq(ps.results, LAMBDA p : dereference(p) = ps.to)

\* Value scans and pointer scans find exactly what they should.
ScansExact == [][FirstExact /\ NextExact /\ PointersExact /\ RescansExact]_<<vars, ps>>
=============================================================================
