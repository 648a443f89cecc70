---------------------------- MODULE ScannerProofs ----------------------------
(***************************************************************************)
(* Machine-checked proof about the directories of scan results, for any    *)
(* memory, scans, number of workers, faults, kills and other instances.    *)
(*                                                                         *)
(* LiveDirsKept and NoDirLeaks are not inductive.  What carries them:      *)
(* directory names are never given out twice, the results the window holds *)
(* and the scan under way have different directories, the directories of   *)
(* the window's results are locked, not of a dead process and not kept,    *)
(* the scan's is not a week old, and the command line only holds results   *)
(* that are kept.                                                          *)
(***************************************************************************)
EXTENDS PointerScanner, TLAPS

DirOK(x) ==
  /\ {"kept", "old", "dead"} \subseteq DOMAIN x
  /\ x.kept \in BOOLEAN /\ x.old \in BOOLEAN /\ x.dead \in BOOLEAN

\* A directory that nobody but its owner has touched.
Own(x) == DirOK(x) /\ ~x.kept /\ ~x.dead

DirsOK ==
  /\ nextDir \in Nat \ {0}
  /\ dirs = [d \in DOMAIN dirs |-> dirs[d]]
  /\ \A d \in DOMAIN dirs : d \in Nat \ {0} /\ d < nextDir /\ DirOK(dirs[d])

ScanOK ==
  /\ scan.on \in BOOLEAN
  /\ scan.on =>
       /\ pruned
       /\ {"on", "dir"} \subseteq DOMAIN scan
       /\ scan.dir \in DOMAIN dirs /\ Own(dirs[scan.dir]) /\ ~dirs[scan.dir].old
       /\ scan.dir # last.dir /\ scan.dir # undo.dir

ResultOK(r) ==
  /\ r.dir \in Nat /\ r.dir < nextDir
  /\ r.dir # 0 /\ ~scen.cli => r.own /\ r.lock /\ r.dir \in DOMAIN dirs /\ Own(dirs[r.dir])
  /\ r.dir # 0 /\ scen.cli => ~r.own /\ (r.dir \in DOMAIN dirs => dirs[r.dir].kept)

ResultsOK ==
  /\ ResultOK(last) /\ ResultOK(undo)
  /\ last.dir # 0 => last.dir # undo.dir
  /\ scen.cli => undo.dir = 0

IInv == DirsOK /\ ScanOK /\ ResultsOK /\ NoDirLeaks

\* Whose directory it is.
Somebodys(d) == last.dir = d \/ undo.dir = d \/ (scan.on /\ scan.dir = d)

LEMMA Leaks ==
  ASSUME DirsOK
  PROVE  NoDirLeaks <=> \A d \in DOMAIN dirs : Somebodys(d) \/ dirs[d].kept \/ (dirs[d].dead /\ ~pruned)
<1>1. \A d \in DOMAIN dirs : d # 0
  BY DEF DirsOK
<1> QED BY <1>1 DEF NoDirLeaks, Results, Somebodys

LEMMA InvImplies == IInv => DirsAccounted
BY DEF IInv, ScanOK, ResultsOK, ResultOK, DirsAccounted, LiveDirsKept, Results

LEMMA InitOK == SessionInit => IInv
<1> SUFFICES ASSUME Init PROVE IInv
  BY DEF SessionInit
<1>1. dirs = <<>> /\ nextDir = 1 /\ scan = [on |-> FALSE] /\ last = [dir |-> 0] /\ undo = [dir |-> 0]
  BY DEF Init, NoScan, NoResult
<1>2. DOMAIN dirs = {} /\ dirs = [d \in DOMAIN dirs |-> dirs[d]]
  BY <1>1
<1> QED BY <1>1, <1>2 DEF IInv, DirsOK, ScanOK, ResultsOK, ResultOK, NoDirLeaks

\* Nothing of the directories changes.
LEMMA Frame ==
  ASSUME IInv, UNCHANGED <<dirs, nextDir, last, undo, pruned, scen>>,
         scan' = scan \/ (scan.on /\ scan'.on = scan.on /\ scan'.dir = scan.dir /\ DOMAIN scan' = DOMAIN scan)
  PROVE  IInv'
<1>1. DirsOK' /\ ResultsOK'
  BY DEF IInv, DirsOK, ResultsOK, ResultOK
<1>2. ScanOK'
  <2>1. CASE scan' = scan
    BY <2>1 DEF IInv, ScanOK
  <2>2. CASE scan.on /\ scan'.on = scan.on /\ scan'.dir = scan.dir /\ DOMAIN scan' = DOMAIN scan
    BY <2>2 DEF IInv, ScanOK
  <2> QED BY <2>1, <2>2
<1>3. NoDirLeaks'
  BY DEF IInv, ScanOK, NoDirLeaks, Results, NoScan
<1> QED BY <1>1, <1>2, <1>3 DEF IInv

\* A worker's step, a throw and a cancel change other fields of the scan.
LEMMA WorkerKeeps ==
  ASSUME IInv, NEW t, OpenReader(t) \/ ScanChunk(t) \/ ScanBatch(t) \/ FinishWorker(t) \/ ThrowWorker(t) \/ cancel
  PROVE  IInv'
<1>1. UNCHANGED <<dirs, nextDir, last, undo, pruned, scen>> /\ scan.on
  BY DEF OpenReader, ScanChunk, ScanBatch, FinishWorker, ThrowWorker, cancel, WorkerOnly, Running
<1>2. {"on", "dir"} \subseteq DOMAIN scan
  BY <1>1 DEF IInv, ScanOK
<1>3. scan'.on = scan.on /\ scan'.dir = scan.dir /\ DOMAIN scan' = DOMAIN scan
  <2>1. CASE OpenReader(t)
    BY <1>2, <2>1 DEF OpenReader
  <2>2. CASE ScanChunk(t)
    BY <1>2, <2>2 DEF ScanChunk
  <2>3. CASE ScanBatch(t)
    BY <1>2, <2>3 DEF ScanBatch
  <2>4. CASE FinishWorker(t)
    BY <1>2, <2>4 DEF FinishWorker
  <2>5. CASE ThrowWorker(t)
    BY <1>2, <2>5 DEF ThrowWorker
  <2>6. CASE cancel
    BY <1>2, <2>6 DEF cancel
  <2> QED BY <2>1, <2>2, <2>3, <2>4, <2>5, <2>6
<1> QED BY <1>1, <1>2, <1>3, Frame

\* The directories after a new one was made: the one of that name is its
\* maker's, no other is new, none that somebody uses is gone, and those of
\* dead processes are.
LEMMA Made ==
  ASSUME IInv, NEW s, NEW ds, ds = makeScanDir(s)
  PROVE  /\ ds = [d \in DOMAIN ds |-> ds[d]]
         /\ nextDir \notin DOMAIN dirs
         /\ nextDir \in DOMAIN ds /\ Own(ds[nextDir]) /\ ~ds[nextDir].old
         /\ DOMAIN ds \subseteq DOMAIN dirs \cup {nextDir}
         /\ \A d \in DOMAIN ds \ {nextDir} : ds[d] = dirs[d]
         /\ \A d \in DOMAIN dirs : Own(dirs[d]) => d \in DOMAIN ds
         /\ \A d \in DOMAIN ds \ {nextDir} : Somebodys(d) \/ ds[d].kept
<1> DEFINE new == [shards |-> s, kept |-> FALSE, old |-> FALSE, dead |-> FALSE]
<1> DEFINE kept == IF pruned THEN dirs ELSE Without(stale("ours"))
<1>1. ds = [d \in DOMAIN kept \cup {nextDir} |-> IF d = nextDir THEN new ELSE kept[d]]
  BY DEF makeScanDir
<1>2. nextDir \notin DOMAIN dirs
  BY DEF IInv, DirsOK
<1>3. Own(new) /\ ~new.old
  BY DEF Own, DirOK
<1>4. /\ DOMAIN kept \subseteq DOMAIN dirs
      /\ \A d \in DOMAIN kept : kept[d] = dirs[d]
      /\ \A d \in DOMAIN dirs : pruned \/ d \notin stale("ours") => d \in DOMAIN kept
      /\ ~pruned => \A d \in DOMAIN kept : d \notin stale("ours")
  BY DEF Without
<1>5. \A d \in DOMAIN dirs : Own(dirs[d]) => d \notin stale("ours")
  BY DEF Own, stale
<1>6. \A d \in DOMAIN dirs : Somebodys(d) \/ dirs[d].kept \/ (dirs[d].dead /\ ~pruned)
  BY Leaks DEF IInv
<1>7. \A d \in DOMAIN dirs : dirs[d].dead /\ ~dirs[d].kept => d \in stale("ours")
  BY DEF stale
<1> HIDE DEF kept, new
<1>8. \A d \in DOMAIN kept : Somebodys(d) \/ kept[d].kept
  BY <1>4, <1>6, <1>7
<1> QED BY <1>1, <1>2, <1>3, <1>4, <1>5, <1>8

LEMMA StartKeeps ==
  ASSUME IInv, ~scan.on, NEW next, StartScan(next), nextDir' = nextDir + 1, scen' = scen,
         next.on = TRUE, next.dir = nextDir, {"on", "dir"} \subseteq DOMAIN next
  PROVE  IInv'
<1>1. dirs' = makeScanDir(<<>>) /\ scan' = next /\ pruned' = TRUE /\ last' = last /\ undo' = undo
  BY DEF StartScan
<1>2. /\ dirs' = [d \in DOMAIN dirs' |-> dirs'[d]]
      /\ nextDir \notin DOMAIN dirs
      /\ nextDir \in DOMAIN dirs' /\ Own(dirs'[nextDir]) /\ ~dirs'[nextDir].old
      /\ DOMAIN dirs' \subseteq DOMAIN dirs \cup {nextDir}
      /\ \A d \in DOMAIN dirs' \ {nextDir} : dirs'[d] = dirs[d]
      /\ \A d \in DOMAIN dirs : Own(dirs[d]) => d \in DOMAIN dirs'
      /\ \A d \in DOMAIN dirs' \ {nextDir} : Somebodys(d) \/ dirs'[d].kept
  BY <1>1, Made
<1>3. nextDir \in Nat \ {0} /\ nextDir' \in Nat \ {0} /\ \A n \in Nat : n < nextDir => n < nextDir' /\ n # nextDir
  BY DEF IInv, DirsOK
<1>4. DirsOK'
  BY <1>2, <1>3 DEF IInv, DirsOK, Own
<1>5. ResultsOK'
  <2>1. ResultOK(last)' /\ ResultOK(undo)'
    BY <1>1, <1>2, <1>3 DEF IInv, ResultsOK, ResultOK
  <2> QED BY <2>1, <1>1 DEF IInv, ResultsOK
<1>6. ScanOK'
  <2>1. nextDir # last.dir /\ nextDir # undo.dir
    BY <1>3 DEF IInv, ResultsOK, ResultOK
  <2> QED BY <1>1, <1>2, <2>1 DEF ScanOK
<1>7. NoDirLeaks'
  <2>1. \A d \in DOMAIN dirs' : Somebodys(d)' \/ dirs'[d].kept
    BY <1>1, <1>2 DEF Somebodys
  <2>2. \A d \in DOMAIN dirs' : d # 0
    BY <1>4 DEF DirsOK
  <2> QED BY <2>1, <2>2 DEF NoDirLeaks, Results, Somebodys
<1> QED BY <1>4, <1>5, <1>6, <1>7 DEF IInv

\* A result is taken: e is its directory, ds what the disk holds.
LEMMA AdoptKeeps ==
  ASSUME IInv, NEW r, NEW ds, NEW e, Adopt(r, ds), scen' = scen, scan'.on = FALSE,
         r.dir = e, r.own = TRUE, r.lock = TRUE, {"dir", "own", "lock"} \subseteq DOMAIN r,
         nextDir' \in Nat \ {0}, nextDir' >= nextDir, e \in Nat \ {0}, e < nextDir',
         ds = [d \in DOMAIN ds |-> ds[d]],
         e \in DOMAIN ds, Own(ds[e]), e # last.dir, e # undo.dir,
         DOMAIN ds \subseteq DOMAIN dirs \cup {e},
         \A d \in DOMAIN ds \ {e} : ds[d] = dirs[d],
         \A d \in DOMAIN dirs : Own(dirs[d]) => d \in DOMAIN ds,
         \A d \in DOMAIN ds \ {e} : last.dir = d \/ undo.dir = d \/ ds[d].kept
  PROVE  IInv'
<1>1. \A n \in Nat : n < nextDir => n < nextDir'
  BY DEF IInv, DirsOK
<1>2. /\ last.dir \in Nat /\ last.dir < nextDir /\ undo.dir \in Nat /\ undo.dir < nextDir
      /\ last.dir # 0 => last.dir # undo.dir
      /\ scen.cli => undo.dir = 0
  BY DEF IInv, ResultsOK, ResultOK
<1>3. \A d \in DOMAIN dirs : d \in Nat \ {0} /\ d < nextDir' /\ DirOK(dirs[d])
  BY <1>1 DEF IInv, DirsOK
<1>4. \A d \in DOMAIN ds : d \in Nat \ {0} /\ d < nextDir' /\ DirOK(ds[d])
  BY <1>3 DEF Own
<1>5. ScanOK'
  BY DEF ScanOK
<1>6. CASE ~scen.cli
  <2>1. last' = r /\ undo' = last /\ pruned' = TRUE /\ dirs' = [d \in DOMAIN ds \ Destroyed({undo}) |-> ds[d]]
    BY <1>6 DEF Adopt
  <2>2. undo.dir # 0 => undo.own
    BY <1>6 DEF IInv, ResultsOK, ResultOK
  <2>3. Destroyed({undo}) = {undo.dir} \ {0}
    BY <2>2 DEF Destroyed
  <2>4. DOMAIN dirs' = DOMAIN ds \ {undo.dir} /\ \A d \in DOMAIN dirs' : dirs'[d] = ds[d]
    BY <2>1, <2>3, <1>4
  <2>5. DirsOK'
    BY <1>4, <2>1, <2>4 DEF DirsOK
  <2>6. last.dir # 0 => last.own /\ last.lock /\ last.dir \in DOMAIN dirs /\ Own(dirs[last.dir])
    BY <1>6 DEF IInv, ResultsOK, ResultOK
  <2>7. last.dir # 0 => last.dir \in DOMAIN dirs' /\ dirs'[last.dir] = dirs[last.dir]
    BY <1>2, <2>4, <2>6
  <2>8. ResultOK(last)'
    BY <1>6, <2>1, <2>4 DEF ResultOK
  <2>9. ResultOK(undo)'
    BY <1>1, <1>2, <1>6, <2>1, <2>6, <2>7 DEF ResultOK
  <2>10. ResultsOK'
    BY <1>6, <2>1, <2>8, <2>9 DEF ResultsOK
  <2>11. \A d \in DOMAIN dirs' : Somebodys(d)' \/ dirs'[d].kept
    BY <2>1, <2>4 DEF Somebodys
  <2>12. NoDirLeaks'
    <3>1. \A d \in DOMAIN dirs' : d # 0
      BY <2>5 DEF DirsOK
    <3> QED BY <2>11, <3>1 DEF NoDirLeaks, Results, Somebodys
  <2> QED BY <1>5, <2>5, <2>10, <2>12 DEF IInv
<1>7. CASE scen.cli /\ r.err
  <2>1. last' = last /\ undo' = [dir |-> 0] /\ pruned' = FALSE /\ dirs' = [d \in DOMAIN ds \ {e} |-> ds[d]]
    BY <1>7 DEF Adopt, NoResult
  <2>2. DirsOK'
    BY <1>4, <2>1 DEF DirsOK
  <2>3. last.dir # 0 => ~last.own /\ (last.dir \in DOMAIN dirs => dirs[last.dir].kept)
    BY <1>7 DEF IInv, ResultsOK, ResultOK
  <2>4. ResultOK(last)'
    BY <1>1, <1>2, <1>7, <2>1, <2>3 DEF ResultOK
  <2>5. ResultOK(undo)'
    BY <2>1 DEF ResultOK
  <2>6. ResultsOK'
    BY <2>1, <2>4, <2>5 DEF ResultsOK
  <2>7. NoDirLeaks'
    BY <1>2, <1>4, <1>7, <2>1 DEF NoDirLeaks, Results
  <2> QED BY <1>5, <2>2, <2>6, <2>7 DEF IInv
<1>8. CASE scen.cli /\ ~r.err
  <2>1. /\ last' = [r EXCEPT !.own = FALSE, !.lock = FALSE] /\ undo' = [dir |-> 0] /\ pruned' = FALSE
        /\ dirs' = [ds EXCEPT ![e].kept = TRUE, ![e].dead = TRUE]
    BY <1>8 DEF Adopt, NoResult
  <2>2. last'.dir = e /\ last'.own = FALSE
    BY <2>1
  <2>3. /\ DOMAIN dirs' = DOMAIN ds
        /\ \A d \in DOMAIN ds \ {e} : dirs'[d] = ds[d]
        /\ dirs' = [d \in DOMAIN dirs' |-> dirs'[d]]
    BY <2>1
  <2>4. dirs'[e].kept = TRUE /\ DirOK(dirs'[e])
    BY <2>1 DEF Own, DirOK
  <2>5. DirsOK'
    BY <1>4, <2>3, <2>4 DEF DirsOK
  <2>6. ResultOK(last)'
    BY <1>8, <2>2, <2>4 DEF ResultOK
  <2>7. ResultOK(undo)'
    BY <2>1 DEF ResultOK
  <2>8. ResultsOK'
    BY <2>1, <2>2, <2>6, <2>7 DEF ResultsOK
  <2>9. last.dir # 0 => (last.dir \in DOMAIN dirs => dirs[last.dir].kept)
    BY <1>8 DEF IInv, ResultsOK, ResultOK
  <2>10. \A d \in DOMAIN dirs' : dirs'[d].kept
    BY <1>2, <1>4, <1>8, <2>3, <2>4, <2>9
  <2>11. NoDirLeaks'
    BY <2>10 DEF NoDirLeaks
  <2> QED BY <1>5, <2>5, <2>8, <2>11 DEF IInv
<1> QED BY <1>6, <1>7, <1>8

\* A result in a new directory is taken at once.
LEMMA MadeAdopted ==
  ASSUME IInv, ~scan.on, NEW r, NEW s, Adopt(r, makeScanDir(s)), scen' = scen, scan'.on = FALSE, nextDir' = nextDir + 1,
         r.dir = nextDir, r.own = TRUE, r.lock = TRUE, {"dir", "own", "lock"} \subseteq DOMAIN r
  PROVE  IInv'
<1> DEFINE ds == makeScanDir(s)
<1>1. /\ ds = [d \in DOMAIN ds |-> ds[d]]
      /\ nextDir \notin DOMAIN dirs
      /\ nextDir \in DOMAIN ds /\ Own(ds[nextDir]) /\ ~ds[nextDir].old
      /\ DOMAIN ds \subseteq DOMAIN dirs \cup {nextDir}
      /\ \A d \in DOMAIN ds \ {nextDir} : ds[d] = dirs[d]
      /\ \A d \in DOMAIN dirs : Own(dirs[d]) => d \in DOMAIN ds
      /\ \A d \in DOMAIN ds \ {nextDir} : Somebodys(d) \/ ds[d].kept
  BY Made
<1>2. Adopt(r, ds)
  OBVIOUS
<1> HIDE DEF ds
<1>3. \A d \in DOMAIN ds \ {nextDir} : last.dir = d \/ undo.dir = d \/ ds[d].kept
  BY <1>1 DEF Somebodys
<1>4. nextDir \in Nat \ {0} /\ nextDir' \in Nat \ {0} /\ nextDir' >= nextDir /\ nextDir < nextDir'
  BY DEF IInv, DirsOK
<1>5. nextDir # last.dir /\ nextDir # undo.dir
  BY <1>4 DEF IInv, ResultsOK, ResultOK
<1> QED BY <1>1, <1>2, <1>3, <1>4, <1>5, AdoptKeeps

LEMMA EmptyKeeps ==
  ASSUME IInv, ~scan.on, NEW cfg, NEW first, EmptyScan(cfg, first), nextDir' = nextDir + 1, scen' = scen
  PROVE  IInv'
<1> DEFINE ds == makeScanDir(<<Files(NewResult(first))>>)
<1> DEFINE r == Result(nextDir, <<0>>, 0, cfg.kind = "all", FALSE)
<1>1. Adopt(r, ds) /\ scan' = scan
  BY DEF EmptyScan
<1>2. r.dir = nextDir /\ r.own = TRUE /\ r.lock = TRUE /\ {"dir", "own", "lock"} \subseteq DOMAIN r
  BY DEF Result
<1> HIDE DEF ds, r
<1>3. scan'.on = FALSE
  BY <1>1 DEF IInv, ScanOK
<1>4. QED
  BY <1>1, <1>2, <1>3, MadeAdopted DEF ds

LEMMA PruneKeeps == ASSUME IInv, pruneScanResult PROVE IInv'
<1>1. PICK counts, size, all, err, files :
        Adopt(Result(nextDir, counts, size, all, err), makeScanDir(files))
  BY DEF pruneScanResult
<1> DEFINE r == Result(nextDir, counts, size, all, err)
<1>2. Adopt(r, makeScanDir(files))
  BY <1>1
<1>3. scan' = scan /\ ~scan.on /\ nextDir' = nextDir + 1 /\ scen' = scen
  BY DEF pruneScanResult, Ui
<1>4. r.dir = nextDir /\ r.own = TRUE /\ r.lock = TRUE /\ {"dir", "own", "lock"} \subseteq DOMAIN r
  BY DEF Result
<1>5. scan'.on = FALSE
  BY <1>3 DEF IInv, ScanOK
<1> HIDE DEF r
<1> QED BY <1>2, <1>3, <1>4, <1>5, MadeAdopted

LEMMA FirstKeeps == ASSUME IInv, firstScan PROVE IInv'
<1> DEFINE cfg == targetScanConfig(todo[1])
<1> DEFINE list == chunks(cfg)
<1> DEFINE threads == Min({IF scen.remote THEN 1 ELSE scen.threads, Max({1, Len(list)})})
<1> DEFINE next == Begun("first", cfg, partition(list, threads), list, NoResult, FALSE)
<1>1. /\ ~scan.on /\ nextDir' = nextDir + 1 /\ scen' = scen
      /\ EmptyScan(cfg, FALSE) \/ StartScan(next)
  BY DEF firstScan, Idle
<1>2. next.on = TRUE /\ next.dir = nextDir /\ {"on", "dir"} \subseteq DOMAIN next
  BY DEF Begun
<1> HIDE DEF next, cfg
<1> QED BY <1>1, <1>2, StartKeeps, EmptyKeeps

LEMMA NextKeeps == ASSUME IInv, nextScan PROVE IInv'
<1> DEFINE cfg == targetScanConfig(todo[1])
<1> DEFINE total == Count(Previous)
<1> DEFINE threads == IF total < MTFloor \/ scen.remote THEN 1 ELSE Max({1, Min({scen.threads, total \div Batch})})
<1> DEFINE next == Begun("next", cfg, slices(total, threads), <<>>, Previous, threads = 1)
<1>1. /\ ~scan.on /\ nextDir' = nextDir + 1 /\ scen' = scen
      /\ EmptyScan(cfg, TRUE) \/ StartScan(next)
  BY DEF nextScan, Idle
<1>2. next.on = TRUE /\ next.dir = nextDir /\ {"on", "dir"} \subseteq DOMAIN next
  BY DEF Begun
<1> HIDE DEF next, cfg
<1> QED BY <1>1, <1>2, StartKeeps, EmptyKeeps

\* The scan's directory becomes its result's.
LEMMA AssembleKeeps == ASSUME IInv, assembleShardedResult PROVE IInv'
<1>1. PICK counts, size, all, err, shards :
        Adopt(Result(scan.dir, counts, size, all, err), [dirs EXCEPT ![scan.dir].shards = shards])
  BY DEF assembleShardedResult
<1> DEFINE ds == [dirs EXCEPT ![scan.dir].shards = shards]
<1> DEFINE r == Result(scan.dir, counts, size, all, err)
<1> DEFINE e == scan.dir
<1>2. scan.on /\ scan' = NoScan /\ scen' = scen /\ nextDir' = nextDir
  BY DEF assembleShardedResult, Joined
<1>3. pruned /\ e \in DOMAIN dirs /\ Own(dirs[e]) /\ e # last.dir /\ e # undo.dir
  BY <1>2 DEF IInv, ScanOK
<1>4. r.dir = e /\ r.own = TRUE /\ r.lock = TRUE /\ {"dir", "own", "lock"} \subseteq DOMAIN r
  BY DEF Result
<1>5. /\ nextDir' \in Nat \ {0} /\ nextDir' >= nextDir /\ e \in Nat \ {0} /\ e < nextDir'
      /\ dirs = [d \in DOMAIN dirs |-> dirs[d]]
  BY <1>2, <1>3 DEF IInv, DirsOK
<1>6. /\ ds = [d \in DOMAIN ds |-> ds[d]]
      /\ DOMAIN ds = DOMAIN dirs
      /\ \A d \in DOMAIN ds \ {e} : ds[d] = dirs[d]
      /\ ds[e] = [dirs[e] EXCEPT !.shards = shards]
  BY <1>3, <1>5
<1>7. Own(ds[e])
  BY <1>3, <1>6 DEF Own, DirOK
<1>8. \A d \in DOMAIN ds \ {e} : last.dir = d \/ undo.dir = d \/ ds[d].kept
  <2>1. \A d \in DOMAIN dirs : Somebodys(d) \/ dirs[d].kept \/ (dirs[d].dead /\ ~pruned)
    BY Leaks DEF IInv
  <2> QED BY <2>1, <1>3, <1>6 DEF Somebodys
<1>9. scan'.on = FALSE /\ Adopt(r, ds)
  BY <1>1, <1>2 DEF NoScan
<1> HIDE DEF ds, r, e
<1> QED BY <1>2, <1>3, <1>4, <1>5, <1>6, <1>7, <1>8, <1>9, AdoptKeeps

\* With no scan under way any more, some directories go that no result uses.
LEMMA RemovalKeeps ==
  ASSUME IInv, NEW gone, dirs' = Without(gone), nextDir' = nextDir, scen' = scen, scan'.on = FALSE,
         ResultOK(last)', ResultOK(undo)', last'.dir # 0 => last'.dir # undo'.dir, scen.cli => undo'.dir = 0,
         \A d \in DOMAIN dirs \ gone : last'.dir = d \/ undo'.dir = d \/ dirs[d].kept \/ (dirs[d].dead /\ ~pruned')
  PROVE  IInv'
<1>1. DOMAIN dirs' = DOMAIN dirs \ gone /\ \A d \in DOMAIN dirs' : dirs'[d] = dirs[d]
  BY DEF Without
<1>2. DirsOK'
  <2>1. dirs' = [d \in DOMAIN dirs' |-> dirs'[d]]
    BY <1>1 DEF Without
  <2> QED BY <1>1, <2>1 DEF IInv, DirsOK
<1>3. ScanOK'
  BY DEF ScanOK
<1>4. ResultsOK'
  BY DEF ResultsOK
<1>5. NoDirLeaks'
  <2>1. \A d \in DOMAIN dirs' : d # 0
    BY <1>2 DEF DirsOK
  <2> QED BY <1>1, <2>1 DEF NoDirLeaks, Results
<1> QED BY <1>2, <1>3, <1>4, <1>5 DEF IInv

LEMMA FailsKeeps == ASSUME IInv, ScanFails PROVE IInv'
<1>1. /\ scan.on /\ scan' = NoScan /\ dirs' = Without({scan.dir})
      /\ UNCHANGED <<scen, nextDir, last, undo>>
  BY DEF ScanFails, Joined
<1>2. pruned /\ scan.dir # last.dir /\ scan.dir # undo.dir
  BY <1>1 DEF IInv, ScanOK
<1>3. DOMAIN dirs' = DOMAIN dirs \ {scan.dir} /\ \A d \in DOMAIN dirs' : dirs'[d] = dirs[d]
  BY <1>1 DEF Without
<1>4. ResultOK(last)' /\ ResultOK(undo)'
  BY <1>1, <1>2, <1>3 DEF IInv, ResultsOK, ResultOK
<1>5. \A d \in DOMAIN dirs \ {scan.dir} : last.dir = d \/ undo.dir = d \/ dirs[d].kept
  BY <1>2, Leaks DEF IInv, Somebodys
<1>6. scan'.on = FALSE
  BY <1>1 DEF NoScan
<1>7. last.dir # 0 => last.dir # undo.dir
  BY DEF IInv, ResultsOK
<1>8. scen.cli => undo.dir = 0
  BY DEF IInv, ResultsOK
<1> QED BY <1>1, <1>4, <1>5, <1>6, <1>7, <1>8, RemovalKeeps

LEMMA NewScanKeeps == ASSUME IInv, onNewScan PROVE IInv'
<1>1. /\ scan' = scan /\ ~scan.on /\ ~scen.cli /\ last' = NoResult /\ undo' = NoResult
      /\ dirs' = Without(Destroyed({last, undo})) /\ UNCHANGED <<scen, nextDir, pruned>>
  BY DEF onNewScan, Ui
<1>2. last'.dir = 0 /\ undo'.dir = 0
  BY <1>1 DEF NoResult
<1>3. ResultOK(last)' /\ ResultOK(undo)'
  BY <1>1, <1>2 DEF ResultOK, IInv, DirsOK
<1>4. (last.dir # 0 => last.own) /\ (undo.dir # 0 => undo.own)
  BY <1>1 DEF IInv, ResultsOK, ResultOK
<1>5. \A d \in DOMAIN dirs \ Destroyed({last, undo}) : dirs[d].kept \/ (dirs[d].dead /\ ~pruned)
  <2>1. \A d \in DOMAIN dirs : d # 0
    BY DEF IInv, DirsOK
  <2>2. \A d \in DOMAIN dirs : last.dir = d \/ undo.dir = d => d \in Destroyed({last, undo})
    BY <1>4, <2>1 DEF Destroyed
  <2> QED BY <1>1, <2>2, Leaks DEF IInv, Somebodys
<1>6. scan'.on = FALSE
  BY <1>1 DEF IInv, ScanOK
<1> QED BY <1>1, <1>2, <1>3, <1>5, <1>6, RemovalKeeps

LEMMA UndoKeeps == ASSUME IInv, onUndoScan PROVE IInv'
<1>1. /\ scan' = scan /\ ~scan.on /\ ~scen.cli /\ last' = undo /\ undo' = NoResult
      /\ dirs' = Without(Destroyed({last})) /\ UNCHANGED <<scen, nextDir, pruned>>
  BY DEF onUndoScan, Ui
<1>2. undo'.dir = 0 /\ last'.dir = undo.dir
  BY <1>1 DEF NoResult
<1>3. /\ last.dir # 0 => last.own /\ last.dir # undo.dir
      /\ undo.dir # 0 => undo.own /\ undo.lock /\ undo.dir \in DOMAIN dirs /\ Own(dirs[undo.dir])
      /\ undo.dir \in Nat /\ undo.dir < nextDir
  BY <1>1 DEF IInv, ResultsOK, ResultOK
<1>4. \A d \in DOMAIN dirs : d # 0
  BY DEF IInv, DirsOK
<1>5. Destroyed({last}) = {last.dir} \ {0}
  BY <1>3 DEF Destroyed
<1>6. DOMAIN dirs' = DOMAIN dirs \ {last.dir} /\ \A d \in DOMAIN dirs' : dirs'[d] = dirs[d]
  BY <1>1, <1>4, <1>5 DEF Without
<1>7. ResultOK(last)'
  BY <1>1, <1>3, <1>6 DEF ResultOK
<1>8. ResultOK(undo)'
  BY <1>1, <1>2 DEF ResultOK, IInv, DirsOK
<1>9. \A d \in DOMAIN dirs \ Destroyed({last}) : last'.dir = d \/ dirs[d].kept \/ (dirs[d].dead /\ ~pruned)
  BY <1>1, <1>4, <1>5, Leaks DEF IInv, Somebodys
<1>10. scan'.on = FALSE
  BY <1>1 DEF IInv, ScanOK
<1> QED BY <1>1, <1>2, <1>7, <1>8, <1>9, <1>10, RemovalKeeps

\* A kill turns every directory that is not kept into one of a dead process.
LEMMA KilledKeeps == ASSUME IInv, Killed PROVE IInv'
<1>1. /\ scan' = NoScan /\ pruned' = FALSE /\ undo' = NoResult /\ last' = IF scen.cli THEN last ELSE NoResult
      /\ dirs' = [d \in DOMAIN dirs |-> [dirs[d] EXCEPT !.dead = TRUE]]
      /\ UNCHANGED <<scen, nextDir>>
  BY DEF Killed
<1>2. \A d \in DOMAIN dirs : DirOK(dirs[d])
  BY DEF IInv, DirsOK
<1>3. DOMAIN dirs' = DOMAIN dirs
  BY <1>1
<1>4. \A d \in DOMAIN dirs : dirs'[d].dead = TRUE /\ dirs'[d].kept = dirs[d].kept /\ DirOK(dirs'[d])
  BY <1>1, <1>2 DEF DirOK
<1>5. DirsOK'
  BY <1>1, <1>3, <1>4 DEF IInv, DirsOK
<1>6. ScanOK'
  BY <1>1 DEF ScanOK, NoScan
<1>7. undo'.dir = 0 /\ (~scen.cli => last'.dir = 0)
  BY <1>1 DEF NoResult
<1>8. nextDir \in Nat \ {0}
  BY DEF IInv, DirsOK
<1>9. ResultOK(undo)'
  BY <1>1, <1>7, <1>8 DEF ResultOK
<1>10. ResultOK(last)'
  <2>1. CASE scen.cli
    BY <2>1, <1>1, <1>3, <1>4 DEF IInv, ResultsOK, ResultOK
  <2>2. CASE ~scen.cli
    BY <2>2, <1>1, <1>7, <1>8 DEF ResultOK
  <2> QED BY <2>1, <2>2
<1>11. ResultsOK'
  BY <1>1, <1>7, <1>9, <1>10 DEF ResultsOK
<1>12. NoDirLeaks'
  BY <1>1, <1>3, <1>4 DEF NoDirLeaks
<1> QED BY <1>5, <1>6, <1>11, <1>12 DEF IInv

LEMMA WeekKeeps == ASSUME IInv, Week PROVE IInv'
<1>1. /\ ~scan.on /\ dirs' = [d \in DOMAIN dirs |-> [dirs[d] EXCEPT !.old = TRUE]]
      /\ UNCHANGED <<scen, nextDir, scan, last, undo, pruned>>
  BY DEF Week
<1>2. \A d \in DOMAIN dirs : DirOK(dirs[d])
  BY DEF IInv, DirsOK
<1>3. DOMAIN dirs' = DOMAIN dirs
  BY <1>1
<1>4. \A d \in DOMAIN dirs : dirs'[d].dead = dirs[d].dead /\ dirs'[d].kept = dirs[d].kept /\ DirOK(dirs'[d])
  BY <1>1, <1>2 DEF DirOK
<1>5. DirsOK'
  BY <1>1, <1>3, <1>4 DEF IInv, DirsOK
<1>6. ScanOK'
  BY <1>1 DEF IInv, ScanOK
<1>7. \A d \in DOMAIN dirs : Own(dirs[d]) => Own(dirs'[d])
  BY <1>4 DEF Own
<1>8. ResultOK(last)' /\ ResultOK(undo)'
  BY <1>1, <1>3, <1>4, <1>7 DEF IInv, ResultsOK, ResultOK
<1>9. ResultsOK'
  BY <1>1, <1>8 DEF IInv, ResultsOK
<1>10. NoDirLeaks'
  BY <1>1, <1>3, <1>4 DEF IInv, NoDirLeaks, Results
<1> QED BY <1>5, <1>6, <1>9, <1>10 DEF IInv

\* A cleanup elsewhere: this host's spares what is not of a dead process, the
\* other's what is locked or young.
LEMMA CleanupKeeps == ASSUME IInv, NEW host, pruneStaleScanDirectories(host) PROVE IInv'
<1>1. /\ dirs' = Without(stale(host))
      /\ UNCHANGED <<scen, nextDir, scan, last, undo, pruned>>
  BY DEF pruneStaleScanDirectories
<1>2. DOMAIN dirs' = DOMAIN dirs \ stale(host) /\ \A d \in DOMAIN dirs' : dirs'[d] = dirs[d]
  BY <1>1 DEF Without
<1>3. DirsOK'
  <2>1. dirs' = [d \in DOMAIN dirs' |-> dirs'[d]]
    BY <1>1, <1>2 DEF Without
  <2> QED BY <1>1, <1>2, <2>1 DEF IInv, DirsOK
<1>4. \A d \in DOMAIN dirs : Own(dirs[d]) /\ (locked(d) \/ ~dirs[d].old) => d \notin stale(host)
  BY DEF Own, stale
<1>5. scan.on => scan.dir \in DOMAIN dirs'
  BY <1>2, <1>4 DEF IInv, ScanOK
<1>6. ScanOK'
  BY <1>1, <1>2, <1>5 DEF IInv, ScanOK
<1>7. (last.lock => locked(last.dir)) /\ (undo.lock => locked(undo.dir))
  BY DEF locked
<1>8. ResultOK(last)' /\ ResultOK(undo)'
  BY <1>1, <1>2, <1>4, <1>7 DEF IInv, ResultsOK, ResultOK
<1>9. ResultsOK'
  BY <1>1, <1>8 DEF IInv, ResultsOK
<1>10. NoDirLeaks'
  BY <1>1, <1>2 DEF IInv, NoDirLeaks, Results
<1> QED BY <1>3, <1>6, <1>9, <1>10 DEF IInv

LEMMA NextPreserves == IInv /\ [SessionNext]_<<vars, ps>> => IInv'
<1> SUFFICES ASSUME IInv, [SessionNext]_<<vars, ps>> PROVE IInv'
  OBVIOUS
<1>1. CASE Refuse \/ TargetLost \/ Over \/ UNCHANGED vars
  <2>1. UNCHANGED <<dirs, nextDir, last, undo, pruned, scen, scan>>
    BY <1>1 DEF Refuse, TargetLost, Over, vars
  <2> QED BY <2>1, Frame
<1>2. CASE \E a \in Addrs, v \in 0 .. Radix - 1 : Poke(a, v)
  <2>1. UNCHANGED <<dirs, nextDir, last, undo, pruned, scen, scan>>
    BY <1>2 DEF Poke
  <2> QED BY <2>1, Frame
<1>3. CASE \E p \in {PageOf(a) : a \in Addrs} : Unmap(p)
  <2>1. UNCHANGED <<dirs, nextDir, last, undo, pruned, scen, scan>>
    BY <1>3 DEF Unmap
  <2> QED BY <2>1, Frame
<1>4. CASE \E t \in 1 .. scen.threads :
             OpenReader(t) \/ ScanChunk(t) \/ ScanBatch(t) \/ FinishWorker(t) \/ ThrowWorker(t)
  BY <1>4, WorkerKeeps
<1>5. CASE cancel
  BY <1>5, WorkerKeeps
<1>6. CASE \E host \in {"ours", "other"} : pruneStaleScanDirectories(host)
  BY <1>6, CleanupKeeps
<1>7. CASE PtrNext
  <2>1. UNCHANGED <<dirs, nextDir, last, undo, pruned, scen, scan>>
    BY <1>7 DEF PtrNext, PtrOnly, PtrStays, onScan, onCancel, closeDialog, destroyDialog, rescanTo, onSave, onLoad,
                scanBegins, buildPointerMap, searchStep, rescanStep, finishJob
  <2> QED BY <2>1, Frame
<1>8. CASE Next
  BY <1>1, <1>2, <1>3, <1>4, <1>5, <1>6, <1>8, FirstKeeps, NextKeeps, FailsKeeps, AssembleKeeps, NewScanKeeps,
     UndoKeeps, PruneKeeps, KilledKeeps, WeekKeeps DEF Next
<1> QED BY <1>1, <1>7, <1>8 DEF SessionNext

\* The directory of a result in use, or of a scan under way, is never removed,
\* not even by a cleanup on another host after a week, and no directory stays
\* that is nobody's, kept, or left by a killed process whose host has not
\* scanned since: cancelled, failed, marked and undone scans and killed
\* processes included.
THEOREM DirectoriesAccounted == SessionSpec => []DirsAccounted
<1>1. SessionInit => IInv
  BY InitOK
<1>2. IInv /\ [SessionNext]_<<vars, ps>> => IInv'
  BY NextPreserves
<1>3. IInv => DirsAccounted
  BY InvImplies
<1> QED BY <1>1, <1>2, <1>3, PTL DEF SessionSpec
=============================================================================
