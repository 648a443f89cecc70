----------------------------- MODULE ScanFiles -----------------------------
(***************************************************************************)
(* What a memory scan compares and what it leaves on disk                  *)
(* (scanner/memory_scanner.cpp): the candidate values of a window of       *)
(* bytes, the search of one buffer, and the result files.  A worker        *)
(* appends matches to a writer: an address is stored as an offset below    *)
(* FrameSpan from a frame's base, records are buffered and flushed FlushAt *)
(* at a time, and a write that fails only marks the writer.  A result is   *)
(* the files of its workers, in order; reading it back rebuilds addresses  *)
(* from the frames.                                                        *)
(*                                                                         *)
(* A byte is a digit below Radix, a value at most two of them.  The value  *)
(* types kept are one of one byte, one of two, both at once ("all"), and   *)
(* floating point in halves; text in bytes or two-byte units, byte and     *)
(* binary patterns with wildcards, groups of terms and Lua formulas.       *)
(* Encodings, the wording of the tokens and byte orders are left out.      *)
(***************************************************************************)
EXTENDS Integers, Sequences, FiniteSets, SequencesExt, FiniteSetsExt

CONSTANTS
  Radix,      \* digits of a byte
  FrameSpan,  \* addresses one frame's offsets reach (2^32 in the code)
  FlushAt     \* records buffered before they are written (8192 in the code)

ASSUME ScanFilesAssumption == {Radix, FrameSpan, FlushAt} \subseteq Nat \ {0}

Hole == -1   \* a byte that cannot be read

-----------------------------------------------------------------------------
(* Values *)

\* The size of a group: as far as its last term reaches.
groupedValueSize(terms) == Max({t.off + t.w : t \in Range(terms)})

\* The widths a configuration tries at each address.
allCandidateWidths(cfg) ==
  CASE cfg.kind = "byte" -> {1}
    [] cfg.kind = "all" -> {1, 2}
    [] cfg.kind \in {"text", "wide", "aob", "binary"} -> {Len(cfg.pat)}
    [] cfg.kind = "group" -> {groupedValueSize(cfg.pat)}
    [] OTHER -> {2}

valueSizeForConfig(cfg) == Max(allCandidateWidths(cfg))

\* The number a window of bytes holds, least significant byte first.
readScanScalar(bytes, width) ==
  IF width = 1 THEN bytes[1] ELSE bytes[1] + Radix * bytes[2]

Signed(bits, width) == IF 2 * bits >= Radix^width THEN bits - Radix^width ELSE bits

\* A byte is read unsigned and two bytes signed; the same bits can be read
\* the other way.
ownReading(bits, width) == IF width = 1 THEN bits ELSE Signed(bits, width)
otherSignedness(bits, width) == IF width = 1 THEN Signed(bits, width) ELSE bits

literalCompares == {"exact", "greater", "less", "between", "unknown"}

\* A literal comparison of the value with the one searched for.
compareLiteral(cfg, cur) ==
  CASE cfg.cmp = "exact" -> cur = cfg.v
    [] cfg.cmp = "greater" -> cur > cfg.v
    [] cfg.cmp = "less" -> cur < cfg.v
    [] cfg.cmp = "between" -> IF cfg.v <= cfg.v2 THEN cur \in cfg.v .. cfg.v2
                                                 ELSE cur \in cfg.v2 .. cfg.v
    [] cfg.cmp = "unknown" -> TRUE

\* A search of one type casts the value searched for to that type.
Cast(cfg, width) ==
  [cfg EXCEPT !.v = ownReading(@ % Radix^width, width), !.v2 = ownReading(@ % Radix^width, width)]

\* A search for every type at once does not: 298 is no byte.  An exact value
\* matches either reading of the bits.
compareAllIntegerLiteral(cfg, bits, width) ==
  \/ compareLiteral(cfg, ownReading(bits, width))
  \/ cfg.cmp = "exact" /\ compareLiteral(cfg, otherSignedness(bits, width))

Trunc(halves) == IF halves >= 0 THEN halves \div 2 ELSE -((-halves) \div 2)
Distance(x, y) == IF x >= y THEN x - y ELSE y - x

\* Floating point, in halves: exact, rounded, truncated or within a tolerance.
compareFloating(cfg, cur) ==
  CASE cfg.cmp # "exact" -> compareLiteral(cfg, cur)
    [] cfg.rounding = "rounded" -> Distance(cur, cfg.v) <= 1
    [] cfg.rounding = "truncated" -> Trunc(cur) = Trunc(cfg.v)
    [] cfg.rounding = "extreme" -> Distance(cur, cfg.v) <= cfg.v2
    [] OTHER -> cur = cfg.v

\* Letters are the digits 1 (small) and 2 (capital).
Lower(b) == IF b = 2 THEN 1 ELSE b

\* Text: a two-byte unit folds only where its high byte is zero.
stringBytesMatch(cfg, bytes) ==
  \A i \in DOMAIN cfg.pat :
    \/ bytes[i] = cfg.pat[i]
    \/ /\ cfg.fold /\ Lower(bytes[i]) = Lower(cfg.pat[i])
       /\ cfg.kind = "wide" => i % 2 = 1 /\ bytes[i + 1] = 0 /\ cfg.pat[i + 1] = 0

\* A pattern's byte asks for all of the byte, for half of it, or for nothing.
Under(mask, b) == CASE mask = "all" -> b [] mask = "half" -> b \div 2 [] OTHER -> 0

compareMaskedBytes(pattern, bytes) ==
  \A i \in DOMAIN pattern : Under(pattern[i].mask, bytes[i]) = Under(pattern[i].mask, pattern[i].b)

\* Every term of a group matches at its offset.
groupedBlockMatches(terms, block) ==
  \A t \in Range(terms) :
    readScanScalar(SubSeq(block, t.off + 1, t.off + t.w), t.w) = t.v % Radix^t.w

\* The predicate of a first scan on the bytes of a window, and of a next scan
\* that asks for a literal.
literalMatch(cfg, bytes, width) ==
  CASE cfg.kind \in {"text", "wide"} -> stringBytesMatch(cfg, bytes)
    [] cfg.kind \in {"aob", "binary"} -> compareMaskedBytes(cfg.pat, bytes)
    [] cfg.kind = "group" -> cfg.cmp = "unknown" \/ groupedBlockMatches(cfg.pat, bytes)
    [] cfg.kind = "custom" -> cfg.cmp = "unknown" \/ (cfg.pat.compiles /\ readScanScalar(bytes, 2) \in cfg.pat.matches)
    [] cfg.kind = "float" -> compareFloating(cfg, Signed(readScanScalar(bytes, 2), 2))
    [] cfg.kind = "all" -> compareAllIntegerLiteral(cfg, readScanScalar(bytes, width), width)
    [] OTHER -> compareLiteral(Cast(cfg, width), ownReading(readScanScalar(bytes, width), width))

\* By how many percent of itself a value moved; percent holds two bounds, or
\* nothing when the scan is not by percentage.  Nothing is a part of zero.
supportsPercentageCompare(cfg) ==
  cfg.percent # <<>> /\ cfg.cmp \in {"greater", "less", "between", "increased", "decreased"}

comparePercentage(cfg, cur, old) ==
  LET size == IF old >= 0 THEN old ELSE -old
      moved == 100 * (cur - old)
  IN  /\ size # 0
      /\ CASE cfg.cmp \in {"increased", "greater"} -> moved >= cfg.percent[1] * size
           [] cfg.cmp \in {"decreased", "less"} -> moved <= -cfg.percent[1] * size
           [] cfg.cmp = "between" -> moved \in Min(Range(cfg.percent)) * size .. Max(Range(cfg.percent)) * size

\* The comparisons with the previous scan's value, or the first scan's.
compareNextNumericValues(cfg, cur, old) ==
  CASE cfg.cmp = "changed" -> cur # old
    [] cfg.cmp \in {"unchanged", "sameasfirst"} -> cur = old
    [] cfg.cmp = "increased" -> cur > old
    [] cfg.cmp = "decreased" -> cur < old
    [] cfg.cmp = "increasedby" -> cur > old /\ cur - old = cfg.v
    [] cfg.cmp = "decreasedby" -> cur < old /\ old - cur = cfg.v

\* What is not a number has changed or has not; text also counts as changed
\* when asked whether it increased or decreased.
compareNextBytes(cfg, cur, old) ==
  IF cfg.cmp \in {"unchanged", "sameasfirst"} THEN cur = old ELSE cur # old

\* Which of the candidate widths still match: the reference is the first
\* scan's value for "same as first scan" and the previous one otherwise.
nextScanCompare(cfg, widths, cur, old, first) ==
  LET reference == IF cfg.cmp = "sameasfirst" THEN first ELSE old
      Reading(bytes, w) == ownReading(readScanScalar(bytes, w), w)
  IN  {w \in widths :
         IF cfg.kind \in {"byte", "word", "all", "float"} /\ supportsPercentageCompare(cfg)
           THEN comparePercentage(cfg, Reading(cur, w), Reading(reference, w))
         ELSE IF cfg.cmp \in literalCompares THEN literalMatch(cfg, SubSeq(cur, 1, w), w)
         ELSE IF cfg.kind \in {"byte", "word", "all", "float"}
                THEN compareNextNumericValues(cfg, Reading(cur, w), Reading(reference, w))
         ELSE compareNextBytes(cfg, cur, reference)}

-----------------------------------------------------------------------------
(* What a scan is asked for *)

\* Tokens of a pattern: a wildcard, a byte of which half is a wildcard, a run
\* of bytes written together, or something else, which a pattern of bytes may
\* not hold and a binary one passes over.
parseAOB(tokens) ==
  LET Bytes(t) ==
        CASE t.is = "any" -> <<[b |-> 0, mask |-> "none"]>>
          [] t.is = "half" -> <<[b |-> t.b, mask |-> "half"]>>
          [] t.is = "run" -> [i \in DOMAIN t.bytes |-> [b |-> t.bytes[i], mask |-> "all"]]
          [] OTHER -> <<>>
      pattern == FlattenSeq([i \in DOMAIN tokens |-> Bytes(tokens[i])])
  IN  [ok |-> pattern # <<>> /\ \A t \in Range(tokens) : t.is # "bad", pattern |-> pattern]

\* Terms of a group: one that is not understood refuses the whole group.
parseGrouped(terms) == terms # <<>> /\ \A t \in Range(terms) : ~t.bad

\* An integer must fit its type: exact takes either reading, an order the
\* type's own, an amount changed by may span the type.
checkIntegerRange(cfg) ==
  LET w == valueSizeForConfig(cfg)
      signedMin == -((Radix^w) \div 2)
      signedMax == (Radix^w - 1) \div 2
      unsignedMax == Radix^w - 1
      Low == CASE cfg.cmp = "exact" -> signedMin
               [] cfg.cmp \in {"increasedby", "decreasedby"} -> -unsignedMax
               [] OTHER -> IF w = 1 THEN 0 ELSE signedMin
      High == IF cfg.cmp \in {"greater", "less", "between"} /\ w # 1 THEN signedMax ELSE unsignedMax
  IN  (cfg.kind \in {"byte", "word"} /\ cfg.cmp \in {"exact", "greater", "less", "between", "increasedby", "decreasedby"}) =>
        /\ cfg.v \in Low .. High
        /\ cfg.cmp = "between" => cfg.v2 \in Low .. High

\* What the callers refuse of what was typed.
parsed(cfg) ==
  CASE cfg.kind = "aob" -> parseAOB(cfg.pat).ok
    [] cfg.kind = "binary" -> parseAOB(cfg.pat).pattern # <<>>
    [] cfg.kind = "group" -> parseGrouped(cfg.pat)
    [] OTHER -> TRUE

\* The scan made of it: a negative amount changed by is the other direction.
targetScanConfig(cfg) ==
  CASE cfg.kind \in {"aob", "binary"} -> [cfg EXCEPT !.pat = parseAOB(@).pattern]
    [] cfg.cmp = "increasedby" /\ cfg.v < 0 -> [cfg EXCEPT !.cmp = "decreasedby", !.v = -@]
    [] cfg.cmp = "decreasedby" /\ cfg.v < 0 -> [cfg EXCEPT !.cmp = "increasedby", !.v = -@]
    [] OTHER -> cfg

-----------------------------------------------------------------------------
(* Formulas: one Lua state per worker, rebuilt after it ran out of memory *)

\* A state that has compiled the formula is ready; one that cannot hold it, or
\* a formula that is wrong, never will be.
ensureCompiled(formula, state) ==
  IF state # "none" THEN state ELSE IF formula.compiles THEN "ready" ELSE "never"

\* A value for which the formula fails does not match; one for which memory
\* runs out costs the state, and the next value starts from a new one.
evalFormula(formula, state, x) ==
  LET now == ensureCompiled(formula, state)
  IN  [state |-> IF now = "ready" /\ x \in formula.memory THEN "none" ELSE now,
       match |-> now = "ready" /\ x \in formula.matches]

-----------------------------------------------------------------------------
(* The search of one buffer *)

\* Text and byte patterns are matched at every byte.
bytewise(cfg) == cfg.kind \in {"text", "wide", "aob", "binary"}
stride(cfg) == IF bytewise(cfg) THEN 1 ELSE Max({1, cfg.align})

\* The step of the search itself: text of two-byte units by units, a binary
\* pattern by the alignment although it may lie anywhere.
step(cfg) == CASE cfg.kind = "wide" -> 2 [] cfg.kind = "binary" -> Max({1, cfg.align}) [] OTHER -> stride(cfg)

Padded(bytes, offset, size) ==
  [i \in 1 .. size |-> IF offset + i <= Len(bytes) THEN bytes[offset + i] ELSE 0]

\* The lanes an exact aligned search visits: whole vectors of W lanes, then
\* the lanes left over, one by one.
scanExactLanes(lanes, W) ==
  LET vectors == (lanes \div W) * W
  IN  (0 .. vectors - 1) \cup (vectors .. lanes - 1)

\* The offsets one value type is tried at in a buffer of n bytes.
scanOffsets(cfg, n) ==
  LET size == valueSizeForConfig(cfg) IN
    IF cfg.cmp = "exact" /\ step(cfg) = size
      THEN {i * size : i \in scanExactLanes(n \div size, 2)}
      ELSE {o \in 0 .. n - size : o % step(cfg) = 0}

\* Floating point without rounding is compared in whole lanes as it stands.
scanExactFloat(cfg, bytes) == {2 * i : i \in scanExactLanes(Len(bytes) \div 2, 2)}

\* A rounded search drops the lanes too far from the value to match, and only
\* then looks closer.  (The code adds 2 to a margin of at least 2.)
scanRoundedFloat(cfg, bytes) ==
  LET margin == Max({1, IF cfg.rounding = "extreme" THEN cfg.v2 ELSE 0}) + 1
      At(o) == Signed(readScanScalar(SubSeq(bytes, o + 1, o + 2), 2), 2)
  IN  {o \in scanOffsets(cfg, Len(bytes)) : At(o) \in cfg.v - margin .. cfg.v + margin}

\* The positions that hold one byte, in vectors first.
anchorScan(bytes, start, end, anchor) ==
  {p \in {start + i : i \in scanExactLanes(Max({0, end - start}), 2)} : bytes[p + 1] = anchor}

\* Text in its own case is looked for by its first byte.
scanBufferString(cfg, bytes) ==
  LET limit == Len(bytes) - Len(cfg.pat) + 1 IN
    IF cfg.fold THEN 0 .. limit - 1 ELSE anchorScan(bytes, 0, limit, cfg.pat[1])

\* Mutant: anchor positions end where starts do.
scanBufferAOB_Short(pattern, bytes) ==
  LET limit == Len(bytes) - Len(pattern) + 1
      whole == {i \in DOMAIN pattern : pattern[i].mask = "all"}
      anchor == Min(whole) - 1
  IN  IF whole = {} THEN 0 .. limit - 1
      ELSE {p - anchor : p \in anchorScan(bytes, anchor, limit, pattern[anchor + 1].b)}

\* A pattern is looked for by its first byte that has no wildcard, which lies
\* anchor bytes after the start.
scanBufferAOB(pattern, bytes) ==
  LET limit == Len(bytes) - Len(pattern) + 1
      whole == {i \in DOMAIN pattern : pattern[i].mask = "all"}
      anchor == Min(whole) - 1
  IN  IF whole = {} THEN 0 .. limit - 1
      ELSE {p - anchor : p \in anchorScan(bytes, anchor, limit + anchor, pattern[anchor + 1].b)}

\* A search for every type at once tries each offset the chunk owns; a window
\* cut short by the end of the buffer is padded, and keeps the types it holds.
scanBufferAllTypes(cfg, bytes, emitLimit) ==
  {o \in 0 .. Min({emitLimit, Len(bytes)}) - 1 : o % stride(cfg) = 0}

\* Where a buffer is looked at closely.
Candidates(cfg, bytes, emitLimit) ==
  CASE cfg.kind = "all" -> scanBufferAllTypes(cfg, bytes, emitLimit)
    [] cfg.kind = "text" -> scanBufferString(cfg, bytes)
    [] cfg.kind = "aob" -> scanBufferAOB(cfg.pat, bytes)
    [] cfg.kind = "float" /\ cfg.cmp = "exact" /\ step(cfg) = 2 ->
         IF cfg.rounding = "none" THEN scanExactFloat(cfg, bytes) ELSE scanRoundedFloat(cfg, bytes)
    [] OTHER -> scanOffsets(cfg, Len(bytes))

\* A formula is tried on one offset after the other.
scanCustom(cfg, bytes, state) ==
  LET Try(acc, o) ==
        LET r == evalFormula(cfg.pat, acc.state, readScanScalar(SubSeq(bytes, o + 1, o + 2), 2))
        IN  [state |-> r.state, hits |-> IF r.match THEN acc.hits \cup {o} ELSE acc.hits]
  IN  FoldLeft(Try, [state |-> state, hits |-> {}], SetToSortSeq(scanOffsets(cfg, Len(bytes)), <))

Formula(cfg) == cfg.kind = "custom" /\ cfg.cmp = "exact"

\* The matches in a buffer read at base, in the order of their addresses.
scanRegion(cfg, bytes, base, emitLimit, state) ==
  LET size == valueSizeForConfig(cfg)
      n == Len(bytes)
      Types(o) == {w \in allCandidateWidths(cfg) :
                     o + w <= n /\ literalMatch(cfg, SubSeq(bytes, o + 1, o + w), w)}
      hits == IF Formula(cfg) THEN scanCustom(cfg, bytes, state).hits
              ELSE {o \in Candidates(cfg, bytes, emitLimit) : Types(o) # {}}
  IN  [i \in 1 .. Cardinality(hits) |->
         LET o == SetToSortSeq(hits, <)[i]
             window == Padded(bytes, o, size)
         IN  [addr |-> base + o, val |-> window, first |-> window,
              types |-> IF Formula(cfg) THEN {size} ELSE Types(o)]]

\* Whether a page nobody touched, which reads as zeros, can hold a match; a
\* formula may say so of anything.
zeroMatches(cfg) == Formula(cfg) \/ scanRegion(cfg, [i \in 1 .. 4 |-> 0], 0, 4, "none") # <<>>

-----------------------------------------------------------------------------
(* Writing a result *)

\* A writer as opened: files empty, nothing buffered, no frame yet.  A first
\* scan's values are its first values, so that file is left out.
NewResult(storeFirst) ==
  [off |-> <<>>, val |-> <<>>, fst |-> <<>>, storeFirst |-> storeFirst, buf |-> <<>>,
   frames |-> <<>>, base |-> 0, n |-> 0, count |-> 0, err |-> FALSE, frameFile |-> <<>>]

\* Mutant: a failed write of the values goes unnoticed.
flush_Unmarked(w, bad) ==
  IF w.buf = <<>> THEN w
  ELSE [w EXCEPT
    !.off = @ \o (IF bad = "off" THEN <<>> ELSE [i \in DOMAIN w.buf |-> [o |-> w.buf[i].o, types |-> w.buf[i].types]]),
    !.val = @ \o (IF bad = "val" THEN <<>> ELSE [i \in DOMAIN w.buf |-> w.buf[i].val]),
    !.fst = @ \o (IF ~w.storeFirst \/ bad = "fst" THEN <<>> ELSE [i \in DOMAIN w.buf |-> w.buf[i].first]),
    !.buf = <<>>,
    !.err = @ \/ bad = "off"]

\* The buffered records go to the files; bad names the file whose write fails.
flush(w, bad) ==
  IF w.buf = <<>> THEN w
  ELSE [w EXCEPT
    !.off = @ \o (IF bad = "off" THEN <<>> ELSE [i \in DOMAIN w.buf |-> [o |-> w.buf[i].o, types |-> w.buf[i].types]]),
    !.val = @ \o (IF bad = "val" THEN <<>> ELSE [i \in DOMAIN w.buf |-> w.buf[i].val]),
    !.fst = @ \o (IF ~w.storeFirst \/ bad = "fst" THEN <<>> ELSE [i \in DOMAIN w.buf |-> w.buf[i].first]),
    !.buf = <<>>,
    !.err = @ \/ bad \in {"off", "val"} \/ (w.storeFirst /\ bad = "fst")]

\* A writer that has failed takes no more records.  An address outside the
\* span of the current frame closes the frame and opens one at that address.
addResult(w, rec, bad) ==
  LET fresh == w.n = 0 \/ rec.addr < w.base \/ rec.addr - w.base >= FrameSpan
      base == IF fresh THEN rec.addr ELSE w.base
      added == [w EXCEPT
        !.frames = IF fresh /\ w.n > 0 THEN Append(@, [base |-> w.base, count |-> w.n]) ELSE @,
        !.base = base,
        !.n = IF fresh THEN 1 ELSE @ + 1,
        !.buf = Append(@, [o |-> rec.addr - base, val |-> rec.val, first |-> rec.first, types |-> rec.types]),
        !.count = @ + 1]
  IN  IF w.err THEN w
      ELSE IF Len(added.buf) >= FlushAt THEN flush(added, bad) ELSE added

addResults(w, recs, bad) == FoldLeft(LAMBDA a, r : addResult(a, r, bad), w, recs)

\* The last records are written, then the table of frames.
finalize(w, bad) ==
  LET f == flush(w, bad)
      frames == IF f.n > 0 THEN Append(f.frames, [base |-> f.base, count |-> f.n]) ELSE f.frames
  IN  [f EXCEPT !.frames = frames, !.n = 0,
                !.frameFile = IF bad = "frames" THEN <<>> ELSE frames,
                !.err = @ \/ (bad = "frames" /\ frames # <<>>)]

-----------------------------------------------------------------------------
(* Reading a result back *)

\* The files a finished worker leaves.
Files(w) == [off |-> w.off, val |-> w.val, fst |-> w.fst, storeFirst |-> w.storeFirst,
             frames |-> w.frameFile]

Total(counts) == FoldLeft(LAMBDA a, c : a + c, 0, counts)
FrameTotal(s) == FoldLeft(LAMBDA a, f : a + f.count, 0, s.frames)
FileBytes(seq) == FoldLeft(LAMBDA a, v : a + Len(v), 0, seq)

\* The value size a worker's files imply, 0 when there is nothing in them.
recordStride(s) == IF s.off = <<>> THEN 0 ELSE FileBytes(s.val) \div Len(s.off)

\* What loading accepts of one worker's files: as many records as the
\* manifest says, frames that cover them, values that divide evenly.
addShard(s, expected) ==
  LET c == Len(s.off) IN
    /\ c = expected
    /\ FrameTotal(s) = c
    /\ IF c = 0 THEN s.val = <<>> ELSE s.val # <<>> /\ FileBytes(s.val) % c = 0
    /\ s.storeFirst => FileBytes(s.fst) = FileBytes(s.val)

\* Loading: one worker that does not agree spoils the whole result.
loadShards(shards, counts) ==
  LET sizes == {recordStride(shards[i]) : i \in DOMAIN shards} \ {0}
      ok == /\ \A i \in DOMAIN shards : addShard(shards[i], counts[i])
            /\ Cardinality(sizes) <= 1
  IN  [ok |-> ok, size |-> IF ok /\ sizes # {} THEN CHOOSE s \in sizes : TRUE ELSE 0]

\* The address of a worker's i-th record: the frame its index falls in.
reconstruct(s, i) ==
  LET before(k) == FoldLeft(LAMBDA a, f : a + f.count, 0, SubSeq(s.frames, 1, k - 1))
      owner == {k \in DOMAIN s.frames : i > before(k) /\ i <= before(k) + s.frames[k].count}
  IN  IF owner = {} THEN 0 ELSE s.frames[CHOOSE k \in owner : TRUE].base + s.off[i].o

\* The types a record still stands for.
allTypeCandidates(s, i) == s.off[i].types

\* One worker's records; first values fall back to the values when the file
\* of first values does not exist.
ShardRecords(s) ==
  [i \in DOMAIN s.off |->
     [addr |-> reconstruct(s, i), val |-> s.val[i],
      first |-> IF s.storeFirst THEN s.fst[i] ELSE s.val[i], types |-> allTypeCandidates(s, i)]]

\* Every record of a result, across its workers' files.
ShardReader(shards) == FlattenSeq([i \in DOMAIN shards |-> ShardRecords(shards[i])])
=============================================================================
