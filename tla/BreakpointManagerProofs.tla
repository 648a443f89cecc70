----------------------- MODULE BreakpointManagerProofs -----------------------
(***************************************************************************)
(* Machine-checked proofs about BreakpointManager, for any set of threads, *)
(* any number of registers and any limits.  The inductive invariant is the *)
(* conjunction of the three invariants the runs check.                     *)
(***************************************************************************)
EXTENDS BreakpointManager, WellFoundedInduction, TLAPS

IInv == TypeOK /\ RegistersExclusive /\ LogsLive

\* findFreeHwRegisterUnlocked answers -1 or a register no enabled hardware
\* breakpoint holds.
LEMMA FreeRegisterIsFree ==
    ASSUME NEW bps
    PROVE  \/ FindFreeHwRegister(bps) = -1
           \/ FindFreeHwRegister(bps) \in Reg \ UsedRegisters(bps)
<1> DEFINE free == Reg \ UsedRegisters(bps)
           less == OpToRel(<, Nat)
<1>1. CASE free = {}
  BY <1>1 DEF FindFreeHwRegister
<1>2. CASE free # {}
  <2>1. free \subseteq Nat
    BY ManagerConstants DEF Reg
  <2>2. PICK r \in free : \A q \in free : ~ (<<q, r>> \in less)
    <3> HIDE DEF free, less
    <3>1. IsWellFoundedOn(less, Nat)
      BY NatLessThanWellFounded DEF less
    <3> QED BY <3>1, <1>2, <2>1, WFMin
  <2>3. \A q \in free : r <= q
    <3> SUFFICES ASSUME NEW q \in free PROVE r <= q
      OBVIOUS
    <3>1. q \in Nat /\ r \in Nat
      BY <2>1
    <3>2. ~ (q < r)
      BY <2>2, <3>1 DEF OpToRel
    <3> HIDE DEF free, less
    <3> QED BY <3>1, <3>2
  <2>4. FindFreeHwRegister(bps) \in free
    BY <1>2, <2>2, <2>3, Zenon DEF FindFreeHwRegister
  <2> QED BY <2>4
<1> QED BY <1>1, <1>2

\* The manager starts empty, with every register free.
LEMMA InitIInv == Init => IInv
<1> SUFFICES ASSUME Init PROVE IInv
  OBVIOUS
<1>1. TypeOK
  BY ManagerConstants DEF Init, TypeOK, Id, Idle, Reg
<1>2. RegistersExclusive /\ LogsLive
  BY DEF Init, RegistersExclusive, LogsLive
<1> QED BY <1>1, <1>2 DEF IInv

\* add keeps registers exclusive: a register the caller names is checked
\* against the ones in use, one the manager picks is free.
LEMMA AddStep ==
    ASSUME IInv, NEW b \in Request, Add(b)
    PROVE  IInv'
<1> DEFINE reg == AddRegister(b)
           new == [b EXCEPT !.reg = reg]
<1>1. reg \in Reg \cup {-1}
  BY FreeRegisterIsFree, Zenon DEF AddRegister, Request, Bp
<1>2. /\ b \in Bp /\ new \in Bp
      /\ new.hw = b.hw /\ new.enabled = b.enabled /\ new.reg = reg
  BY <1>1 DEF Request, Bp
<1>3. /\ nextId \in Id /\ nextId < IntMax /\ nextId' = nextId + 1 /\ nextId' \in Id
      /\ 1..(nextId - 1) \subseteq 1..(nextId' - 1)
      /\ nextId \notin 1..(nextId - 1) /\ nextId \in 1..(nextId' - 1)
      /\ 0..(nextId - 1) \subseteq 0..(nextId' - 1)
  BY ManagerConstants DEF IInv, TypeOK, Add, Id
<1>4. /\ DOMAIN breakpoints' = DOMAIN breakpoints \cup {nextId}
      /\ breakpoints'[nextId] = new
      /\ \A i \in DOMAIN breakpoints : i # nextId /\ breakpoints'[i] = breakpoints[i]
      /\ breakpoints' = [i \in DOMAIN breakpoints' |-> breakpoints'[i]]
  BY <1>3 DEF IInv, TypeOK, Add
<1>5. UNCHANGED <<hitLog, dr, hits, delivered, removed>>
  BY DEF Add
<1>6. TypeOK'
  <2>1. dr' \in [Thread -> [Reg -> 0..(nextId' - 1)]]
    BY <1>3, <1>5 DEF IInv, TypeOK
  <2>2. hits' \in [Hitter -> {Idle} \cup [id : 1..(nextId' - 1), tid : Thread]]
    BY <1>3, <1>5 DEF IInv, TypeOK
  <2> QED BY <1>2, <1>3, <1>4, <1>5, <2>1, <2>2 DEF IInv, TypeOK, Reg, Id, Idle
<1>7. b.hw /\ b.enabled => reg \in Reg \ UsedRegisters(breakpoints)
  BY <1>1 DEF Add
<1>8. \A i \in DOMAIN breakpoints :
        breakpoints[i].hw /\ breakpoints[i].enabled
          => breakpoints[i].reg \in UsedRegisters(breakpoints)
  BY DEF IInv, RegistersExclusive, UsedRegisters
<1>9. RegistersExclusive'
  <2> HIDE DEF new, reg
  <2> QED BY <1>2, <1>4, <1>7, <1>8 DEF IInv, RegistersExclusive, Reg
<1>10. LogsLive'
  BY <1>3, <1>4, <1>5 DEF IInv, LogsLive, TypeOK
<1> QED BY <1>6, <1>9, <1>10 DEF IInv

\* remove only takes entries away.
LEMMA RemoveStep ==
    ASSUME IInv, NEW id \in 1..(nextId - 1), Remove(id)
    PROVE  IInv'
<1>1. TypeOK'
  BY DEF IInv, TypeOK, Remove, Reg, Id, Idle
<1>2. RegistersExclusive'
  BY DEF IInv, RegistersExclusive, Remove, Reg
<1>3. LogsLive'
  BY DEF IInv, LogsLive, Remove
<1> QED BY <1>1, <1>2, <1>3 DEF IInv

\* setEnabled gives a breakpoint that becomes enabled a free register.
LEMMA SetEnabledStep ==
    ASSUME IInv, NEW id, NEW on \in BOOLEAN, SetEnabled(id, on)
    PROVE  IInv'
<1> DEFINE b == breakpoints[id]
           moves == on /\ ~b.enabled /\ b.hw
           reg == IF moves THEN FindFreeHwRegister(breakpoints) ELSE b.reg
           en == IF moves /\ reg = -1 THEN b.enabled ELSE on
           new == breakpoints'[id]
<1>1. id \in DOMAIN breakpoints /\ b \in Bp
  BY DEF IInv, TypeOK, SetEnabled
<1>2. reg \in Reg \cup {-1} /\ (moves /\ reg # -1 => reg \in Reg \ UsedRegisters(breakpoints))
  BY <1>1, FreeRegisterIsFree, Zenon DEF Bp
<1>3. /\ new = [b EXCEPT !.reg = reg, !.enabled = en]
      /\ DOMAIN breakpoints' = DOMAIN breakpoints
      /\ \A i \in DOMAIN breakpoints : i # id => breakpoints'[i] = breakpoints[i]
      /\ breakpoints' = [i \in DOMAIN breakpoints' |-> breakpoints'[i]]
  BY <1>1 DEF SetEnabled
<1>4. en \in BOOLEAN /\ new \in Bp /\ new.reg = reg /\ new.enabled = en /\ new.hw = b.hw
  <2>1. en \in BOOLEAN
    BY <1>1 DEF Bp
  <2> HIDE DEF en, reg, new
  <2> QED BY <1>1, <1>2, <1>3, <2>1 DEF Bp
<1>5. UNCHANGED <<nextId, hitLog, dr, hits, delivered, removed>>
  BY DEF SetEnabled
<1>6. TypeOK'
  <2> HIDE DEF new
  <2>1. \A i \in DOMAIN breakpoints' : breakpoints'[i] \in Bp
    BY <1>3, <1>4 DEF IInv, TypeOK, new
  <2> QED BY <1>3, <1>5, <2>1 DEF IInv, TypeOK, Reg, Id, Idle
<1>7. \A i \in DOMAIN breakpoints :
        breakpoints[i].hw /\ breakpoints[i].enabled
          => breakpoints[i].reg \in UsedRegisters(breakpoints)
  BY DEF IInv, RegistersExclusive, UsedRegisters
<1>8. \A i \in DOMAIN breakpoints : i # id /\ new.hw /\ new.enabled
          /\ breakpoints[i].hw /\ breakpoints[i].enabled => new.reg # breakpoints[i].reg
  <2> SUFFICES ASSUME NEW i \in DOMAIN breakpoints, i # id, new.hw, new.enabled,
                      breakpoints[i].hw, breakpoints[i].enabled
               PROVE  new.reg # breakpoints[i].reg
    OBVIOUS
  <2>1. CASE moves
    BY <1>2, <1>4, <1>7, <2>1
  <2>2. CASE ~moves
    <3>1. b.enabled /\ b.hw /\ reg = b.reg
      BY <1>1, <1>4, <2>2 DEF Bp
    <3> QED BY <1>1, <1>4, <3>1 DEF IInv, RegistersExclusive
  <2> QED BY <2>1, <2>2
<1>9. new.hw /\ new.enabled => new.reg \in Reg
  <2>1. CASE moves
    BY <1>1, <1>2, <1>4, <2>1 DEF Bp
  <2>2. CASE ~moves
    BY <1>1, <1>4, <2>2 DEF Bp, IInv, RegistersExclusive
  <2> QED BY <2>1, <2>2
<1>10. RegistersExclusive'
  <2> HIDE DEF new, reg, en, moves
  <2>1. /\ DOMAIN breakpoints' = DOMAIN breakpoints
        /\ \A i \in DOMAIN breakpoints : i # id => breakpoints'[i] = breakpoints[i]
        /\ breakpoints'[id] = new
    BY <1>3 DEF new
  <2> QED BY <2>1, <1>8, <1>9 DEF IInv, RegistersExclusive, Reg
<1>11. LogsLive'
  BY <1>3, <1>5 DEF IInv, LogsLive
<1> QED BY <1>6, <1>10, <1>11 DEF IInv

\* Arming and disarming a thread touches its debug registers only, and writes
\* there the id of a listed breakpoint or 0.
LEMMA ThreadStep ==
    ASSUME IInv, NEW t \in Thread, ApplyToThread(t) \/ RemoveFromThread(t)
    PROVE  IInv'
<1>1. UNCHANGED <<breakpoints, nextId, hitLog, hits, delivered, removed>>
  BY DEF ApplyToThread, RemoveFromThread
<1>2. \A q \in Applicable(t) : q \in 0..(nextId - 1)
  BY DEF IInv, TypeOK, Applicable, Id
<1>3. dr' \in [Thread -> [Reg -> 0..(nextId - 1)]]
  <2>1. CASE ApplyToThread(t)
    <3>1. PICK n : dr' = [dr EXCEPT ![t] = [r \in Reg |->
              IF \E i \in {j \in Applicable(t) : j < n} : breakpoints[i].reg = r
              THEN CHOOSE i \in {j \in Applicable(t) : j < n} : breakpoints[i].reg = r
              ELSE dr[t][r]]]
      BY <2>1, Zenon DEF ApplyToThread
    <3> DEFINE row == dr'[t]
    <3>2. \A r \in Reg : row[r] \in 0..(nextId - 1)
      BY <1>2, <3>1 DEF IInv, TypeOK
    <3> QED BY <3>1, <3>2 DEF IInv, TypeOK
  <2>2. CASE RemoveFromThread(t)
    <3>1. PICK kept : dr' = [dr EXCEPT ![t] = [r \in Reg |->
              IF r \notin kept /\ \E i \in Applicable(t) : breakpoints[i].reg = r
              THEN 0 ELSE dr[t][r]]]
      BY <2>2, Zenon DEF RemoveFromThread
    <3>2. 0 \in 0..(nextId - 1)
      BY DEF IInv, TypeOK, Id
    <3> QED BY <3>1, <3>2 DEF IInv, TypeOK
  <2> QED BY <2>1, <2>2
<1> QED BY <1>1, <1>3 DEF IInv, TypeOK, RegistersExclusive, LogsLive, Reg, Id, Idle

\* recordHit's first half and its refusal change only the call in progress.
LEMMA HitCallStep ==
    ASSUME IInv, NEW h \in Hitter,
           \/ HitDrop(h)
           \/ \E id \in 1..(nextId - 1), t \in Thread : HitBegin(h, id, t)
    PROVE  IInv'
<1>1. UNCHANGED <<breakpoints, nextId, hitLog, dr, delivered, removed>>
  BY DEF HitDrop, HitBegin
<1>2. hits' \in [Hitter -> {Idle} \cup [id : 1..(nextId - 1), tid : Thread]]
  BY DEF IInv, TypeOK, HitDrop, HitBegin
<1> QED BY <1>1, <1>2 DEF IInv, TypeOK, RegistersExclusive, LogsLive, Reg, Id, Idle

\* recordHit's second half: the log stays within its cap, and because the
\* breakpoint is looked up again it is one that was not removed.
LEMMA HitCommitStep ==
    ASSUME IInv, NEW h \in Hitter, HitCommit(h)
    PROVE  IInv'
<1> DEFINE id == hits[h].id
           b == breakpoints[id]
           count == IF b.hitCount < IntMax THEN b.hitCount + 1 ELSE b.hitCount
           new == [b EXCEPT !.hitCount = count]
<1>1. id \in DOMAIN breakpoints /\ id \in 1..(nextId - 1) /\ b \in Bp
  BY DEF IInv, TypeOK, HitCommit, StillLive
<1>2. /\ new \in Bp /\ new.hw = b.hw /\ new.enabled = b.enabled /\ new.reg = b.reg
  <2>1. count \in 0..IntMax
    BY <1>1, ManagerConstants DEF Bp
  <2> HIDE DEF count
  <2> QED BY <1>1, <2>1 DEF Bp
<1>3. /\ DOMAIN breakpoints' \subseteq DOMAIN breakpoints
      /\ \A i \in DOMAIN breakpoints' :
            breakpoints'[i] = IF i = id THEN new ELSE breakpoints[i]
      /\ breakpoints' = [i \in DOMAIN breakpoints' |-> breakpoints'[i]]
  <2> HIDE DEF new
  <2>1. CASE b.oneShot
    BY <1>1, <2>1 DEF HitCommit
  <2>2. CASE ~b.oneShot
    BY <1>1, <2>2 DEF HitCommit, new
  <2> QED BY <2>1, <2>2
<1>4. /\ DOMAIN hitLog' = DOMAIN hitLog \cup {id}
      /\ hitLog'[id] = LogPush(LogLength(id))
      /\ \A i \in DOMAIN hitLog : i # id => hitLog'[i] = hitLog[i]
      /\ hitLog' = [i \in DOMAIN hitLog' |-> hitLog'[i]]
  BY DEF HitCommit
<1>5. LogPush(LogLength(id)) \in Nat /\ LogPush(LogLength(id)) <= LogCap
  <2>1. LogLength(id) \in Nat /\ LogLength(id) <= LogCap
    BY ManagerConstants DEF IInv, TypeOK, LogsLive, LogLength
  <2> QED BY <2>1, ManagerConstants DEF LogPush
<1>6. UNCHANGED <<nextId, dr, removed>>
  BY DEF HitCommit
<1>7. /\ delivered' \in [Id -> BOOLEAN]
      /\ hits' \in [Hitter -> {Idle} \cup [id : 1..(nextId - 1), tid : Thread]]
  BY DEF IInv, TypeOK, HitCommit
<1> HIDE DEF id, b, count, new
<1>8. TypeOK'
  <2>1. \A i \in DOMAIN breakpoints' : breakpoints'[i] \in Bp
    BY <1>2, <1>3 DEF IInv, TypeOK
  <2>2. hitLog' \in [DOMAIN hitLog' -> Nat]
    BY <1>4, <1>5 DEF IInv, TypeOK
  <2> QED BY <1>1, <1>3, <1>4, <1>6, <1>7, <2>1, <2>2 DEF IInv, TypeOK, Reg
<1>9. RegistersExclusive'
  BY <1>2, <1>3 DEF IInv, RegistersExclusive, Reg, b
<1>10. LogsLive'
  BY <1>1, <1>3, <1>4, <1>5, <1>6 DEF IInv, LogsLive
<1> QED BY <1>8, <1>9, <1>10 DEF IInv

LEMMA ClearHitsStep ==
    ASSUME IInv, NEW id, ClearHits(id)
    PROVE  IInv'
<1>1. TypeOK'
  BY DEF IInv, TypeOK, ClearHits, Reg, Id, Idle
<1> QED BY <1>1 DEF IInv, ClearHits, RegistersExclusive, LogsLive, Reg

\* The invariant is inductive.
LEMMA NextIInv == IInv /\ [Next]_vars => IInv'
<1> SUFFICES ASSUME IInv, [Next]_vars PROVE IInv'
  OBVIOUS
<1>1. CASE \E b \in Request : Add(b)
  BY <1>1, AddStep
<1>2. CASE \E id \in 1..(nextId - 1) : Remove(id)
  BY <1>2, RemoveStep
<1>3. CASE \E id \in 1..(nextId - 1) : ClearHits(id)
  BY <1>3, ClearHitsStep
<1>4. CASE \E id \in 1..(nextId - 1), on \in BOOLEAN : SetEnabled(id, on)
  BY <1>4, SetEnabledStep
<1>5. CASE \E id \in 1..(nextId - 1), h \in Hitter, t \in Thread : HitBegin(h, id, t)
  BY <1>5, HitCallStep
<1>6. CASE \E h \in Hitter : HitCommit(h)
  BY <1>6, HitCommitStep
<1>7. CASE \E h \in Hitter : HitDrop(h)
  BY <1>7, HitCallStep
<1>8. CASE \E t \in Thread : ApplyToThread(t) \/ RemoveFromThread(t)
  BY <1>8, ThreadStep
<1>9. CASE UNCHANGED vars
  BY <1>9 DEF vars, IInv, TypeOK, RegistersExclusive, LogsLive, Reg, Id, Idle
<1> QED BY <1>1, <1>2, <1>3, <1>4, <1>5, <1>6, <1>7, <1>8, <1>9 DEF Next

\* BreakpointManager: the table, the hits in flight and the threads' debug
\* registers keep their types, whatever add, remove, setEnabled and recordHit
\* calls interleave.
THEOREM ManagerTypes == Spec => []TypeOK
<1>1. IInv => TypeOK
  BY DEF IInv
<1> QED BY <1>1, InitIInv, NextIInv, PTL DEF Spec

\* In every run of the manager, ids are unique, two enabled hardware
\* breakpoints never share a debug register, and no log outlives its cap or
\* the removal of its breakpoint.
THEOREM ManagerInvariant == Spec => []TableSound
<1>1. IInv => TableSound
  BY DEF IInv, TableSound
<1> QED BY <1>1, InitIInv, NextIInv, PTL DEF Spec

\* recordHit delivers only hits of a breakpoint that is listed and enabled at
\* that moment, and a one-shot breakpoint at most once.
THEOREM ManagerDelivers == Spec => DeliveredOnlyLive
<1>1. IInv /\ [Next]_vars =>
        [\A i \in Id : delivered'[i] # delivered[i] =>
           /\ i \in DOMAIN breakpoints /\ breakpoints[i].enabled
           /\ breakpoints[i].oneShot => i \notin DOMAIN breakpoints']_vars
  <2> SUFFICES ASSUME IInv, Next, NEW i \in Id, delivered'[i] # delivered[i]
               PROVE  /\ i \in DOMAIN breakpoints /\ breakpoints[i].enabled
                      /\ breakpoints[i].oneShot => i \notin DOMAIN breakpoints'
    OBVIOUS
  <2>1. PICK h \in Hitter : HitCommit(h)
    BY DEF Next, Add, Remove, ClearHits, SetEnabled, HitBegin, HitDrop,
           ApplyToThread, RemoveFromThread
  <2>2. i = hits[h].id
    BY <2>1 DEF HitCommit, IInv, TypeOK
  <2> QED BY <2>1, <2>2 DEF HitCommit, StillLive
<1> QED BY <1>1, InitIInv, NextIInv, PTL DEF Spec, DeliveredOnlyLive
=============================================================================
