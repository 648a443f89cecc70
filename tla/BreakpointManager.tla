-------------------------- MODULE BreakpointManager --------------------------
(***************************************************************************)
(* BreakpointManager (debug/breakpoint_manager.cpp): the shared table of   *)
(* user breakpoints.  Every method takes the manager's mutex, so it is one *)
(* atomic action, except recordHit: it copies the breakpoint under the     *)
(* mutex, evaluates the Lua condition with the mutex released, and commits *)
(* the hit under the mutex again.  Any number of debugger threads may be   *)
(* between the two halves.                                                 *)
(***************************************************************************)
EXTENDS Integers, FiniteSets

CONSTANTS
    Thread,     \* target threads (pid_t)
    Hitter,     \* debugger threads that may be inside recordHit
    AnyThread,  \* threadFilter 0: the breakpoint applies to all threads
    NReg,       \* hardware slots: DR0..DR3, 4 on x86
    IntMax,     \* numeric_limits<int>::max(), the limit of ids and hit counts
    LogCap,     \* hit log entries kept per breakpoint, 10000
    LogDrop     \* entries dropped from the front when the log overflows, 5000

ASSUME ManagerConstants ==
    /\ NReg \in Nat \ {0}
    /\ IntMax \in Nat \ {0}
    /\ LogCap \in Nat \ {0}
    /\ LogDrop \in 1..LogCap
    /\ AnyThread \notin Thread

VARIABLES
    breakpoints,  \* breakpoints_: id -> record; the vector's order is id order
    nextId,       \* nextId_
    hitLog,       \* hitLog_: id -> number of logged hits
    dr,           \* the threads' debug registers: the id armed there, 0 if none
    hits,         \* calls in progress of recordHit
    delivered,    \* history: flips with every delivery to the user, per id
    removed       \* history: ids the user removed

vars == <<breakpoints, nextId, hitLog, dr, hits, delivered, removed>>

Reg == 0..(NReg - 1)
Id == 1..IntMax
Bp == [hw : BOOLEAN, reg : Reg \cup {-1}, enabled : BOOLEAN, oneShot : BOOLEAN,
       filter : Thread \cup {AnyThread}, encodable : BOOLEAN, hitCount : 0..IntMax]

\* recordHit has not been entered.
Idle == [id |-> 0, tid |-> AnyThread]

Passes(b, t) == b.filter \in {AnyThread, t}

-----------------------------------------------------------------------------
UsedRegisters(bps) ==
    {bps[i].reg : i \in {j \in DOMAIN bps : bps[j].hw /\ bps[j].enabled}} \cap Reg

\* The lowest free register, -1 when all are in use.
FindFreeHwRegister(bps) ==
    LET free == Reg \ UsedRegisters(bps)
    IN IF free = {} THEN -1 ELSE CHOOSE r \in free : \A q \in free : r <= q

Init ==
    /\ breakpoints = [i \in {} |-> 0]
    /\ nextId = 1
    /\ hitLog = [i \in {} |-> 0]
    /\ dr = [t \in Thread |-> [r \in Reg |-> 0]]
    /\ hits = [h \in Hitter |-> Idle]
    /\ delivered = [i \in Id |-> FALSE]
    /\ removed = {}

\* add: the register is the caller's choice or, for -1, the first free one.
\* A request beyond the last register is refused, and so is an enabled
\* breakpoint without a register or on a register already in use.
AddRegister(b) == IF b.hw /\ b.reg = -1 THEN FindFreeHwRegister(breakpoints) ELSE b.reg

\* Mutant of Add: the id counter is not advanced, so the next add reuses it.
Add_IdNotAdvanced(b) ==
    /\ breakpoints' = [i \in DOMAIN breakpoints \cup {nextId} |->
                         IF i = nextId THEN [b EXCEPT !.reg = AddRegister(b)]
                         ELSE breakpoints[i]]
    /\ UNCHANGED <<nextId, hitLog, dr, hits, delivered, removed>>

Add(b) ==
    LET reg == AddRegister(b)
    IN /\ b.hw /\ b.enabled => reg # -1 /\ reg \notin UsedRegisters(breakpoints)
       /\ nextId < IntMax
       /\ breakpoints' = [i \in DOMAIN breakpoints \cup {nextId} |->
                            IF i = nextId THEN [b EXCEPT !.reg = reg] ELSE breakpoints[i]]
       /\ nextId' = nextId + 1
       /\ UNCHANGED <<hitLog, dr, hits, delivered, removed>>

\* remove: forgets the breakpoint and its log.  The threads keep whatever
\* applyToThread programmed.
Remove(id) ==
    /\ breakpoints' = [i \in DOMAIN breakpoints \ {id} |-> breakpoints[i]]
    /\ hitLog' = [i \in DOMAIN hitLog \ {id} |-> hitLog[i]]
    /\ removed' = removed \cup {id}
    /\ UNCHANGED <<nextId, dr, hits, delivered>>

\* setEnabled: enabling a disabled hardware breakpoint picks a register anew;
\* with none free only the register is lost (-1) and it stays disabled.
\* Mutant of SetEnabled: a breakpoint comes back on the register it had.
SetEnabled_KeepsRegister(id, on) ==
    /\ id \in DOMAIN breakpoints
    /\ breakpoints' = [breakpoints EXCEPT ![id].enabled = on]
    /\ UNCHANGED <<nextId, hitLog, dr, hits, delivered, removed>>

SetEnabled(id, on) ==
    LET b == breakpoints[id]
        moves == on /\ ~b.enabled /\ b.hw
        reg == IF moves THEN FindFreeHwRegister(breakpoints) ELSE b.reg
    IN /\ id \in DOMAIN breakpoints
       /\ breakpoints' = [breakpoints EXCEPT ![id].reg = reg,
                            ![id].enabled = IF moves /\ reg = -1 THEN @ ELSE on]
       /\ UNCHANGED <<nextId, hitLog, dr, hits, delivered, removed>>

-----------------------------------------------------------------------------
Applicable(t) ==
    {i \in DOMAIN breakpoints :
        LET b == breakpoints[i] IN b.hw /\ b.enabled /\ b.reg # -1 /\ Passes(b, t)}

\* applyToThread arms the applicable breakpoints in id order and gives up at
\* the first one it cannot encode or the debugger refuses (id n), leaving the
\* earlier ones armed.
ApplyToThread(t) ==
    \E n \in Applicable(t) \cup {IntMax + 1} :
        LET done == {i \in Applicable(t) : i < n}
        IN /\ \A i \in done : breakpoints[i].encodable
           /\ dr' = [dr EXCEPT ![t] = [r \in Reg |->
                       IF \E i \in done : breakpoints[i].reg = r
                       THEN CHOOSE i \in done : breakpoints[i].reg = r ELSE dr[t][r]]]
           /\ UNCHANGED <<breakpoints, nextId, hitLog, hits, delivered, removed>>

\* removeFromThread clears the registers of the breakpoints enabled now; a
\* register the debugger cannot clear (kept) does not stop the others.
RemoveFromThread(t) ==
    \E kept \in SUBSET {breakpoints[i].reg : i \in Applicable(t)} :
        /\ dr' = [dr EXCEPT ![t] = [r \in Reg |->
                    IF r \notin kept /\ \E i \in Applicable(t) : breakpoints[i].reg = r
                    THEN 0 ELSE dr[t][r]]]
        /\ UNCHANGED <<breakpoints, nextId, hitLog, hits, delivered, removed>>

-----------------------------------------------------------------------------
\* recordHit, first half: the breakpoint exists, is enabled, is not filtered
\* out, and its condition (evaluated on the copy, unlocked) may match.
HitBegin(h, id, t) ==
    /\ hits[h] = Idle
    /\ id \in DOMAIN breakpoints
    /\ breakpoints[id].enabled /\ Passes(breakpoints[id], t)
    /\ hits' = [hits EXCEPT ![h] = [id |-> id, tid |-> t]]
    /\ UNCHANGED <<breakpoints, nextId, hitLog, dr, delivered, removed>>

\* Mutants of StillLive: the second look is left out, or finds the breakpoint
\* but forgets that it may have been disabled meanwhile.
StillLive_NotChecked(id, t) == TRUE

StillLive_DisabledToo(id, t) == id \in DOMAIN breakpoints /\ Passes(breakpoints[id], t)

\* What recordHit checks again once it holds the mutex for the second time.
StillLive(id, t) ==
    /\ id \in DOMAIN breakpoints
    /\ breakpoints[id].enabled
    /\ Passes(breakpoints[id], t)

LogLength(id) == IF id \in DOMAIN hitLog THEN hitLog[id] ELSE 0

\* The length of a log of n entries after one more: the oldest go at the cap.
LogPush(n) == IF n + 1 > LogCap THEN n + 1 - LogDrop ELSE n + 1

\* recordHit, second half: count (saturating), log, retire a one-shot
\* breakpoint, deliver.
HitCommit(h) ==
    LET id == hits[h].id
        b == breakpoints[id]
        count == IF b.hitCount < IntMax THEN b.hitCount + 1 ELSE b.hitCount
    IN /\ hits[h] # Idle
       /\ StillLive(id, hits[h].tid)
       /\ hitLog' = [i \in DOMAIN hitLog \cup {id} |->
                       IF i = id THEN LogPush(LogLength(id)) ELSE hitLog[i]]
       /\ breakpoints' =
            IF id \in DOMAIN breakpoints /\ b.oneShot
            THEN [i \in DOMAIN breakpoints \ {id} |-> breakpoints[i]]
            ELSE [i \in DOMAIN breakpoints |->
                    IF i = id THEN [b EXCEPT !.hitCount = count] ELSE breakpoints[i]]
       /\ delivered' = [delivered EXCEPT ![id] = ~@]
       /\ hits' = [hits EXCEPT ![h] = Idle]
       /\ UNCHANGED <<nextId, dr, removed>>

\* recordHit returns false: the condition did not match, or the second look
\* found the breakpoint gone, disabled or filtered out.
HitDrop(h) ==
    /\ hits[h] # Idle
    /\ hits' = [hits EXCEPT ![h] = Idle]
    /\ UNCHANGED <<breakpoints, nextId, hitLog, dr, delivered, removed>>

ClearHits(id) ==
    /\ id \in DOMAIN hitLog
    /\ hitLog' = [i \in DOMAIN hitLog \ {id} |-> hitLog[i]]
    /\ UNCHANGED <<breakpoints, nextId, dr, hits, delivered, removed>>

\* A request as callers build it: any register or auto, no hits yet.
Request == {b \in Bp : b.hitCount = 0 /\ (~b.hw => b.reg = -1 /\ b.encodable)}

Next ==
    \/ \E b \in Request : Add(b)
    \/ \E id \in 1..(nextId - 1) :
        \/ Remove(id)
        \/ ClearHits(id)
        \/ \E on \in BOOLEAN : SetEnabled(id, on)
        \/ \E h \in Hitter, t \in Thread : HitBegin(h, id, t)
    \/ \E h \in Hitter : HitCommit(h) \/ HitDrop(h)
    \/ \E t \in Thread : ApplyToThread(t) \/ RemoveFromThread(t)

Spec == Init /\ [][Next]_vars

-----------------------------------------------------------------------------
\* Every variable keeps the type its C++ counterpart has; ids are unique and
\* below nextId_.
TypeOK ==
    /\ nextId \in Id
    /\ DOMAIN breakpoints \subseteq 1..(nextId - 1)
    /\ \A i \in DOMAIN breakpoints : breakpoints[i] \in Bp
    /\ breakpoints = [i \in DOMAIN breakpoints |-> breakpoints[i]]
    /\ DOMAIN hitLog \subseteq 1..(nextId - 1)
    /\ hitLog \in [DOMAIN hitLog -> Nat]
    /\ dr \in [Thread -> [Reg -> 0..(nextId - 1)]]
    /\ hits \in [Hitter -> {Idle} \cup [id : 1..(nextId - 1), tid : Thread]]
    /\ delivered \in [Id -> BOOLEAN]
    /\ removed \subseteq 1..(nextId - 1)

\* Two enabled hardware breakpoints never hold the same debug register, and an
\* enabled one always holds one: add, setEnabled and a one-shot hit may come in
\* any order, with registers chosen by the caller or by the manager.
RegistersExclusive ==
    /\ \A i \in DOMAIN breakpoints :
        breakpoints[i].hw /\ breakpoints[i].enabled => breakpoints[i].reg \in Reg
    /\ \A i, j \in DOMAIN breakpoints :
        /\ i # j
        /\ breakpoints[i].hw /\ breakpoints[i].enabled
        /\ breakpoints[j].hw /\ breakpoints[j].enabled
        => breakpoints[i].reg # breakpoints[j].reg

\* A hit log never exceeds its cap, and a breakpoint the user removed has no
\* log: a recordHit that was evaluating its condition during the removal must
\* not bring the log back.
LogsLive ==
    /\ \A i \in DOMAIN hitLog : hitLog[i] <= LogCap
    /\ \A i \in removed : i \notin DOMAIN hitLog /\ i \notin DOMAIN breakpoints

\* A hit is delivered only for a breakpoint that is listed and enabled at that
\* very moment, and delivering a one-shot breakpoint retires it: however many
\* threads hit it at the same time, it is delivered once.
DeliveredOnlyLive ==
    [][\A i \in Id : delivered'[i] # delivered[i] =>
         /\ i \in DOMAIN breakpoints /\ breakpoints[i].enabled
         /\ breakpoints[i].oneShot => i \notin DOMAIN breakpoints']_vars

\* Registers are exclusive and logs belong to live breakpoints.
TableSound == TypeOK /\ RegistersExclusive /\ LogsLive
=============================================================================
