----------------------------- MODULE ScriptText -----------------------------
(***************************************************************************)
(* What AutoAssembler (core/autoasm.cpp) does with the text of a script    *)
(* before it touches the target: sections, conditional and Lua blocks,     *)
(* anonymous and undeclared labels, directives, the choice between {$try}  *)
(* and {$except}, and the passes that give every label its address.        *)
(*                                                                         *)
(* A line is a record whose field op is its kind; names and addresses are  *)
(* strings, memory is a function from addresses to values.                 *)
(***************************************************************************)
EXTENDS Naturals, Sequences, SequencesExt

CONSTANTS
  Place,      \* addresses that are written out ("game+1234"), by their text
  Func,       \* the target's functions, by name
  Runtime,    \* names that only the C library or the loader defines
  Long,       \* the values that start an instruction of two cells
  Near        \* the furthest a one-cell branch reaches

Names(lines, ops) == {lines[i].n : i \in {j \in DOMAIN lines : lines[j].op \in ops}}
Failed(st, e) == IF st.err = "" THEN [st EXCEPT !.err = e] ELSE st

(* [ENABLE] and [DISABLE]; without headers the whole script is [ENABLE]. *)
Section(script, name) == IF name \in DOMAIN script THEN script[name] ELSE <<>>

(* One directive or line of expandConditionalBlocks.  truth is what the Lua
   evaluator answers; a block it expands to is kept where it is active. *)
Conditional(truth, st, line) ==
  LET top == Last(st.stack)
      kept == Append(st.stack, [parent |-> st.active, taken |-> st.active /\ truth = "yes", seenElse |-> FALSE])
  IN CASE line.op = "if" ->
            IF st.active /\ truth = "error" THEN Failed(st, "condition error")
            ELSE [st EXCEPT !.stack = kept, !.active = st.active /\ truth = "yes"]
       [] line.op = "else" ->
            IF st.stack = <<>> \/ top.seenElse THEN Failed(st, "unexpected else")
            ELSE [st EXCEPT !.stack[Len(st.stack)].seenElse = TRUE,
                            !.active = top.parent /\ ~top.taken]
       [] line.op = "endif" ->
            IF st.stack = <<>> THEN Failed(st, "unexpected endif")
            ELSE [st EXCEPT !.stack = Front(@), !.active = top.parent]
       [] line.op = "lua" /\ st.active ->
            IF truth = "error" THEN Failed(st, "Lua error") ELSE [st EXCEPT !.out = @ \o line.body]
       [] OTHER -> IF st.active /\ line.op # "lua" THEN [st EXCEPT !.out = Append(@, line)] ELSE st

ExpandConditionals(lines, truth) ==
  LET end == FoldLeft(LAMBDA st, line : Conditional(truth, st, line),
                      [out |-> <<>>, stack |-> <<>>, active |-> TRUE, err |-> ""], lines)
  IN IF end.stack # <<>> THEN Failed(end, "no endif") ELSE end

(* "@@:" becomes a numbered label, "@F" the next one and "@B" the last. *)
AnonName == <<"anon1", "anon2", "anon3">>
ResolveAnonymous(lines) ==
  LET at == {i \in DOMAIN lines : lines[i].op = "at" /\ lines[i].n = "@@"}
      number(i) == AnonName[Cardinality({j \in at : j <= i})]
      next(i) == {j \in at : j > i}
      prior(i) == {j \in at : j < i}
      renamed(i) == IF i \in at THEN number(i)
                    ELSE IF lines[i].n = "@F" THEN number(Min(next(i)))
                    ELSE IF lines[i].n = "@B" THEN number(Max(prior(i))) ELSE lines[i].n
      named == [i \in DOMAIN lines |-> IF "n" \in DOMAIN lines[i] THEN [lines[i] EXCEPT !.n = renamed(i)] ELSE lines[i]]
      dangling == \E i \in DOMAIN lines :
        /\ "n" \in DOMAIN lines[i]
        /\ (lines[i].n = "@F" /\ next(i) = {}) \/ (lines[i].n = "@B" /\ prior(i) = {})
  IN IF dangling THEN [out |-> lines, err |-> "no anonymous label"]
     ELSE [out |-> [i \in 1 .. Cardinality(at) |-> [op |-> "label", n |-> AnonName[i]]] \o named, err |-> ""]

(* A name defined in the script and declared nowhere is a label, unless it is
   an address from outside: a registered symbol, a name of the undo, or a
   function of the target that no instruction jumps to. *)
Declaring == {"alloc", "globalalloc", "label", "register", "aobscan"}
IsLabel(lines, n) == n \notin DOMAIN Func \/ \E i \in DOMAIN lines : lines[i].op = "ref" /\ lines[i].n = n
AutoDeclare(lines, known) ==
  LET first == {i \in DOMAIN lines : lines[i].op = "at"}
      defined == Names(lines, {"at"}) \ (Names(lines, Declaring) \cup DOMAIN Place \cup known)
      fresh == {n \in defined : IsLabel(lines, n)}
      refused == \E n \in fresh \cap Runtime :
        /\ ~\E i \in DOMAIN lines : lines[i].op = "ref" /\ lines[i].n = n
        /\ lines[Min(first)].n = n
  IN [out |-> SetToSeq({[op |-> "label", n |-> n] : n \in fresh}) \o lines,
      err |-> IF refused THEN "only the C library has it" ELSE ""]

(* preprocessScript, with the preprocessing hooks left out. *)
Preprocess(lines, truth, known) ==
  LET a == ExpandConditionals(lines, truth)
      b == ResolveAnonymous(a.out)
      d == AutoDeclare(b.out, known)
  IN [out |-> IF a.err = "" /\ b.err = "" THEN d.out ELSE <<>>,
      err |-> IF a.err # "" THEN a.err ELSE IF b.err # "" THEN b.err ELSE d.err]

(* parseLine: declarations leave the text, every other line is kept in order. *)
Allocs(lines) == SelectSeq(lines, LAMBDA l : l.op \in {"alloc", "globalalloc"})
Registered(lines) == Names(lines, {"register"})
AsmLines(lines) == SelectSeq(lines, LAMBDA l : l.op \notin Declaring)
Breaks(lines) == \E i \in DOMAIN lines : lines[i].op = "break"

(* aobscan and its variants: a name for the first place that holds a pattern,
   found while parsing; an error when there is none. *)
AobPlaces(line, mem) == {a \in DOMAIN mem : mem[a] = line.v}
AobMissing(lines, mem) == \E i \in DOMAIN lines : lines[i].op = "aobscan" /\ AobPlaces(lines[i], mem) = {}
AobDefines(lines, mem) ==
  [n \in Names(lines, {"aobscan"}) |->
     Min(AobPlaces(lines[CHOOSE i \in DOMAIN lines : lines[i].op = "aobscan" /\ lines[i].n = n], mem))]

(* resolveAddress; 0 when the name has no address.  A declared label that has
   none yet hides a symbol of its name. *)
Resolve(n, env, syms) ==
  IF n \in DOMAIN Place THEN Place[n]
  ELSE IF n \in DOMAIN env THEN env[n]
  ELSE IF n \in DOMAIN syms /\ syms[n] # 0 THEN syms[n]
  ELSE IF n \in DOMAIN Func THEN Func[n] ELSE 0

(* tryBranchCanExecute: every assert of the branch holds in live memory. *)
TryCanExecute(branch, env, syms, mem) ==
  \A i \in DOMAIN branch : branch[i].op = "assert" =>
    LET a == Resolve(branch[i].n, env, syms) IN a \in DOMAIN mem /\ mem[a] = branch[i].v

(* selectTryExceptBranches: of each {$try} block the guarded lines or the
   {$except} lines, nested blocks included. *)
Depth(lines, from, to) ==
  1 + Cardinality({k \in from + 1 .. to : lines[k].op = "try"})
    - Cardinality({k \in from + 1 .. to : lines[k].op = "endtry"})
ExceptOf(lines, i) == {k \in i + 1 .. Len(lines) : lines[k].op = "except" /\ Depth(lines, i, k) = 1
                                                   /\ \A m \in i + 1 .. k : Depth(lines, i, m) > 0}
EndOf(lines, i) == {k \in i + 1 .. Len(lines) : Depth(lines, i, k) = 0}
SelectTry(lines, env, syms, mem) ==
  LET guarded(i) == SubSeq(lines, i + 1, Max(ExceptOf(lines, i)) - 1)
      step(st, i) ==
        CASE lines[i].op = "try" ->
               IF EndOf(lines, i) = {} \/ ExceptOf(lines, i) = {} THEN Failed(st, "unclosed try")
               ELSE LET taken == st.active /\ TryCanExecute(guarded(i), env, syms, mem)
                    IN [st EXCEPT !.stack = Append(@, [parent |-> st.active, taken |-> taken]), !.active = taken]
          [] lines[i].op = "except" ->
               IF st.stack = <<>> THEN Failed(st, "unexpected except")
               ELSE [st EXCEPT !.active = Last(st.stack).parent /\ ~Last(st.stack).taken]
          [] lines[i].op = "endtry" ->
               IF st.stack = <<>> THEN Failed(st, "unexpected endtry")
               ELSE [st EXCEPT !.active = Last(st.stack).parent, !.stack = Front(@)]
          [] OTHER -> IF st.active THEN [st EXCEPT !.out = Append(@, lines[i])] ELSE st
  IN FoldLeftDomain(step, [out |-> <<>>, stack |-> <<>>, active |-> TRUE, err |-> ""], lines)

(* What a line emits at cur, in cells.  A branch is short when its target is
   near; a target without an address yet counts as cur itself. *)
Deferred == {"full", "assert", "unregister", "dealloc", "thread", "threadwait"}
InstructionSize(v) == IF v \in Long THEN 2 ELSE 1
BranchSize(cur, target) == IF target = 0 \/ target \in cur .. cur + Near THEN 1 ELSE 2
LineSize(line, cur, env, syms, mem) ==
  CASE line.op = "ref" -> BranchSize(cur, Resolve(line.n, env, syms))
    [] line.op = "reassemble" -> InstructionSize(mem[Resolve(line.n, env, syms)])
    [] line.op = "nop" -> line.v
    [] OTHER -> 1

(* One line of a sizing pass of resolveForwardLabels. *)
SizeLine(labels, syms, mem, st, line) ==
  LET target == Resolve(line.n, st.env, syms)
  IN CASE st.err # "" -> [st EXCEPT !.sizes = Append(@, 0)]
       [] line.op = "at" /\ line.n \in labels ->
            IF st.cur = 0 THEN Failed(st, "label without address")
            ELSE [st EXCEPT !.env[line.n] = st.cur, !.sizes = Append(@, 0)]
       [] line.op = "at" /\ line.n \notin labels ->
            IF target = 0 THEN Failed(st, "unresolved target")
            ELSE [st EXCEPT !.cur = target, !.sizes = Append(@, 0)]
       [] line.op \in Deferred \cup {"fill"} -> [st EXCEPT !.sizes = Append(@, 0)]
       [] OTHER ->
            IF st.cur = 0 THEN Failed(st, "no active address")
            ELSE IF line.op = "reassemble" /\ target \notin DOMAIN mem THEN Failed(st, "unreadable source")
            ELSE LET size == LineSize(line, st.cur, st.env, syms, mem)
                 IN [st EXCEPT !.cur = @ + size, !.sizes = Append(@, size)]

SizingPass(lines, labels, syms, mem, env) ==
  FoldLeft(LAMBDA st, line : SizeLine(labels, syms, mem, st, line),
           [env |-> env, cur |-> 0, sizes |-> <<>>, err |-> ""], lines)

(* resolveForwardLabels: passes until no label moves, at most eight. *)
MaxPasses == 8
ResolveLabels(lines, labels, syms, mem, env) ==
  LET start == [env |-> env, sizes |-> <<>>, cur |-> 0, err |-> "", moved |-> TRUE]
      pass(st, k) == IF st.err # "" \/ ~st.moved THEN st
                     ELSE LET p == SizingPass(lines, labels, syms, mem, st.env)
                          IN p @@ [moved |-> p.env # st.env]
      end == FoldLeft(pass, start, [k \in 1 .. MaxPasses |-> k])
  IN IF end.moved THEN Failed(end, "did not converge") ELSE end
=============================================================================
