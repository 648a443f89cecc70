---------------------------- MODULE AgentSession ----------------------------
(* core/agent_tools.cpp: the session behind the tools of an AI agent.  One     *)
(* caller at a time (the panel's worker or the MCP server) runs the tools; the *)
(* freezer thread writes the frozen records back.  Every step below holds the  *)
(* session's mutex; a long tool releases it, so its start and its end are two  *)
(* steps and the freezer runs between them.                                    *)
EXTENDS Integers, Sequences, FiniteSets, SequencesExt

CONSTANT Pids           \* local processes

None == 0

VARIABLES
  sess,     \* AgentSession::State
  game,     \* what the session did to each process: its patches, written value, breakpoint
  stuck     \* ghost: patches whose undo failed, which was the answer of the call

sessionVars == <<sess, game, stuck>>

\* A call: a tool, its target or index, and a number that tells calls apart.
Call(tool, arg, id) == [tool |-> tool, arg |-> arg, id |-> id]

EmptySession(allow) ==
  [proc |-> None, records |-> <<>>, scripts |-> <<>>, result |-> None, undo |-> None, paths |-> None,
   allow |-> allow, stopping |-> FALSE]

EmptyGame == [p \in Pids |-> [alive |-> TRUE, patches |-> {}, val |-> 0, trap |-> None]]

SessionInit(allow) == sess = EmptySession(allow) /\ game = EmptyGame /\ stuck = {}

AlivePid(p) == p # None /\ game[p].alive

-----------------------------------------------------------------------------
(* Undoing every script of the process, newest first.  A script whose undo     *)
(* fails is reported and forgotten; a dead process has nothing to undo.        *)
ScriptIds == Range(sess.scripts)

\* The scripts of which disableAll restored the code; the others are stuck.
DisableAll(undone) ==
  /\ undone \subseteq ScriptIds
  /\ sess.proc = None => undone = {}
  /\ stuck' = stuck \cup (ScriptIds \ undone)

Restored(g, undone) == IF sess.proc = None THEN g
                       ELSE [g EXCEPT ![sess.proc].patches = @ \ undone]

-----------------------------------------------------------------------------
(* attach: the new process must run and be readable before the old one is left.*)
\* Records and pointer paths are of one process; attaching to it again keeps them.
Adopted(p) ==
  [sess EXCEPT !.proc = p, !.scripts = <<>>, !.result = None, !.undo = None,
               !.records = IF sess.proc = p THEN @ ELSE <<>>,
               !.paths = IF sess.proc = p THEN @ ELSE None]

\* A version that forgets to undo the scripts of the previous process.
AttachKeepingPatches(p) ==
  \/ UNCHANGED sessionVars
  \/ AlivePid(p) /\ sess' = Adopted(p) /\ UNCHANGED <<game, stuck>>

Attach(p) ==
  \/ UNCHANGED sessionVars                      \* not running, ambiguous or not readable
  \/ /\ AlivePid(p)
     /\ \E undone \in SUBSET ScriptIds : DisableAll(undone) /\ game' = Restored(game, undone)
     /\ sess' = Adopted(p)

Detach ==
  /\ \E undone \in SUBSET ScriptIds : DisableAll(undone) /\ game' = Restored(game, undone)
  /\ sess' = [EmptySession(sess.allow) EXCEPT !.stopping = sess.stopping]

\* ~AgentSession: the freezer is stopped and the scripts are undone.
EndSession ==
  /\ \E undone \in SUBSET ScriptIds : DisableAll(undone) /\ game' = Restored(game, undone)
  /\ sess' = [sess EXCEPT !.scripts = <<>>, !.stopping = TRUE]

-----------------------------------------------------------------------------
(* The tools that change the game need allowWrites; a failed access changes    *)
(* nothing.  dryRun works on an overlay of the game and is a failure or not.   *)
Put(p, id) == [game EXCEPT ![p].val = id]

Write(c) == /\ sess.allow /\ AlivePid(sess.proc)
            /\ game' = Put(sess.proc, c.id) /\ UNCHANGED <<sess, stuck>>

Enable(c) == /\ sess.allow /\ AlivePid(sess.proc)
             /\ game' = [game EXCEPT ![sess.proc].patches = @ \cup {c.id}]
             /\ sess' = [sess EXCEPT !.scripts = Append(@, c.id)]
             /\ UNCHANGED stuck

\* A failed undo keeps the script, to be tried again.
Disable(c) == /\ sess.allow /\ AlivePid(sess.proc) /\ c.arg \in 1 .. Len(sess.scripts)
              /\ game' = [game EXCEPT ![sess.proc].patches = @ \ {sess.scripts[c.arg]}]
              /\ sess' = [sess EXCEPT !.scripts = RemoveAt(@, c.arg)]
              /\ UNCHANGED stuck

AddRecord == /\ sess' = [sess EXCEPT !.records = Append(@, [frozen |-> FALSE, val |-> 0, of |-> sess.proc])]
             /\ UNCHANGED <<game, stuck>>

\* Freezing writes the value at once, which must succeed; unfreezing writes nothing.
Freeze(c) == /\ sess.allow /\ AlivePid(sess.proc) /\ c.arg \in 1 .. Len(sess.records)
             /\ game' = Put(sess.proc, c.id)
             /\ sess' = [sess EXCEPT !.records[c.arg].frozen = TRUE, !.records[c.arg].val = c.id]
             /\ UNCHANGED stuck

Unfreeze(c) == /\ c.arg \in 1 .. Len(sess.records)
               /\ sess' = [sess EXCEPT !.records[c.arg].frozen = FALSE]
               /\ UNCHANGED <<game, stuck>>

UndoScan == /\ sess.undo # None
            /\ sess' = [sess EXCEPT !.result = sess.undo, !.undo = None] /\ UNCHANGED <<game, stuck>>

\* Refused or failed, or a tool that only reads: of the game, its code, structures and records.
Inspect == UNCHANGED sessionVars

\* The tools that hold the mutex to their end.
Quick(c) ==
  \/ Inspect
  \/ /\ sess.proc # None
     /\ \/ c.tool = "write" /\ Write(c)
        \/ c.tool = "enable" /\ Enable(c)
        \/ c.tool = "disable" /\ Disable(c)
        \/ c.tool = "record" /\ AddRecord
        \/ c.tool = "freeze" /\ Freeze(c)
        \/ c.tool = "unfreeze" /\ Unfreeze(c)
        \/ c.tool = "undo" /\ UndoScan

-----------------------------------------------------------------------------
(* The tools that release the mutex while they work.  "find" is                *)
(* find_what_writes, which only uses a debug register; "watch" is              *)
(* find_accessed_addresses, which puts a breakpoint into the code.             *)
LongTools == {"scan", "next", "paths", "rescan", "find", "watch"}

CanWork(c) ==
  /\ c.tool \in LongTools /\ sess.proc # None
  /\ c.tool = "next" => sess.result # None
  /\ c.tool = "rescan" => sess.paths # None
  /\ c.tool = "watch" => sess.allow /\ AlivePid(sess.proc)

StartWork(c) == /\ CanWork(c)
                /\ game' = IF c.tool = "watch" THEN [game EXCEPT ![sess.proc].trap = c.id] ELSE game
                /\ UNCHANGED <<sess, stuck>>

\* The results of a scan are stored, unless they are incomplete.
KeepScan(c) ==
  \/ c.tool = "scan" /\ sess' = [sess EXCEPT !.result = sess.proc, !.undo = None]
  \/ c.tool = "next" /\ sess' = [sess EXCEPT !.undo = sess.result, !.result = sess.proc]

KeepPaths(c) == c.tool \in {"paths", "rescan"} /\ sess' = [sess EXCEPT !.paths = sess.proc]

\* A breakpoint is removed whatever happened.
EndWork(c) ==
  /\ game' = IF c.tool = "watch" THEN [game EXCEPT ![sess.proc].trap = None] ELSE game
  /\ UNCHANGED sess \/ KeepScan(c) \/ KeepPaths(c)
  /\ UNCHANGED stuck

-----------------------------------------------------------------------------
(* The freezer writes every frozen record again; what the last one wrote stays.*)
FrozenIn == {i \in DOMAIN sess.records : sess.records[i].frozen}

Freezer ==
  /\ ~sess.stopping /\ sess.proc # None /\ sess.allow /\ AlivePid(sess.proc)
  /\ \E i \in FrozenIn : /\ \A j \in FrozenIn : j <= i
                         /\ game' = Put(sess.proc, sess.records[i].val)
  /\ UNCHANGED <<sess, stuck>>

\* External: the game overwrites the value, or exits.
GameRuns(p) == game[p].alive /\ game[p].val # 0 /\ game' = Put(p, 0) /\ UNCHANGED <<sess, stuck>>
GameExits(p) == /\ game[p].alive
                /\ game' = [game EXCEPT ![p] = [alive |-> FALSE, patches |-> {}, val |-> 0, trap |-> None]]
                /\ UNCHANGED <<sess, stuck>>
=============================================================================
