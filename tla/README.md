# A TLA+ verification of cheat-engine-linux

This directory holds TLA+ models of the parts of cheat-engine-linux in which the
order of events decides whether the inspected program, the user's data or the
tool itself survives: the native debugger and its breakpoint table, the service
that runs functions inside the target, the code finder and the tracer, the
network debugger, the memory and pointer scanners, the auto assembler, the
windows with the cheat table and its files, the AI assistant, and the Lua engine.
TLC checks the models on small instances; TLAPS proves theorems about six of
them for every size. `PROJECT.json` lists the components, the runs, the source
lines each definition stands for, the hazards the properties are aimed at, and
the theorems.

All paths below are relative to the repository root.

## 1. The system

cheat-engine-linux inspects and changes other processes: it scans their memory,
patches their code, sets breakpoints, calls functions in them, and drives all of
it from a GUI, a CLI, Lua scripts, a network protocol or an agent. The parts,
with their state, how they interact, and what makes them correct:

| Part | State | Operations | Hard because | Correct when |
|---|---|---|---|---|
| Native debug session (`debug/debug_session.cpp`) | traced and stopped threads, pending signals, rewinds, exits, the breakpoints in the code, the command queue | attach, detach, set/remove breakpoint, continue, step, select, set IP, exception breakpoints | one tracer thread owns ptrace; the kernel reports stops in its own order; front ends block on posted commands; threads are created, exit and execute programs meanwhile | a trap never kills the program, no thread runs in a torn instruction, signals are conserved, "stopped" means all stopped, callers are answered |
| Breakpoint patching (`platform/linux/target_debug.cpp`) | bytes saved per trap, debug registers per thread | install, remove, encode | code changes under a trap, writes are refused | saved bytes never overwrite newer code |
| Breakpoint manager (`debug/breakpoint_manager.cpp`) | table of breakpoints, hit logs, register assignment | add, remove, enable, apply to a thread, record a hit, clear | a condition is evaluated with the lock released | registers are exclusive, removed breakpoints stay removed, only live ones deliver |
| Remote calls and system calls (`platform/linux/syscall_service.cpp`, `call_service.cpp`, `target_syscall.cpp`) | one record per unfinished call, leases of created threads, records of unfinished system calls, the job queue | invoke, resume, execute, recover, sweep, shut down | a borrowed thread may exit, execute, be signalled or refuse; every step can fail after the kernel did it | nothing mapped, attached or created is forgotten; a thread gets its registers back; a new program is never touched |
| Code finder (`debug/code_finder.cpp`) | watch per thread, guard of a page, result table, monitor thread | start, stop, results | own ptrace loop, guard pages or watchpoints, start/stop races | every access counted, all threads restored at stop |
| Tracing (`debug/tracer.cpp`; `lbr_tracer.cpp`, `intel_pt.cpp`, `perf_ring.cpp`) | the traced thread, start traps in the others, steps | trace, cancel | the same ptrace order, other threads at the start trap | no access to the program after the end, cancel ends it |
| GDB remote client (`debug/gdb_remote.cpp`, `platform/gdb_process.cpp`) | socket, packet size, ack mode | connect, transact, read, write | damaged, lost and late packets | an answer belongs to its command |
| Ceserver server and client (`platform/linux/ceserver_*.cpp`) | handles, a debug session and event queue per connection, the shared client socket | start/stop, the commands of the protocol, continue, cancel, reconnect | a worker per client, events from the tracer thread, cancellation under a transaction | a handle names its process, replies reach their senders, an unseen stop is never continued, stop ends |
| Memory scanner (`scanner/memory_scanner.cpp`) | result files, first and previous values, scan directories | first scan, next scan, undo, prune, cancel, cleanup | parallel workers, a target that changes and unmaps, full disks, killed processes | results are exactly the matching addresses, or are marked; directories live as long as their result |
| Pointer scanner (`scanner/pointer_scanner.cpp`, `gui/pointerscan_dialog.cpp`) | pointer map, paths | scan, rescan, compare, save, load | limits and cancellation | paths are the bounded chains |
| Auto assembler (`core/autoasm.cpp`, `simple_hook.cpp`) | allocations, saved bytes, symbols, ownership of undo | enable, disable | multi-step transactions that fail half way, scripts over scripts | disable undoes what enable did, once, in any order |
| Cheat table and address list (`core/ct_file.cpp`, `core/address_list.hpp`) | entries, ids, hotkeys, activation, freezing, the file | load, save, activate, freeze, move, group | callbacks inside operations, three file formats, crashes of a save | no undo is lost; what was saved is loaded |
| Graphical interface (`gui/*`) | the one target handle and everybody's copy of it, what the debugger's window and viewers show | open, leave, exit of a target; debugger and viewer commands | everything runs inside everything else on one thread; events are queued | nobody uses a target that has gone; what is shown is so |
| Process access (`platform/linux/linux_process.cpp`, `code_write.cpp`, `process_watcher.cpp`) | handles, recovery of code writes, watched names | read, write, query, watch | pid reuse | the process meant is the one touched |
| Lua scripting (`scripting/*`) | Lua state, target, debug session and event queue, objects and their functions, records | the bindings of the Lua API | scripts replace what their callers use; events come from the tracer thread | nothing freed is used, no stale event is acted on |
| Agent tools and MCP server (`core/agent_*.cpp`, `core/mcp_server.cpp`, `gui/agent_panel.cpp`) | attached process, records, freezer thread, consent, conversation | tool calls, questions, Stop | scans run unlocked, answers race Stop and the window | nothing is changed without consent, nothing is left behind |
| Plugins (`plugins/speedhack.c`, `mono_agent.c`, ...) | clock baselines, hooks | set speed, inject | runs in the target, signal and fork safe | scaled time is monotonic |
| Kernel module (`kernel/`) | none between calls | ioctls | - | - |
| Symbols, analysis, arch | parsed tables | parse, disassemble | data formats | - |
| CLI, tutorial | presentation | - | - | - |

The GUI, the CLI, Lua, the ceserver bridge and the agent are *front ends*: they
reach the target through the debug session (posting a command and blocking for
the answer), through the syscall service (submitting a job and blocking on its
future) or by reading and writing memory. The session's tracer thread and the
service's owner thread each do all their ptrace work themselves, because ptrace
attachments belong to a thread.

## 2. Modules

| Modules | Model | Theorems |
|---|---|---|
| `BreakpointManager` | `debug/breakpoint_manager.cpp`, `managed_breakpoint.cpp` | `BreakpointManagerProofs` |
| `PtraceTask` (external), `DebugSession` | the kernel's view of the target; `debug/debug_session.cpp`, the patching in `target_debug.cpp` | - |
| `CodePatch`, beside `BreakpointManager` in `MCPatches` | `debug/patch.cpp`, `platform/linux/code_write.cpp`, `writeCode` of `syscall_service.cpp` and `linux_process.cpp`, the code list of `gui/advancedoptions.cpp` | `CodePatchProofs` |
| `CallTarget` (external), `NativeCall` | the target as the call service meets it; `call_service.cpp`, `syscall_service.cpp`, the function calls of `target_syscall.cpp` | `NativeCallProofs` |
| `TargetSyscall`, beside `NativeCall` in `MCNativeCall` | one system call lent to a thread, request by request: `target_syscall.cpp`, `memory_image.cpp` | `TargetSyscallProofs` |
| `WatchedTask` (external), `CodeFinder`, `Tracer`, composed by `MCDebugTools` | `debug/code_finder.cpp`, `debug/tracer.cpp`, `gui/tracerwindow.cpp` on one program | - |
| `Ceserver` | `platform/linux/ceserver_{client,process,debugger,server}.cpp` | `CeserverProofs` |
| `ScriptText`, `AutoAssembler`; abstract: `PatchStack` | `core/autoasm.cpp`, `core/simple_hook.cpp` | - |
| `ScanFiles`, `MemoryScanner`, `PointerScanner` | `scanner/memory_scanner.cpp`, its sessions in the window and the CLI; `scanner/pointer_scanner.cpp`, `gui/pointerscan_dialog.cpp` | `ScannerProofs` |
| `AddressList`, `MainWindow`, `DebuggerWindow`, `MemoryViewer`; `TableText`, `TableFile`; composed by `MCMainWindow` | `gui/mainwindow.cpp`, `scripteditor.cpp`, `debuggerwindow.cpp`, `memorybrowser.cpp`, `core/address_list.hpp`, `core/ct_file.cpp` | - |
| `AgentSession`, `AgentPanel` | `core/agent_tools.cpp`, `core/agent_chat.cpp`, `core/mcp_server.cpp`, `gui/agent_panel.cpp` | `AgentPanelProofs` |
| `LuaTarget`, `LuaObjects`, composed by `LuaEngine` | `scripting/lua_engine.cpp`, `lua_bindings.cpp`, `lua_gui.cpp`, `lua_memrec.cpp` | `LuaEngineProofs` |

Each `MC...` module gives one of these its scenarios for TLC. `Tid`, `Threads`,
`Slot` and the like are parameters with named assumptions; the proofs use those
assumptions and nothing about the instances.

The map of `PROJECT.json` has one entry per stretch of code: a helper whose lines
lie within those of a listed definition of its module is not listed again.

### BreakpointManager

`breakpoints`, `hitLog`, `nextId` are `breakpoints_`, the hit logs (their length)
and `nextId_`; `dr` is what `applyToThread` last programmed into each thread's
debug registers; `hits` holds the `recordHit` calls that are between their two
critical sections. One action per public operation; `recordHit` is two
(`HitBegin`, `HitCommit` or `HitDrop`), because the condition is evaluated with
the mutex released. A breakpoint's address and condition are abstracted to
whether its watch is encodable, its thread filter and what `recordHit` reports.
`delivered` and `removed` are history variables.

### PtraceTask and DebugSession

`PtraceTask` states what the debugger relies on from Linux: an interrupt stop is
reported before a trap already queued; an interrupt sent to a stopped task stays
pending until any later stop; a new thread starts in an event stop; exec removes
siblings and gives the survivor the leader's tid; a dying thread stops once
more; a report can be consumed by another thread of the process that launched the
target. An instruction is an address; `past` means the instruction pointer is one
byte past a trap. `sent` and `got` are histories of signals.

`DebugSession` keeps the session object's fields in `ses` (each named next to its
C++ member in the module), the place of the tracer thread in `ctl`, the posted
commands in `queue` and the blocked front ends in `caller`. The tracer's code
between two points at which it waits for a thread is one action; the wait itself
(`waitForStop`) is the family `WaitOther`, `WaitExit`, `WaitZombie`, `WaitExec`,
`WaitGone`, since other threads' reports arrive there. `Hold...` is
`stopOtherThreads` and what follows it, `Perform...` the commands, `Resume...` and
`Step...` continuing and single stepping over a lifted breakpoint, `Loop...` the
poll loop, `Seize...` attach, `Cleanup...` detach and its retries.

### CallTarget and NativeCall

`CallTarget` gives each thread a life (running, parked in a system call, zombie,
gone), a hold (free, seized, stopped) and whose registers it has (its own, an
injected system call's, the called function's, at the return trap, stopped by a
signal, in the exec stop); the process has an image number, the private mappings
made in it, the new program's own mappings at the same addresses, the state of
each worker and each pthread handle.

`NativeCall` has one record per call (`call[k]`, the `Call` structure; `at` says
whether it is in `calls` or `leases`), the service's own record of a memory
operation (`sys`), the owner thread's place (`own`), the submitted jobs, what each
front end knows (`client`) and the mappings handed out (`given`). One action per
step that another party can come between: `PrepareSeize`, `PrepareStop`,
`PrepareCheck`, `BindMemory` (prepare), `MapFrame`, `Stage`, `StartFunction`,
`AwaitFunction` (run), `Recover...` (recovered), `FinishImage`, `ReadOutput`,
`StartWorker`, `DetachOrphan`, `UnmapFrame`, `Detach` (finish),
`MaintainWorker`, `Reclaim` (maintainWorker), `Execute`, `ExecuteAgain`,
`RetryContext`, `RetryAllocation` (the memory operations), `TakeJob`, `Sweep`,
`Visit`, `Visited`, `Exit` (the loop). `Leave` is where finish() and run() return:
it says, for each caller (the call itself, its clean-up, recover(), the sweep),
what happens to the record and who is answered. Each action has a success
alternative and, paid from the budget `fault`, the failures the code handles:
nothing happened; it happened but the thread was not restored; neither.

### TargetSyscall

What `NativeCall` takes as one step, stopping a thread, letting it make one system
call and giving it back, is here the sequence of ptrace requests it consists of.
`ask` is the request and the layout of the target (architecture, how the
thread is obtained, which pages the call destroys, where a system call
instruction is to be found); `task` the thread as the kernel has it; `rec` is
`TargetSyscallRecovery::State`; `at` the owner's place in the code; `may` what may
still happen. `Start` to `Compare` stop the thread and prove it is in the image meant,
`Plan` to `Collect` make the call, `Retry` to `DetachStop` are `retry()`, and the
`Restart...` actions are `progressRestartAbi`, by which a thread that waited in an
interrupted system call is put back so that the kernel restarts it with
the right number. Before each request the thread may be killed, signalled, stopped, or
replaced by an exec, and each request may be refused.

### CodePatch

A cell of `text` is a byte of code, and the program's own byte is its image's number, so
that what one program left can be told from the next one's code. `undo` is the
`CodeWriteRecovery` the service owns, with the original bytes and how far a write was
attempted; `svc` is the service's thread (`Prepare`, `WriteChunk`, `Restore...`); `fe`
are the front ends inside `patchInstructionBytes`; `kept` is what they keep for "restore
original code". `promised` is a history: the code as the answers given to
callers say it is, and `hands` another one: whose writes a byte has seen, *fresh* when the
writer's bytes were read from this very program with nothing pending. An exec replaces
everything but the records and lists.

### WatchedTask, CodeFinder, Tracer and their composition

`WatchedTask` is a program and kernel of its own, because both tools drive ptrace
themselves: one page that may be guarded, one debug register slot per thread.
`CodeFinder` is the monitor thread of "find what accesses" (`fi`, with the place
of its code in `fi.pc`), the callers of `start` and `stop` (lifecycle lock,
cancellation flag) and the table of what was recorded; `how` says whether it
watches with debug registers, ARM64's watch, a single thread, or a guarded page
which it lifts for one thread to step. `Tracer` is break-and-trace with its
window (`tr`). `MCDebugTools` runs both on one program: a thread has one tracer, so
the second tool is refused and must leave the first alone.

### Ceserver

Several threads share one client. A command is one transaction under the client's
recursive lock; `close()` and `connectTcp()` first cancel what is in flight and
only then take the lock. The server has an accept thread and one worker per
connection with its own handle table, debug session, queue of events and
breakpoint slots. A socket is a pair of queues of whole messages whose ends are
open, shut down or closed. Timeouts, cancellation and the server's `stop()` may
come between any two steps.

### ScriptText, AutoAssembler and PatchStack

`ScriptText` is what is done with a script before the target is touched, as
operators: sections, conditional and Lua blocks, anonymous and undeclared labels,
directives, `{$try}`, and the sizing passes that give labels their addresses.
`AutoAssembler` runs a section line by line (`Run`), rolls a failed run back and
cleans an undo up (`Clean`), with the target writing, unmapping and executing in
between and any access refused. Reading an original and writing over it are two
steps, and a write that fails may have written some of the bytes. `und` is
`DisableInfo` with its `Ownership`, `leases` the allocations, `livep`
`livePatches_`. Simple hooks patch the same memory.

`PatchStack` is the abstract specification: every cell is a stack of values, a
patch may be taken out at any place of it, and the values below and above stay. A
patch is gone only after what was under it was seen in memory wherever it was the
last one; where another is over it, that one has the value below to put back from
then on. There is no step that forgets a patch otherwise, but for one made by a
`[DISABLE]` section, which is meant to stay (`Keep`), or could neither be applied nor
taken back (`Lose`). `LayersSpec` is the refinement, with the stack rebuilt from the
saved originals; the ghost `stale` says where an undo outlived its own bytes.

### ScanFiles, MemoryScanner and PointerScanner

`ScanFiles` has the candidate values of a window of bytes, the comparisons (values of
one and two bytes, both at once, floating point, text in bytes or two-byte units,
byte and binary patterns with wildcards, groups, Lua formulas with a state per worker;
percentages), the search of one buffer, and the result files: frames of
addresses, buffered records, writers that a failed write marks.
`MemoryScanner` cuts regions into overlapping chunks, gives workers runs of them,
and next scans slices of the previous result; beside it the target writes,
unmaps and disappears, disks fill up, workers throw, users cancel, undo and
prune, processes are killed and other instances clean up. `ScansExact` compares
with a reference definition over the memory the scan saw. `PointerScanner` builds
the pointer map window by window and searches it depth by depth, inside the dialog
that may be cancelled and closed.

### The windows

Everything here runs on one thread, yet nothing is atomic: switching a record runs
scripts, boxes and callbacks, and each may start further operations. `stack` holds
the operations entered and not left. `AddressList` has the pure functions of the
tree of rows and ids, the cheat table's operations and the script
editor; `MainWindow` the target, who holds its handle, and leaving it;
`DebuggerWindow` the window over a debug session whose events are queued;
`MemoryViewer` the viewers with their comments and breakpoint signs. `TableText`
says what a record becomes in each file format and back, `TableFile` is loading,
editing hotkeys and a save call by call with failures, deaths and power losses.
`MCMainWindow` composes all of them.

### AgentSession and AgentPanel

`AgentSession` is the session behind the tools: `sess` its state, the steps of a
tool under its mutex, and the freezer thread between them. `AgentPanel` is the
panel on the user-interface thread, the worker that runs turns, the questions it
asks before a change, the conversation with the model's server (two providers),
Stop, new chats, changes of settings and of the main window's target, and the MCP
server on the same session. The model's answers and the user are nondeterministic.

### LuaTarget, LuaObjects and LuaEngine

One Lua state on the window's thread with a stack of calls. `LuaTarget` has the
engine's target (a handle that is the host's, owned, remote or a GDB client's),
the debug session, the queue of stops and `debug_pumpEvents` with its handlers, and
the names scripts registered, which outlive their target (`names`);
`LuaObjects` the timers, hotkeys, threads, widgets and menu items with their
functions in the registry's slots, which are given out again once freed;
`LuaEngine` the records of the address list over table loads and changes of the
list. `eng.bad` collects uses of what was freed.

## 3. Runs

Every bad event is paid from a budget; a scenario is a set of budgets (and, where
needed, of starting states and front-end requests) and an initial state chooses
one. A scenario names what can go wrong together, so that two or three events meet
in every order without the product of all of them.

| Run | Checks | Instance |
|---|---|---|
| `breakpoints` | `TableSound`, `CodeOwned`, `OriginalsKept`, `DeliveredOnlyLive` | 1 thread, 2 concurrent hits, 1 register, ids below 3, log cap 2; or patches: 3 bytes written 2 at a time, a list and a script, up to 4 operations, 2 images |
| `session_safety` | `SignalsOwned`, `HeldTogether`, `NoPatchAcrossExec` | 2 threads and a third created, 2 addresses, 2 front ends; commands, signals, exec, clones |
| `session_liveness` | `CodeIntact`, `NewCodeKept`, `CallersAnswered`, `HitsReported` | 2 threads, 1 front end; dying, leaving, one refused request, code rewritten under a trap |
| `calls_safety` | `CallsSound`, `LoanSound`, `ProgramKept` | 2 threads, 2 calls, 3 mappings, 9 scenarios; or one loan: 6 pages, every range of them, any two events |
| `calls_liveness` | `CallsEnd`, `ThreadLetGo` | shutdown at any moment, 4 scenarios; or one loan |
| `ceserver` | `RightAnswer`, `OwnedOnce`, `SeenStopsOnly`, `NobodyHeld` | 2 client threads, 2 connections, 2 handles, 1 breakpoint slot, 3 scenarios |
| `scripts` | `Accounted`, `LayersSpec`, `UndoKeepsOthers` | at most 4 runs of scripts over 2 blocks of memory, 10 scenarios; one refused access, also with two layers of code |
| `scanner` | `WholeOrMarked`, `DirsAccounted`, `ScansExact` | 2 pages of 4 bytes, 2 workers; 11 scan and 8 pointer-scan scenarios |
| `window` | `RecordsOwned`, `TargetCurrent`, `ViewsTrue`, `RowsOrdered` | up to 5 records, 2 viewers, 2 notes, two-byte instructions, 21 scenarios |
| `agent` | `ConversationValid`, `NothingLeftBehind`, `ApprovedOnly`, `StopEnds` | 2 processes, 2 rounds, 2 calls per answer, 10 scenarios |
| `tools` | `Undisturbed`, `NothingMissed`, `StopsEnd` | 3 threads, 2 callers, 2 traced steps, 17 scenarios |
| `lua` | `NothingStale`, `RegistersKept`, `StopsResume` | 2 processes, 4 nested calls, 3 registry slots, 2 lists of 2 records, 5 scenarios |

All runs pass. What the names that stand for several things say:

- `TableSound`: every enabled hardware breakpoint has a register and no two share
  one; hit logs belong to listed breakpoints. `CodeOwned`: while the program lives, code
  that is not what the last answered write left it is owned by a record that will
  put it back. `OriginalsKept`: what a list read cleanly and keeps as the original code of an
  instruction only it has replaced is not its own NOPs.
- `SignalsOwned`: no trap of ours is delivered to the program, and every other
  signal sent to it is delivered, pending or held, once. `HeldTogether`: stopped
  means every thread is stopped, and no thread passes a breakpoint unseen.
- `CodeIntact`: no thread continues inside a torn instruction, and a trap in the
  code is one the session lists. `NewCodeKept`: what the program wrote over a trap stays.
- `CallsSound`: every mapping, attachment and pthread handle made in the
  target is somebody's responsibility, a borrowed thread gets its
  registers back and code it runs in is not unmapped. `LoanSound`: a thread given back
  after one system call has its own registers, code, signal mask and restart state, its
  signal is not kept back, the pages it returns to are still there, and a call that was
  made is reported. `CallsEnd`: calls
  are answered and a shutdown ends; `ThreadLetGo`: a loan ends with the thread released.
- `RightAnswer`: a handle names the process it was opened for, and a reply is the
  one to the request sent. `OwnedOnce`: sockets and breakpoint slots have one owner.
  `NobodyHeld`: `stop()` returns and a target whose client went away is released.
- `Accounted`: blocks and symbols of the assembler are those of the scripts that are
  enabled, and labels have the addresses code was written at.
- `DirsAccounted`: a scan directory in use is on disk, and one on disk is in use, to
  be undone to, or waits for a cleanup.
- `RecordsOwned`: the undo information of an enabled record is kept, ids are unique,
  a file on disk is a whole table and a saved table loads as it was.
- `TargetCurrent`: handles in use are live, and state kept per target is of the
  present one. `RowsOrdered`: leaving a target, switching all off, deleting and loading undo
  the newest change first; a moved or dragged row takes its children along and leaves the tree
  of the others as it is. `ViewsTrue`: traps, stops and notes shown are those there are.
- `Undisturbed`: tools' traps are not delivered to the program, which is left as it was found.
  `NothingMissed`: every access of the watched address is recorded.
- `NothingStale`: nothing freed is used, the engine's copies of the target agree, a
  registry slot has one owner, and references reach the record they were made for. The
  names scripts register are kept apart (`names`): they stay, see section 4.
- `LayersSpec`: the scripts and hooks are a stack of patches (`PatchStack`).

*Why the bounds are enough.* The hazards are races of at most two threads with one
tracer, owner or worker: two threads give a stopped and a running one, a third is added
where one is created. Two addresses let one breakpoint be stepped over while another
is hit. Two calls are one unfinished and one that meets it; three mappings
are the frames of two calls and a mapping handed out. Two connections are an old
one and the one that replaces it. Two pages and four-byte windows give
values across a chunk's end, and two workers a boundary between them. Four runs
of scripts give two layers enabled and taken away in either order. Nesting of
two operations (four Lua calls) is a callback inside an operation inside a callback.
`RestoreAttempts` (250 in the code) is 2: the first attempt fails, the last succeeds
or not. Registers, caps and counters are small so that they are exhausted, and
the theorems remove those bounds where there are theorems.

*Deadlock* is not checked where the system may stop: the user may leave the target
paused or detached, a service may have shut down, and all budgets may be spent.
The liveness properties say instead what must still happen. `session_safety` uses the
symmetry of the two front ends.

*Fairness.* Each assumption is one the code or the kernel gives:

- debug session and calls: weak fairness of `TracerNext` and `OwnerNext` (both
  threads poll: the loop's wait has a timeout, the owner sweeps every 100 ms). The kernel
  delivers what is pending to a running task, completes an exec whose siblings are gone and
  lets a stepped task execute. For calls also: a called function returns unless it was
  signalled, a blocking call of the program ends, a seized thread stops some time
  after its interrupt, a worker ends once told to, and front ends drop their leases
  when the program shuts down. None for front ends otherwise, and none for
  the program's exits and execs;
- a loan: weak fairness of the owner and of the running thread, which reaches its next
  stop. A program that was stopped by job control is continued some time (the instance's
  `LiveLoans`), since the loan must wait for that;
- `Ceserver`: weak fairness of the workers, the accept thread and the joins of `stop()`;
- `AgentPanel`: weak fairness of the worker, of queued events on the interface's thread, of
  the start of a send and of closing a session. None of the user or of the model's server,
  whose request the cancellation ends;
- the tools: weak fairness of the monitor, the trace's worker, the callers' answers and the
  kernel per thread;
- `LuaEngine`: weak fairness of running what was called, of pumping and of timers;
  strong fairness of handler and call returns and of the pump's next event, which other
  nested calls disable again and again. Scripts are assumed to end.

*What the liveness of shutdown excepts.* `Drains` does not claim an end while a
function stopped by a signal waits for the caller's decision (`Undecided`, by design), nor
from the states `Stranded` names: a thread that died, or was replaced by a
sibling's exec, while its record had nothing to restore, and a dead thread no
record waits for (section 4).

## 4. Where the code falls short of the properties

Each of these is excepted by name in the model (a ghost field or a guard says
where), so that the property still says something about every other state. They were met while
modelling or proving and are listed so that nobody reads the properties as covering them.

*Debug session and calls.*
- `singleStepThread` returns when the session is no longer attached, whatever the
  stop was; if detach's interrupt is reported ahead of the queued trace trap, detach
  leaves that SIGTRAP pending (`debug_session.cpp:541`).
- When a sibling's exit report was consumed elsewhere during an exec, `waitForStop`
  probes only the awaited thread, which cannot stop before (`debug_session.cpp:401`).
- A refused release of an exiting thread cuts the all-stop short and a breakpoint is removed
  while a thread past its trap runs (`debug_session.cpp:845`).
- `removeFromThread` clears what is listed and enabled now, not what was programmed
  (`breakpoint_manager.cpp:361`).
- A thread that dies while attached and without a recovery is never waited for; its record
  is retried for ever and refuses later calls (`call_service.cpp:388`).

*Code patches.* `patchInstructionBytes` puts the old bytes back after a failed
read-back, and if the program executed another one in between, it writes the old
program's bytes into the new one (`patch.cpp:41`); it reads the originals before a pending
record is recovered (`patch.cpp:29`); a recovery that fails with an input or output error lets
`writeCode` go on through the backing file (`linux_process.cpp:449`); in a shared view, another
write through the file between a refused write and its restore leaves a record that can
never be restored. `CodeOwned` is about private code (`view`).

*Code finder and tracer.* A guard's SIGSEGV overtaken by an interrupt is not drained at
detach, nor is the tracer's single-step trap (`late`). Both wait loops
poll one tid, so a sibling that is not reaped keeps them (`Unreaped`); the clean-up of
registers loops on an armed dead leader. Not modelled: a leader's own
`pthread_exit`, group stops, the 16-pass and 4-try limits, failures to resume while draining.

*Auto assembler.* A script whose failed run could not be taken back is in no `livePatches_`,
so that others do not know of what it left in data (in code, `codeOwnershipConflict` sees it),
and the scenarios have no fault in two layers of data; nor does the target there write the very code of a
patch that is half undone, which would make the older script's removal forget it. Protections have
no handover between scripts; a simple hook reads the original before it allocates; a
newer script that writes exactly the older's original byte looks like an untouched cell; `LeaseAt`
does not see a block whose name was used again, so `UndoKeepsOthers` holds in the scenarios
and not in general. An image that cannot be pinned before the first line is a run that did not
happen, and `planHandovers` is not denied its look at the image while the rest of the clean-up is not.

*Scanner.* A page unmapped during a first scan hides the rest of its chunk; a cancelled result
is returned as a normal one; a kept result older than a week given as `--previous` is removed by
its own scan's first cleanup. A chunk is read in one step. A grouped scan with an off-grid
start and non-resident pages skipped is not modelled; a formula sees the current value only;
encodings, byte orders and the wording of tokens are left out. `parseGrouped` ignores what
`parseAOB` returns, so that a bad token of a group matches anything. A cleanup a week later does not happen while a scan runs. Pointer scanner: ties of
the sort, the GPU path, mixed widths, and pointers of value 0 are left out; results of
a worker that had finished are kept by a cancel.

*Table and window.* A nested disable inside `setEntryActive` (6474-6479) enables again and
overwrites the undo; `showInstructionAccesses` (4815-4828) uses `*process_` after
`processEvents()`; a group's cascade does not look at the target again after a callback; a
freeze during the "Grant access" box may write the old target's value; menus and dialogs
act on row numbers collected before they ran (1503-1560, 2185-2196, 2237); a flat drag can
leave a row more than a level deeper, which a save and load re-parents, or put what follows it
under it; a group dropped onto a group of its own rows stays where it is but is indented by that
one's level (6861-6869); grouping a header
without its children re-parents them; cleaning a dead address space discards its undo. Not
modelled: forced destruction, `attachToPid`'s retry (unreachable), snapshots' file
operations. `activateChildren` and `deactivateChildren` are TRUE.

*Table files.* A slot edited to a key another kept hotkey of it has, or to the set value of a
shared key, is lost on reload (ghost `clash`); clearing a slot lets another kept hotkey of it
show after reload; Grouped and All types and unknown keys do not survive XML; "Ctrl++"
comes back as "Ctrl+="; script records lose offsets that were not parsed; a torn XML file loads as
an empty table; a rewrite in place cut by a crash, unreadable old bytes or two failures may
leave a part; a failing directory fsync is not reported. When a table is rewritten in place and
only the `close` fails (`ct_file.cpp:169`), the save is told to have failed although the new table
is written and synced. Symbolic links, special files, size
limits, structures and forms are abstracted.

*Debugger window and viewers.* A command given between a stop and its queued event meets a
stale event (ghost `early`); the run-to-cursor trap may share its id with a later
breakpoint, is not seen by `breakpointConflict` and can be swallowed by a disabled conditional
row at the cursor; `runToAddress` runs on when its trap was refused; a stale hit after detach
shows "running"; fill, paste and nibble edits use the view or byte of before or after
their dialog; a dialog left open over an exec plants the old address; the window's
constructor attaches before anybody is connected; loading a table does not rebuild the
comments; the viewers read "401000" otherwise than the expression parser;
`addBreakpointAt` on a listed row drops its condition. Marks, navigation, selection, labels, the exceptions
menu and painting are not modelled.

*Agent.* A message refused for want of a key (`agent_panel.cpp:408-417`) does not call
`syncSession`, so that a process left during the keyring's prompt stays attached until the next
turn or change of target (ghost `refused`; the proof of `NothingLeftBehind` found it); attaching by
a name equal to the turn's target needs no question; Stop during the keyring's prompt is cleared;
failures of `detach()` are ignored; an address resolved at approval may move. Reuse of pids
and the dry-run overlay's contents are not modelled.

*Lua.* A hit queued before `debug_setBreakpoint` or `debug_continueFromBreakpoint` writes its old
context into the next stop (excused in `RegistersKept`); a handler that opens a process makes
`debug_pumpEvents` attach to it; `removeSimpleHook` takes the process before a table lookup
that may run code; the id of a breakpoint outlives a session that ended by itself, and so do its
queued stops; references of the Scripts menu outlive shutdown. `resolver_->clear()` keeps the
names scripts registered (`elf_symbols.cpp:42-47`), and the registry keeps `ce_user_symbols`
(`lua_bindings.cpp:4968-4978`): after `openProcess` of another program a name still gives the address
it had in the one before. Names that `autoAssemble` exported are not taken out when the script is
disabled (1993-1996), and unregistering a name that was registered at two addresses leaves the older.
Clicks, timers and the host's switch of target come when no script runs; those let in by a script that
shows a dialog (`selectFilePath`, `lua_bindings.cpp:3405-3412`; `showModal`, `lua_gui.cpp:365`), and the
change events that `setText` and `setChecked` (414, 477) fire at once, are not modelled. Not modelled separately: parents and
children of widgets, `createTimer`'s dummy widget. Which free slot `luaL_ref` gives is left open.

## 5. Proofs

TLAPS proves, for every value of the constants that the named assumptions allow:

| Module | Theorem | Says | Assumes |
|---|---|---|---|
| `BreakpointManagerProofs` | `ManagerTypes`, `ManagerInvariant`, `ManagerDelivers` | `TypeOK`, `TableSound`, `DeliveredOnlyLive` | `ManagerConstants` |
| `CodePatchProofs` | `CodeIsOwned`, `OriginalsAreKept` | `CodeOwned`, `OriginalsKept` | `PatchAssumption`, `ListingAssumption` |
| `CeserverProofs` | `SocketsAndSlots`, `AnswersAreRight`, `StopsAreSeen` | `OwnedOnce`, `RightAnswer`, `SeenStopsOnly` | `CeserverAssumption` |
| `AgentPanelProofs` | `LeftClean`, `RequestsAreValid`, `ChangesAreApproved` | `NothingLeftBehind`, `ConversationValid`, `ApprovedOnly` | `AgentAssumption` |
| `ScannerProofs` | `DirectoriesAccounted` | `DirsAccounted` | `ScannerAssumption`, `ScanFilesAssumption` |
| `NativeCallProofs` | `CallTypes`, `CallsKeepTheProgram` | `TypeOK`, `ProgramKept` | `TargetConstants` |
| `TargetSyscallProofs` | `LoanIsSound` | `LoanSound` | `LoansAssumption` |
| `LuaEngineProofs` | `NothingStaleEver`, `RegistersKeptEver` | `NothingStale`, `RegistersKept` | `LuaAssumption`, `SlotsAssumption`, `ListsAssumption` |

The assumptions say that budgets, caps and counts are naturals, that thread and process
numbers are positive, that sets of slots are finite, that a lent call is one of the kinds the code knows,
that instructions of a listing do not overlap, and that a log at its
cap drops at least one and at most all its entries. Each proof module has an inductive
invariant `IInv`, one lemma per action and conjunct it can disturb, and the theorems
that follow from it.

*Breakpoint manager.* `TypeOK`, `RegistersExclusive` and `LogsLive` are inductive together:
`TypeOK` bounds every id by `nextId`, so that an added breakpoint meets no log, register or
removal of an older one; that an enabled hardware breakpoint has a register makes the one
`findFreeHwRegister` returns free (`FreeRegisterIsFree`). `DeliveredOnlyLive` rests on the
second look `recordHit` takes under the lock.

*Code patches.* `CodeOwned` looks at the state between the service's steps and is not
inductive: it does not say that the record's bytes are right. `PatchInv` adds it
(`Held`: the bytes of a record of the present image are those promised, and nothing but what
it attempted differs from them), with the order of the record's ends (`Ranges`) and what the
service's place says about it (`AtWork`: a write goes on where the record's attempt ends, a
new record is made when there is none). The case that matters is a failed write: the
attempted range is advanced before the write, so that bytes changed by a write
that reported an error are inside it.

`OriginalsKept` is not inductive either: whether the bytes a list reads are NOPs depends on what it
did before. `ListInv` says where NOPs that are only the list's own can be: in an entry of it or in the
patch it is making (`NopsOwned`). The instruction it takes up has no entry, and instructions of a
listing do not overlap, so what it reads there are no NOPs (`ReadsNoNops`, `OrigOK`, `KeptOK`). Keeping this
needs that a patch which failed has changed nothing, except half of it in a file (`FlightOK`), and that an
entry is forgotten only when its bytes are back (`BackOK`). Without `ListingAssumption` it is false: an
instruction that begins inside another one's NOPs keeps these.

*Ceserver.* A reply reaches its sender because of the lock and because a connection has a life.
`LockHeld` says which steps of a client thread are inside the recursive lock;
`CandidateOK`, `OpenSockets`, `PublishedOpen` and `CloseOnItsWay` follow a socket from
`connectTcp` until whoever took it away closes it, so that it is
closed once and no number is used after it was; `Flow` ties what is on the wire to the one request
the lock's holder sent on it; `LifeOK` is the server's side, from accept to
join; `ObjectsOK` that handle numbers are issued once. `RequestsOK` says what a request in
work was looked up as.

*Agent.* `TurnsOK` says what the worker's place says about the session and the
conversation; `QuestionsOK` that a question belongs to the call it was asked for and its answer
can come once; `ConsentOK` that what is about to change was approved, by question or by setting, for
the process it is about to change; `KeptOK` and `LeavingOK` who still has to let go of a
process; `TalkOK` that calls of the last answer are answered or are about to be. The
conversation is a sequence, and `TalkOK` is about its last entries only, which is what makes it
inductive without induction over it.

*Scanner.* `DirsOK` says which directory names were given out and are taken, `ScanOK` which directory
a scan in progress writes, `ResultsOK` that the results held (present, undo, saved) have
different, complete directories. Cleanups may come between any two steps.

*Lua.* `EngineInv` ties the engine's target to what the debug session, the queue and the stop
being handled were of, and says that a kept stop lasts as long as its program's image and is not
handed out twice; `ScriptInv` that no slot is two functions', that a running thread's function
is kept by its call, and a closed widget's until it returns; `RecordsOK` that a reference or
callback of the present generation names its own record. This invariant was also checked by
TLC on the run's instance before it was proved.

*Remote calls.* `ProgramKept` is about every step that unmaps, and what such a step compares
is the image its record was made in. That is enough only if a record with something to
unmap has an image, and one that is not the running one's unless the frame is the service's
own: `Bound` says so of every record and of the service's own system call. It is not
inductive alone, because the image is entered in one step of `prepare` and the frame in
another: `Placed` says at which places of the code the owner's record has its image, who the
owner goes back to from the shared steps (`Returns`, `CallReturns`) and that the call it
works on is its job's; `JobsOK` that a call has at most one job and its caller waits, so that no
other step changes that record meanwhile. `TypeOK` is part of the induction. That an
exec is never under way in the second image is what makes an earlier record's image a past one for
good. The invariant was searched by TLC with wider budgets before it was proved.

*A lent system call.* `LoanSound` is about the thread and about what its owner reports; what
makes it hold is the owner's record. `LoanInv` says, of a live thread, that whatever of the loan
is in it has its original in the record (`Recorded`: the patched words, the lent registers, the
blocked mask, the proof's page, a signal taken over, a trap left by a denied step); what the record
has at each place (`RecordOK`); that only four situations let the thread run, each with what it
runs with (`RunOK`); what is known of a stop, which matters most where the thread was resumed
and the next stop may be any of five (`StopOK`); that after an exec
nothing of the old program is in the thread and the record is retired before it is
written to again (`ReplacedOK`); and, phase by phase of `progressRestartAbi`, which registers,
mask and entry the thread has and that an interrupt is pending whenever it runs (`PhaseOK`). That
the call leaves the return page alone is a fact about `CanLend` (`LentIsSafe`). It has one
lemma per action, 50 in all. TLC checked `LoanInv` on 5.8 million states first. The
theorem is about one loan with at most one signal and one SIGSTOP of the program (section 6).

*Only model-checked*, and why:

- all liveness (`CallersAnswered`, `HitsReported`, `CallsEnd`, `ThreadLetGo`, `NobodyHeld`,
  `StopEnds`, `StopsEnd`, `StopsResume`): fairness and ENABLED are outside the prover's reach;
- `WholeOrMarked`, `ScansExact`, the labels of `Accounted`: what folds over chunks, files
  and lines compute needs induction over data;
- `RecordsOwned`, `RowsOrdered` and the rest of the window: the table's text is
  a recursive operator, and `MCMainWindow` reaches it;
- `UndoKeepsOthers` and `LayersSpec` hold in the scenarios checked and not in all others (section 4);
- `SignalsOwned`, `HeldTogether`, `NoPatchAcrossExec` and `CodeIntact` hold without refused requests,
  or with one; a proof would have to follow the all-stop with that budget at 0;
- `CallsSound` (but for its `TypeOK`), `Undisturbed`, `NothingMissed` and `TargetCurrent` have no proof.

## 6. What is left out

*DebugSession.* Not modelled: hardware watchpoints, the temporary breakpoints of
step over/out and run to cursor, job-control stops, the signal mask of a held
step, and the run of a repeated string instruction past its breakpoint (`debug_session.cpp:611-638`). Reading the registers of a stopped thread is assumed to succeed. Any signal
can interrupt a step. `SignalsOwned` is not claimed under refused requests:
an interrupt stop with a queued trap is then held without draining it. The clause of
`AllStop` about the active thread does not hold while the whole group is being
killed. A refused release of an exit stop during an exec deadlocks the exec.

*NativeCall.* An exec runs the same executable file (the hardest case: pid, start
time and file are unchanged). The called pthread functions neither exit nor
execute, and handlers of forwarded signals return; a plain function may do both.
The notification of a late stop is consumed by whoever looks next. A memory
operation on a thread that is executing is refused without effect. The kernel is
5.13 or later (ptrace refuses a thread whose tid changed until its exec is waited
for). Running out of memory in the engine, the back-off of `prepare`, the injector and
the byte-level affinity proof (here: the image number) are left out. The service is the process-lifetime one; frames of workers it
leaves at exit count as handed out. An exec stop of a thread that was seized but
not stopped is excepted from `AttachmentsOwned`, and during shutdown the memory a
detached worker runs in is not pinned.

*TargetSyscall.* One signal and one job-control stop of the program per loan; a
sibling's exec replaces the thread only while it runs lent; a signal that cannot be masked, or
comes from elsewhere, during `progressRestartAbi` is not modelled, nor are ARM's vector
return and the restart probe. The nested calls by which two images are told
apart are one step each.

*CodePatch.* Not modelled: writes by `process_vm_writev` to code pages that are writable,
the debugger's traps in the same bytes, overlapping instructions, several programs' lists.
`OriginalsKept` is not claimed for bytes that an entry read while a restoration was pending, or from
the program before an exec, was restored to: such an entry can write NOPs, or old code, as the
original, and a later entry of the same list keeps what it finds (the *stale* hand).

*Ceserver, agent, scanner, code finder.* `RemoteDebugger` takes its own snapshot of the connection's
generation (`ceserver_debugger.cpp:76-77`); here it is its process object's, which is the same for a
debugger made with it, as the windows do. A script the agent enables either runs or changes nothing: what
a failed rollback leaves (`agent_tools.cpp:1173-1174`) is the assembler's matter. Of a result's files
the addresses, values, first values and frames may fail; the lanes that vector instructions
compare are the values themselves; whether an instruction touches the watched address is an oracle that is
always right (`accessTouchesTarget` says no when the context cannot be read, `code_finder.cpp:699-715`).

*The program as a whole.* The definitions stand for about 30 % of the implementation's lines.
Without a module: the GDB remote client, the plugins that run in the target (speedhack, Mono
agent), hardware branch tracing and its rings, symbols and analysis, disassembly, the command line,
the structure dissector and the other windows, the kernel module and the tutorial. They
are `not_modelled` or `partly` in `PROJECT.json`, with the reason.

## 7. Plan

In this order:

| Work | Why |
|---|---|
| `NativeCall`: the ownership parts of `CallsSound` | on top of `IInv` of `NativeCallProofs`; `ContextReturned` and `HandlesSettled` first |
| `MainWindow`: `TargetCurrent` as a theorem | nested operations of one thread, like `LuaEngine` |
| `DebugSession`: `NewCodeKept`, then the all-stop without refused requests | the largest invariant left |
| `AutoAssembler`: the ownership parts of `Accounted` | labels stay with TLC |
| `Speedhack`, `PerfRing`, `GdbRemote` | components without a module |
