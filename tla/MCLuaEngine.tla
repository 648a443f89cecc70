----------------------------- MODULE MCLuaEngine -----------------------------
(* Small instances of the Lua engine: each scenario exercises some of the  *)
(* bindings with a few calls of each.                                      *)
EXTENDS LuaEngine

NoBudget == [calls |-> 0, host |-> 0, stops |-> 0, execs |-> 0, exits |-> 0, clicks |-> 0, close |-> 0,
             tables |-> 0, activations |-> 0]
Scenario(ops, kinds, objects, budget) == [ops |-> ops, kinds |-> kinds, objects |-> objects, budget |-> budget]

\* Names that scripts register, for targets that are replaced.
Names == Scenario({"host", "open", "names", "use"}, {}, 0, [NoBudget EXCEPT !.calls = 4, !.host = 2])
\* Targets that scripts, options and the window replace, with hooks and symbols.
Targets == Scenario({"host", "open", "ceserver", "disconnect", "use", "options", "hook"}, {}, 0,
                    [NoBudget EXCEPT !.calls = 4, !.host = 2])
\* Breakpoints, stops, an exec or an exit, and handlers that fail, resume the
\* program themselves or open another one.
Debugging == Scenario({"host", "open", "breakpoint", "continue", "registers", "pump"}, {}, 0,
                      [NoBudget EXCEPT !.calls = 3, !.host = 1, !.stops = 2, !.execs = 1, !.exits = 1])
Timers == Scenario({"objects", "bind", "destroy"}, {"timer", "hotkey", "thread"}, 2,
                   [NoBudget EXCEPT !.calls = 7, !.clicks = 2, !.close = 1])
Widgets == Scenario({"objects", "bind", "destroy"}, {"widget", "timer", "menu"}, 2,
                    [NoBudget EXCEPT !.calls = 7, !.clicks = 2, !.close = 1])
Tables == Scenario({"records"}, {}, 0, [NoBudget EXCEPT !.calls = 4, !.tables = 3, !.activations = 1])

AllScenarios == {Names, Targets, Debugging, Timers, Widgets, Tables}
=============================================================================
