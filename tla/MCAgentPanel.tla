---------------------------- MODULE MCAgentPanel ----------------------------
(* The assistant's panel and the MCP server, checked by TLC on small conversations. *)
EXTENDS AgentPanel

C(tool, arg) == [tool |-> tool, arg |-> arg]

NoBudget == [window |-> 0, send |-> 0, stop |-> 0, chat |-> 0, close |-> 0, game |-> 0, exit |-> 0]
Base == [driver |-> "panel", provider |-> "anthropic", allow |-> TRUE, replies |-> {<<C("read", 0)>>}, calls |-> 3,
         budget |-> NoBudget]

\* Two processes, a switch of the target, and changes that need the user.
Changes == [Base EXCEPT !.replies = {<<C("write", 0)>>, <<C("attach", 2)>>},
                        !.budget = [NoBudget EXCEPT !.window = 2, !.send = 2]]
\* A Stop or the end of the panel at every point of a turn with a question.
Stops == [Base EXCEPT !.replies = {<<C("write", 0)>>, <<C("watch", 0)>>}, !.calls = 2,
                      !.budget = [NoBudget EXCEPT !.window = 1, !.send = 2, !.stop = 1, !.close = 1]]
\* Scripts and freezes in processes that are left and may exit.
Scripts == [Base EXCEPT !.replies = {<<C("enable", 0)>>, <<C("disable", 1)>>, <<C("attach", 2)>>},
                        !.budget = [NoBudget EXCEPT !.window = 2, !.send = 1, !.close = 1]]
Freezes == [Base EXCEPT !.replies = {<<C("record", 0), C("freeze", 1)>>, <<C("unfreeze", 1)>>, <<C("save", 0)>>},
                        !.budget = [NoBudget EXCEPT !.window = 1, !.send = 1, !.game = 1, !.exit = 1]]
\* Conversations: failures, Stops, new chats and settings, with both kinds of server.
Talk(provider) == [Base EXCEPT !.provider = provider, !.replies = {<<C("read", 0)>>, <<C("scan", 0), C("read", 0), C("read", 0)>>},
                               !.calls = 4, !.budget = [NoBudget EXCEPT !.send = 3, !.stop = 1, !.chat = 1]]
\* The main window leaves the process while a key is asked for.
Keys == [Base EXCEPT !.replies = {<<C("enable", 0)>>}, !.calls = 1,
                     !.budget = [NoBudget EXCEPT !.window = 2, !.send = 2, !.chat = 1]]
Searches == [Base EXCEPT !.replies = {<<C("scan", 0), C("next", 0)>>, <<C("undo", 0), C("paths", 0)>>, <<C("rescan", 0), C("find", 0)>>, <<C("attach", 2)>>}, !.calls = 4,
                         !.budget = [NoBudget EXCEPT !.window = 1, !.send = 1, !.exit = 1]]
\* The MCP server, started with and without --allow-writes.
Mcp(allow) == [Base EXCEPT !.driver = "mcp", !.allow = allow, !.calls = 5,
                           !.replies = {<<C("attach", 1)>>, <<C("attach", 2)>>, <<C("record", 0), C("freeze", 1)>>,
                                        <<C("enable", 0), C("write", 0)>>, <<C("disable", 1)>>, <<C("watch", 0)>>, <<C("unfreeze", 1)>>,
                                        <<C("scan", 0), C("next", 0)>>, <<C("undo", 0), C("paths", 0)>>, <<C("rescan", 0)>>},
                           !.budget = [NoBudget EXCEPT !.game = 1]]

AllScenarios == {Changes, Stops, Scripts, Freezes, Searches, Keys, Talk("anthropic"), Talk("openai"), Mcp(TRUE), Mcp(FALSE)}
=============================================================================
