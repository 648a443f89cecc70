----------------------------- MODULE MCCeserver -----------------------------
(* Ceserver for TLC.  The scenarios keep apart what would only multiply:
   threads that cancel and reconnect under each other's transactions, a
   debugging client, and a client that fills its connection's handle table. *)
EXTENDS Ceserver

MCScenarios ==
  {[cancels |-> 4, ops |-> <<{"open", "access", "close"}, {"open", "reconnect"}>>],
   [cancels |-> 2, ops |-> <<{"open", "start", "stop", "setbp", "rmbp", "wait", "cont", "closehandle", "refused"},
                             {"reconnect"}>>],
   [cancels |-> 1, ops |-> <<{"open", "closehandle", "access", "snap", "entry"}, {"reconnect", "plain"}>>]}
=============================================================================
