--------------------------- MODULE MCTaskManager ---------------------------
(* Instances of TaskManager for TLC: persistent tasks d1 and d2, of which d1    *)
(* can be paused, operations u1 and u2 that are neither, a synchronous task s1. *)
EXTENDS TaskManager, TLC
CONSTANTS d1, d2, u1, u2, s1

(* Two downloads and a kill; two operations and Shutdown; an operation beside a *)
(* synchronous task.                                                            *)
EveryScene ==
  {[tasks |-> {d1, d2}, sync |-> {}, ends |-> {"kill"}],
   [tasks |-> {u1, u2}, sync |-> {}, ends |-> {"shutdown"}],
   [tasks |-> {u1}, sync |-> {s1}, ends |-> {}]}

(* Two operations that share a slot. *)
Operations == {[tasks |-> {u1, u2}, sync |-> {}, ends |-> {}]}

(* One download that is cancelled, and with Shutdown. *)
OneDownload == {[tasks |-> {d1}, sync |-> {}, ends |-> {}]}
OneShutdown == {[tasks |-> {d1}, sync |-> {}, ends |-> {"shutdown"}]}
=============================================================================
