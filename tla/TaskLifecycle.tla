--------------------------- MODULE TaskLifecycle ---------------------------
(***************************************************************************)
(* What the task supervisor promises, without its lists, locks, workers    *)
(* and files: a task waits, is given one of the slots of its pool, works,  *)
(* and ends once; the persistent ones that had not ended wait again when   *)
(* the program is killed and started again.  TaskManager implements it.    *)
(***************************************************************************)
EXTENDS Naturals, FiniteSets

CONSTANTS
  Tasks,          \* the identifiers of tasks
  IOTasks,        \* those of the pool of downloads
  Persist,        \* those that survive the program
  MaxConcurrentDownloads,
  MaxConcurrentOperations

VARIABLE life     \* "new", "waiting", "active", "gone" (out of the list before it ended) or an end

Ends == {"completed", "failed", "cancelled"}

(* The tasks of t's pool that are at work, and how many may be. *)
Rivals(t) == {u \in Tasks : life[u] = "active" /\ (u \in IOTasks <=> t \in IOTasks)}
Slots(t) == IF t \in IOTasks THEN MaxConcurrentDownloads ELSE MaxConcurrentOperations

LifeInit == life = [t \in Tasks |-> "new"]

(* Only t goes on, from one state to another. *)
Turn(t, from, to) == life[t] = from /\ life' = [life EXCEPT ![t] = to]

(* Submit. *)
Enlist(t) == Turn(t, "new", "waiting")

(* The scheduler's pass. *)
Begin(t) == Turn(t, "waiting", "active") /\ Cardinality(Rivals(t)) < Slots(t)

(* The worker ends, or a waiting task is cancelled. *)
End(t) == (\E e \in Ends : Turn(t, "active", e)) \/ Turn(t, "waiting", "cancelled")

(* Remove. *)
Leave(t) == Turn(t, "waiting", "gone")

(* A kill and the next start: no task is at work, no end is forgotten, and what *)
(* waited in the file still waits.                                              *)
AfterKill(t) ==
  CASE life[t] = "active" -> IF t \in Persist THEN {"waiting", "gone"} ELSE {"gone"}
    [] life[t] = "waiting" -> IF t \in Persist THEN {"waiting"} ELSE {"gone"}
    [] OTHER -> {life[t]}

Recover ==
  /\ \A t \in Tasks : life'[t] \in AfterKill(t)
  /\ life' = [t \in Tasks |-> life'[t]]

LifeNext ==
  /\ life' # life
  /\ \/ \E t \in Tasks : Enlist(t) \/ Begin(t) \/ End(t) \/ Leave(t)
     \/ Recover

LifeSpec == LifeInit /\ [][LifeNext]_life
=============================================================================
