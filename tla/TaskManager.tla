---------------------------- MODULE TaskManager ----------------------------
(***************************************************************************)
(* The task supervisor of gamux: tasks.Manager, the tasks.Controller of    *)
(* each running task and the tasks.FileStore behind them.                  *)
(*                                                                         *)
(* A task is submitted by a front end, waits in one ordered list, is       *)
(* started by the scheduler goroutine when its pool (downloads or other    *)
(* operations) has a free slot, runs in a goroutine of its own, may be     *)
(* paused, resumed and cancelled from any thread meanwhile, and ends       *)
(* completed, failed or cancelled.  Persistent tasks are written to a file *)
(* and come back paused when the program is started again.                 *)
(*                                                                         *)
(* Manager.mu is held by one actor at a time.  Every critical section but  *)
(* the scheduler's is one step; the scheduler's pass over the list takes   *)
(* one step per task, because slots are given back without the lock.       *)
(***************************************************************************)
EXTENDS Integers, FiniteSets, Sequences, SequencesExt

CONSTANTS
  Tasks,        \* identifiers of submitted tasks; generateTaskID never repeats one
  IOTasks,      \* tasks of type download or tool_update, which use ioSem
  Pausable,     \* tasks with CapPausable
  Persist,      \* tasks with CapPersist
  HasRunner,    \* tasks whose type has a runner registered by RegisterRunner
  SyncTasks,    \* identifiers of tasks executed by RunSync
  MaxConcurrentDownloads,
  MaxConcurrentOperations,
  Scenes,       \* what the environment does, see SceneType; one is chosen at the start
  SaveMayFail,  \* whether FileStore.Save may fail (its callers ignore the error)
  MaxRestarts   \* bound on the number of times the program is killed and restarted

ASSUME TaskSets ==
  /\ IsFiniteSet(Tasks)
  /\ IOTasks \subseteq Tasks
  /\ Pausable \subseteq Tasks
  /\ Persist \subseteq Tasks
  /\ HasRunner \subseteq Tasks
  /\ SyncTasks \cap Tasks = {}

ASSUME PoolSizes ==
  /\ MaxConcurrentDownloads \in Nat \ {0}
  /\ MaxConcurrentOperations \in Nat \ {0}
  /\ MaxRestarts \in Nat
  /\ SaveMayFail \in BOOLEAN

(* The tasks that are submitted, the synchronous ones that are run, and how the *)
(* program may end: Shutdown is called, or it is killed.                        *)
SceneType == [tasks : SUBSET Tasks, sync : SUBSET SyncTasks, ends : SUBSET {"shutdown", "kill"}]

ASSUME SceneSet == Scenes \subseteq SceneType

VARIABLES
  (* Manager *)
  tasks,      \* m.tasks: the ordered list
  status,     \* Task.Status of every task object, "new" before Submit
  hasRun,     \* tasks whose Run closure is set (it does not survive a restart)
  sem,        \* slots taken in ioSem and cpuSem
  notify,     \* notifyCh holds its one token
  submit,     \* where Submit of each task is: it has seen closed unset and has not
              \* the lock yet ("open"), or has left the lock and has not notified yet ("listed")
  cancels,    \* keys of m.cancels
  closed,     \* m.closed, and stopCh closed
  shut,       \* where Shutdown is
  toCancel,   \* the cancel functions Shutdown has collected and not yet called
  (* scheduler goroutine *)
  sched,      \* where schedulerLoop is; it holds m.mu in "pass"
  pos,        \* index in m.tasks of the task the pass looks at next
  (* worker goroutines and their controllers *)
  worker,     \* where runWorker of each task is
  outcome,    \* what the task's Run returned
  ctrl,       \* keys of m.controllers
  paused,     \* tasks whose controller has isPaused set
  ctxDone,    \* tasks whose context is cancelled
  (* outside *)
  saved,      \* the contents of the store's file
  lastEvent,  \* the last event emitted for each task since the program started
  sync,       \* where RunSync of each synchronous task is; after a report, whether an
              \* event was emitted ("heard") or not ("unheard")
  restarts,   \* how often the program has been killed
  scene       \* the member of Scenes that was chosen

managerVars == <<tasks, status, hasRun, submit, cancels>>
shutdownVars == <<closed, shut, toCancel>>
schedVars == <<sched, pos>>
workerVars == <<worker, outcome, ctrl, paused, ctxDone>>
outsideVars == <<sync, restarts, scene>>
vars == <<tasks, status, hasRun, sem, notify, submit, cancels, closed, shut,
          toCancel, sched, pos, worker, outcome, ctrl, paused, ctxDone, saved,
          lastEvent, sync, restarts, scene>>

-----------------------------------------------------------------------------
(* Types and helpers *)

Terminal == {"completed", "failed", "cancelled"}
Active == {"queued", "running", "paused"}
Status == {"new"} \cup Active \cup Terminal

(* The last event of a task: every event of a task that has not ended (started, *)
(* progress, stage_change, paused, resumed) is "live".                          *)
Events == {"none", "live"} \cup Terminal

Outcome == {"none", "ok", "err", "canceled"}

(* runWorker: "spawned" before the controller is registered; "run" inside   *)
(* Run; "checked", "parked" and "woken" inside CheckPauseOrCancel;          *)
(* "reporting" between the unlock in handleProgress, handleStep or          *)
(* handleStage and the emission; "returned" after Run;                      *)
(* "finished" after the final critical section, the slot still taken;       *)
(* "released" with the slot given back and the scheduler not yet notified.  *)
InRun == {"run", "checked", "parked", "woken", "reporting"}
Registered == InRun \cup {"returned"}
Cancellable == Registered \cup {"spawned"}
Holding == Cancellable \cup {"finished"}
Worker == {"none", "released"} \cup Holding

Pools == {"io", "cpu"}
Pool(t) == IF t \in IOTasks THEN "io" ELSE "cpu"
Capacity(p) == IF p = "io" THEN MaxConcurrentDownloads ELSE MaxConcurrentOperations

Listed == {tasks[i] : i \in DOMAIN tasks}

(* r keeps exactly the tasks of s that are in K, in the order of s. *)
IsSelection(r, s, K) ==
  /\ \A i \in DOMAIN r : \E k \in DOMAIN s : r[i] = s[k] /\ r[i] \in K
  /\ \A k \in DOMAIN s : s[k] \in K => \E i \in DOMAIN r : r[i] = s[k]
  /\ \A i, j \in DOMAIN r : i < j =>
        \E k, l \in DOMAIN s : k < l /\ s[k] = r[i] /\ s[l] = r[j]

(* No other goroutine is inside a critical section of m.mu. *)
LockFree == sched # "pass"

(* notifyScheduler: nothing once closed, otherwise fill the one-token channel. *)
Notified == notify \/ ~closed

(* FileStore.Save: the persistent tasks of the list, written to a temporary *)
(* file that is renamed over the old one.  A failure leaves the old file.   *)
Save(list, st) ==
  \/ \E r \in SeqOf(Persist, Len(list)) :
       /\ IsSelection(r, list, Persist)
       /\ saved' = [order |-> r, status |-> [t \in {r[i] : i \in DOMAIN r} |-> st[t]]]
  \/ SaveMayFail /\ UNCHANGED saved

(* Mutant of Recovered: every task comes back paused, the ended ones too. *)
RecoveredAll(s) == "paused"

(* FileStore.Load: what was in flight comes back paused. *)
Recovered(s) == IF s \in {"running", "queued"} THEN "paused" ELSE s

(* Controller.SetPaused(false) stores the flag and broadcasts: a parked worker wakes. *)
Unpause(t) ==
  /\ paused' = paused \ {t}
  /\ worker' = IF worker[t] = "parked" THEN [worker EXCEPT ![t] = "woken"] ELSE worker

-----------------------------------------------------------------------------
Init ==
  /\ tasks = <<>>
  /\ status = [t \in Tasks |-> "new"]
  /\ hasRun = {}
  /\ sem = [p \in Pools |-> 0]
  /\ notify = FALSE
  /\ submit = [t \in Tasks |-> "no"]
  /\ cancels = {}
  /\ closed = FALSE
  /\ shut = "no"
  /\ toCancel = {}
  /\ sched = "idle"
  /\ pos = 0
  /\ worker = [t \in Tasks |-> "none"]
  /\ outcome = [t \in Tasks |-> "none"]
  /\ ctrl = {}
  /\ paused = {}
  /\ ctxDone = {}
  /\ saved = [order |-> <<>>, status |-> [t \in {} |-> "queued"]]
  /\ lastEvent = [t \in Tasks |-> "none"]
  /\ sync = [t \in SyncTasks |-> "idle"]
  /\ restarts = 0
  /\ scene \in Scenes

-----------------------------------------------------------------------------
(* Operations of the front end *)

(* Submit is refused once closed; the test precedes the lock. *)
SubmitOpen(t) ==
  /\ t \in scene.tasks
  /\ ~closed
  /\ status[t] = "new" /\ submit[t] = "no"
  /\ submit' = [submit EXCEPT ![t] = "open"]
  /\ UNCHANGED <<tasks, status, hasRun, sem, notify, cancels, shutdownVars, schedVars, workerVars,
                 saved, lastEvent, outsideVars>>

(* The critical section: a task with priority goes before the first queued *)
(* task of the list, any other to its end.                                 *)
Submit(t, priority) ==
  LET queued == {i \in DOMAIN tasks : status[tasks[i]] = "queued"}
  IN
  /\ LockFree
  /\ submit[t] = "open"
  /\ status' = [status EXCEPT ![t] = "queued"]
  /\ hasRun' = hasRun \cup {t}
  /\ \/ /\ priority
        /\ \E i \in queued :
             /\ \A j \in queued : i <= j
             /\ tasks' = InsertAt(tasks, i, t)
     \/ /\ ~priority \/ queued = {}
        /\ tasks' = Append(tasks, t)
  /\ Save(tasks', status')
  /\ submit' = [submit EXCEPT ![t] = "listed"]
  /\ UNCHANGED <<sem, notify, cancels, shutdownVars, schedVars, workerVars, lastEvent, outsideVars>>

(* The end of Submit, outside the lock. *)
SubmitNotify(t) ==
  /\ submit[t] = "listed"
  /\ submit' = [submit EXCEPT ![t] = "no"]
  /\ notify' = Notified
  /\ UNCHANGED <<tasks, status, hasRun, sem, cancels, shutdownVars, schedVars, workerVars,
                 saved, lastEvent, outsideVars>>

(* Mutant of Pause: a running task is paused before its controller is there. *)
PauseUnregistered(t) ==
  /\ LockFree
  /\ t \in Listed /\ t \in Pausable
  /\ status[t] \in {"queued", "running"}
  /\ paused' = IF t \in ctrl THEN paused \cup {t} ELSE paused
  /\ status' = [status EXCEPT ![t] = "paused"]
  /\ Save(tasks, status')
  /\ lastEvent' = [lastEvent EXCEPT ![t] = "live"]
  /\ UNCHANGED <<tasks, hasRun, sem, notify, submit, cancels, shutdownVars, schedVars,
                 worker, outcome, ctrl, ctxDone, outsideVars>>

(* Pause: a queued task is only marked; a running one also has its controller *)
(* paused, and is refused while the controller is not registered yet.         *)
Pause(t) ==
  /\ LockFree
  /\ t \in Listed /\ t \in Pausable
  /\ \/ /\ status[t] = "queued"
        /\ UNCHANGED paused
     \/ /\ status[t] = "running" /\ t \in ctrl
        /\ paused' = paused \cup {t}
  /\ status' = [status EXCEPT ![t] = "paused"]
  /\ Save(tasks, status')
  /\ lastEvent' = [lastEvent EXCEPT ![t] = "live"]
  /\ UNCHANGED <<tasks, hasRun, sem, notify, submit, cancels, shutdownVars, schedVars,
                 worker, outcome, ctrl, ctxDone, outsideVars>>

(* Resume: a task with a controller goes on, any other goes back to the queue. *)
Resume(t) ==
  /\ LockFree
  /\ t \in Listed /\ status[t] = "paused"
  /\ \/ /\ t \in ctrl
        /\ Unpause(t)
        /\ status' = [status EXCEPT ![t] = "running"]
        /\ UNCHANGED notify
     \/ /\ t \notin ctrl
        /\ status' = [status EXCEPT ![t] = "queued"]
        /\ notify' = Notified
        /\ UNCHANGED <<worker, paused>>
  /\ Save(tasks, status')
  /\ lastEvent' = [lastEvent EXCEPT ![t] = "live"]
  /\ UNCHANGED <<tasks, hasRun, sem, submit, cancels, shutdownVars, schedVars,
                 outcome, ctrl, ctxDone, outsideVars>>

(* Cancel of a task that has a worker: unpause it and cancel its context; the *)
(* worker itself records the end.  The two calls are one step: a worker that  *)
(* wakes between them goes on to "run" with the context cancelled, as one     *)
(* resumed just before the Cancel does.                                       *)
CancelActive(t) ==
  /\ LockFree
  /\ t \in Listed /\ status[t] \notin Terminal
  /\ t \in cancels
  /\ IF t \in ctrl THEN Unpause(t) ELSE UNCHANGED <<worker, paused>>
  /\ ctxDone' = ctxDone \cup {t}
  /\ UNCHANGED <<managerVars, sem, notify, shutdownVars, schedVars, outcome, ctrl,
                 saved, lastEvent, outsideVars>>

(* Mutant of CancelQueued: the end is not reported. *)
CancelQueuedSilent(t) ==
  /\ LockFree
  /\ t \in Listed /\ status[t] \notin Terminal
  /\ t \notin cancels
  /\ status' = [status EXCEPT ![t] = "cancelled"]
  /\ Save(tasks, status')
  /\ UNCHANGED <<tasks, hasRun, sem, notify, submit, cancels, shutdownVars, schedVars,
                 workerVars, lastEvent, outsideVars>>

(* Cancel of a task that has none. *)
CancelQueued(t) ==
  /\ LockFree
  /\ t \in Listed /\ status[t] \notin Terminal
  /\ t \notin cancels
  /\ status' = [status EXCEPT ![t] = "cancelled"]
  /\ Save(tasks, status')
  /\ lastEvent' = [lastEvent EXCEPT ![t] = "cancelled"]
  /\ UNCHANGED <<tasks, hasRun, sem, notify, submit, cancels, shutdownVars, schedVars,
                 workerVars, outsideVars>>

(* Mutant of Remove_: the list is not saved. *)
RemoveUnsaved(i) ==
  /\ LockFree
  /\ status[tasks[i]] # "running"
  /\ tasks' = RemoveAt(tasks, i)
  /\ UNCHANGED <<status, hasRun, sem, notify, submit, cancels, shutdownVars, schedVars,
                 workerVars, saved, lastEvent, outsideVars>>

(* Remove: refused only for a running task. *)
Remove_(i) ==
  /\ LockFree
  /\ status[tasks[i]] # "running"
  /\ tasks' = RemoveAt(tasks, i)
  /\ Save(tasks', status)
  /\ UNCHANGED <<status, hasRun, sem, notify, submit, cancels, shutdownVars, schedVars,
                 workerVars, lastEvent, outsideVars>>

(* Reorder: the queued tasks among ids come first, in the order of ids; the *)
(* others keep their order.                                                 *)
Reorder(ids) ==
  LET Named == {ids[i] : i \in DOMAIN ids} \cap {t \in Listed : status[t] = "queued"}
  IN
  /\ LockFree
  /\ \E first \in SeqOf(Named, Len(ids)) :
       /\ IsSelection(first, ids, Named)
       /\ \E rest \in SeqOf(Listed \ Named, Len(tasks)) :
            /\ IsSelection(rest, tasks, Listed \ Named)
            /\ tasks' = first \o rest
  /\ Save(tasks', status)
  /\ notify' = Notified
  /\ UNCHANGED <<status, hasRun, sem, submit, cancels, shutdownVars, schedVars,
                 workerVars, lastEvent, outsideVars>>

(* ClearFinished keeps the running, queued and paused tasks. *)
ClearFinished ==
  /\ LockFree
  /\ \E r \in SeqOf(Listed, Len(tasks)) :
       /\ IsSelection(r, tasks, {t \in Listed : status[t] \in Active})
       /\ tasks' = r
  /\ Save(tasks', status)
  /\ UNCHANGED <<status, hasRun, sem, notify, submit, cancels, shutdownVars, schedVars,
                 workerVars, lastEvent, outsideVars>>

(* Shutdown: set closed and close stopCh, collect the cancel functions under  *)
(* the lock, call them one after the other.                                   *)
ShutdownBegin ==
  /\ "shutdown" \in scene.ends /\ ~closed
  /\ closed' = TRUE
  /\ shut' = "closing"
  /\ UNCHANGED <<managerVars, sem, notify, toCancel, schedVars, workerVars, saved, lastEvent, outsideVars>>

ShutdownCollect ==
  /\ LockFree
  /\ shut = "closing"
  /\ shut' = "cancelling"
  /\ toCancel' = cancels
  /\ UNCHANGED <<managerVars, sem, notify, closed, schedVars, workerVars, saved, lastEvent, outsideVars>>

ShutdownCancel(t) ==
  /\ shut = "cancelling"
  /\ t \in toCancel
  /\ toCancel' = toCancel \ {t}
  /\ ctxDone' = IF worker[t] \in Cancellable THEN ctxDone \cup {t} ELSE ctxDone
  /\ UNCHANGED <<managerVars, sem, notify, closed, shut, schedVars, worker, outcome, ctrl, paused,
                 saved, lastEvent, outsideVars>>

-----------------------------------------------------------------------------
(* The scheduler goroutine *)

SchedulerWake ==
  /\ sched = "idle"
  /\ notify
  /\ notify' = FALSE
  /\ sched' = "woken"
  /\ UNCHANGED <<managerVars, sem, shutdownVars, pos, workerVars, saved, lastEvent, outsideVars>>

SchedulerStop ==
  /\ sched = "idle"
  /\ closed
  /\ sched' = "exited"
  /\ UNCHANGED <<managerVars, sem, notify, shutdownVars, pos, workerVars, saved, lastEvent, outsideVars>>

(* Mutant of SchedulerEnter: closed is not tested under the lock. *)
SchedulerEnterClosed ==
  /\ sched = "woken"
  /\ sched' = "pass"
  /\ pos' = 1
  /\ UNCHANGED <<managerVars, sem, notify, shutdownVars, workerVars, saved, lastEvent, outsideVars>>

SchedulerEnter ==
  /\ sched = "woken"
  /\ sched' = IF closed THEN "exited" ELSE "pass"
  /\ pos' = IF closed THEN 0 ELSE 1
  /\ UNCHANGED <<managerVars, sem, notify, shutdownVars, workerVars, saved, lastEvent, outsideVars>>

(* A queued task whose pool has a free slot takes it and gets a worker. *)
SchedulerStart ==
  LET t == tasks[pos]
      p == Pool(t)
  IN
  /\ sched = "pass" /\ pos \in DOMAIN tasks
  /\ status[t] = "queued"
  /\ sem[p] < Capacity(p)
  /\ sem' = [sem EXCEPT ![p] = @ + 1]
  /\ status' = [status EXCEPT ![t] = "running"]
  /\ cancels' = cancels \cup {t}
  /\ worker' = [worker EXCEPT ![t] = "spawned"]
  /\ lastEvent' = [lastEvent EXCEPT ![t] = "live"]
  /\ Save(tasks, status')
  /\ pos' = pos + 1
  /\ UNCHANGED <<tasks, hasRun, notify, submit, shutdownVars, sched, outcome, ctrl, paused, ctxDone, outsideVars>>

(* Any other task is passed over. *)
SchedulerSkip ==
  /\ sched = "pass" /\ pos \in DOMAIN tasks
  /\ \/ status[tasks[pos]] # "queued"
     \/ sem[Pool(tasks[pos])] >= Capacity(Pool(tasks[pos]))
  /\ pos' = pos + 1
  /\ UNCHANGED <<managerVars, sem, notify, shutdownVars, sched, workerVars, saved, lastEvent, outsideVars>>

SchedulerLeave ==
  /\ sched = "pass" /\ pos \notin DOMAIN tasks
  /\ sched' = "idle"
  /\ pos' = 0
  /\ UNCHANGED <<managerVars, sem, notify, shutdownVars, workerVars, saved, lastEvent, outsideVars>>

-----------------------------------------------------------------------------
(* Worker goroutines *)

(* The first critical section: register the controller and find what to run. *)
(* A task that has neither a Run nor a registered runner fails at once.      *)
WorkerRegister(t) ==
  /\ LockFree
  /\ worker[t] = "spawned"
  /\ ctrl' = ctrl \cup {t}
  /\ paused' = paused \ {t}
  /\ IF t \in hasRun \cup HasRunner
     THEN /\ worker' = [worker EXCEPT ![t] = "run"]
          /\ UNCHANGED outcome
     ELSE /\ worker' = [worker EXCEPT ![t] = "returned"]
          /\ outcome' = [outcome EXCEPT ![t] = "err"]
  /\ UNCHANGED <<managerVars, sem, notify, shutdownVars, schedVars, ctxDone, saved, lastEvent, outsideVars>>

(* CheckPauseOrCancel. A cancelled context makes the operation return its error. *)
ReturnCanceled(t) ==
  /\ worker' = [worker EXCEPT ![t] = "returned"]
  /\ outcome' = [outcome EXCEPT ![t] = "canceled"]

Check(t) ==
  /\ worker[t] = "run"
  /\ IF t \in ctxDone
     THEN ReturnCanceled(t)
     ELSE /\ worker' = [worker EXCEPT ![t] = "checked"]
          /\ UNCHANGED outcome
  /\ UNCHANGED <<managerVars, sem, notify, shutdownVars, schedVars, ctrl, paused, ctxDone,
                 saved, lastEvent, outsideVars>>

(* The loop on isPaused: entered from the first test of the context, where a *)
(* paused worker parks whatever the context is, or after a wake-up, where    *)
(* the context is tested before the flag.                                    *)
CheckLoop(t) ==
  /\ worker[t] \in {"checked", "woken"}
  /\ \/ /\ t \in paused
        /\ worker[t] = "checked" \/ t \notin ctxDone
        /\ worker' = [worker EXCEPT ![t] = "parked"]
        /\ UNCHANGED outcome
     \/ /\ t \in ctxDone
        /\ worker[t] = "woken" \/ t \notin paused
        /\ ReturnCanceled(t)
     \/ /\ t \notin paused /\ t \notin ctxDone
        /\ worker' = [worker EXCEPT ![t] = "run"]
        /\ UNCHANGED outcome
  /\ UNCHANGED <<managerVars, sem, notify, shutdownVars, schedVars, ctrl, paused, ctxDone,
                 saved, lastEvent, outsideVars>>

(* handleProgress, handleStep and handleStage: look the task up under the    *)
(* lock and copy it; emit after the unlock.  Only handleProgress asks for a  *)
(* running task.  A report that is throttled or whose task is not in the     *)
(* list emits nothing.                                                       *)
Report(t) ==
  /\ LockFree
  /\ worker[t] = "run"
  /\ t \in Listed
  /\ worker' = [worker EXCEPT ![t] = "reporting"]
  /\ UNCHANGED <<managerVars, sem, notify, shutdownVars, schedVars, outcome, ctrl, paused, ctxDone,
                 saved, lastEvent, outsideVars>>

ReportEmit(t) ==
  /\ worker[t] = "reporting"
  /\ lastEvent' = [lastEvent EXCEPT ![t] = "live"]
  /\ worker' = [worker EXCEPT ![t] = "run"]
  /\ UNCHANGED <<managerVars, sem, notify, shutdownVars, schedVars, outcome, ctrl, paused, ctxDone,
                 saved, outsideVars>>

(* Run returns. *)
RunReturn(t, out) ==
  /\ worker[t] = "run"
  /\ out \in {"ok", "err", "canceled"}
  /\ worker' = [worker EXCEPT ![t] = "returned"]
  /\ outcome' = [outcome EXCEPT ![t] = out]
  /\ UNCHANGED <<managerVars, sem, notify, shutdownVars, schedVars, ctrl, paused, ctxDone,
                 saved, lastEvent, outsideVars>>

(* The final critical section: what the task's end is recorded as.  The       *)
(* controller, the context and the result of Run are dropped.                 *)
EndStatus(t) ==
  CASE t \in ctxDone \/ outcome[t] = "canceled" -> "cancelled"
    [] t \notin ctxDone /\ outcome[t] = "err"   -> "failed"
    [] OTHER                                    -> "completed"

(* Mutant of WorkerFinish: a cancelled worker leaves before its clean-up. *)
WorkerFinishNotCanceled(t) ==
  /\ LockFree
  /\ worker[t] = "returned" /\ t \notin ctxDone
  /\ ctrl' = ctrl \ {t}
  /\ cancels' = cancels \ {t}
  /\ status' = [status EXCEPT ![t] = EndStatus(t)]
  /\ lastEvent' = [lastEvent EXCEPT ![t] = EndStatus(t)]
  /\ Save(tasks, status')
  /\ worker' = [worker EXCEPT ![t] = "finished"]
  /\ outcome' = [outcome EXCEPT ![t] = "none"]
  /\ UNCHANGED <<tasks, hasRun, sem, notify, submit, shutdownVars, schedVars, paused, ctxDone, outsideVars>>

WorkerFinish(t) ==
  /\ LockFree
  /\ worker[t] = "returned"
  /\ ctrl' = ctrl \ {t}
  /\ cancels' = cancels \ {t}
  /\ status' = [status EXCEPT ![t] = EndStatus(t)]
  /\ lastEvent' = [lastEvent EXCEPT ![t] = EndStatus(t)]
  /\ Save(tasks, status')
  /\ worker' = [worker EXCEPT ![t] = "finished"]
  /\ outcome' = [outcome EXCEPT ![t] = "none"]
  /\ paused' = paused \ {t}
  /\ ctxDone' = ctxDone \ {t}
  /\ UNCHANGED <<tasks, hasRun, sem, notify, submit, shutdownVars, schedVars, outsideVars>>

(* Mutant of WorkerRelease: the slot is kept. *)
WorkerReleaseNone(t) ==
  /\ worker[t] = "finished"
  /\ worker' = [worker EXCEPT ![t] = "released"]
  /\ UNCHANGED <<managerVars, sem, notify, shutdownVars, schedVars, outcome, ctrl, paused, ctxDone,
                 saved, lastEvent, outsideVars>>

(* Mutant of WorkerNotify: the scheduler is not told of the free slot. *)
WorkerNotifyNone(t) ==
  /\ worker[t] = "released"
  /\ worker' = [worker EXCEPT ![t] = "none"]
  /\ UNCHANGED <<managerVars, sem, notify, shutdownVars, schedVars, outcome, ctrl, paused, ctxDone,
                 saved, lastEvent, outsideVars>>

(* The deferred function: give the slot back, then notify the scheduler. *)
WorkerRelease(t) ==
  /\ worker[t] = "finished"
  /\ sem' = [sem EXCEPT ![Pool(t)] = @ - 1]
  /\ worker' = [worker EXCEPT ![t] = "released"]
  /\ UNCHANGED <<managerVars, notify, shutdownVars, schedVars, outcome, ctrl, paused, ctxDone,
                 saved, lastEvent, outsideVars>>

WorkerNotify(t) ==
  /\ worker[t] = "released"
  /\ notify' = Notified
  /\ worker' = [worker EXCEPT ![t] = "none"]
  /\ UNCHANGED <<managerVars, sem, shutdownVars, schedVars, outcome, ctrl, paused, ctxDone,
                 saved, lastEvent, outsideVars>>

-----------------------------------------------------------------------------
(* RunSync: run a task in the caller, outside the list and the pools.  The   *)
(* started and the final event are emitted whatever happens, and are not      *)
(* recorded.                                                                  *)

RunSyncStart(s) ==
  /\ s \in scene.sync
  /\ sync[s] = "idle"
  /\ sync' = [sync EXCEPT ![s] = "run"]
  /\ UNCHANGED <<managerVars, sem, notify, shutdownVars, schedVars, workerVars, saved, lastEvent, restarts, scene>>

(* A report of progress: findTaskLocked looks the identifier up in m.tasks, and *)
(* nothing is emitted when it is not there.                                     *)
RunSyncReport(s) ==
  /\ LockFree
  /\ sync[s] # "idle"
  /\ sync' = [sync EXCEPT ![s] = IF s \in Listed THEN "heard" ELSE "unheard"]
  /\ UNCHANGED <<managerVars, sem, notify, shutdownVars, schedVars, workerVars, saved, lastEvent, restarts, scene>>

RunSyncFinish(s) ==
  /\ sync[s] # "idle"
  /\ sync' = [sync EXCEPT ![s] = "idle"]
  /\ UNCHANGED <<managerVars, sem, notify, shutdownVars, schedVars, workerVars, saved, lastEvent, restarts, scene>>

-----------------------------------------------------------------------------
(* The program is killed at any moment and started again: NewManager loads  *)
(* the file, keeps no goroutine, and does not notify the scheduler.          *)
Restart ==
  LET loaded == {saved.order[i] : i \in DOMAIN saved.order}
  IN
  /\ "kill" \in scene.ends /\ restarts < MaxRestarts
  /\ restarts' = restarts + 1
  /\ tasks' = saved.order
  /\ status' = [t \in Tasks |-> IF t \in loaded THEN Recovered(saved.status[t]) ELSE status[t]]
  /\ hasRun' = {}
  /\ sem' = [p \in Pools |-> 0]
  /\ notify' = FALSE
  /\ submit' = [t \in Tasks |-> "no"]
  /\ cancels' = {}
  /\ closed' = FALSE
  /\ shut' = "no"
  /\ toCancel' = {}
  /\ sched' = "idle"
  /\ pos' = 0
  /\ worker' = [t \in Tasks |-> "none"]
  /\ outcome' = [t \in Tasks |-> "none"]
  /\ ctrl' = {}
  /\ paused' = {}
  /\ ctxDone' = {}
  /\ lastEvent' = [t \in Tasks |-> "none"]
  /\ sync' = [t \in SyncTasks |-> "idle"]
  /\ UNCHANGED <<saved, scene>>

-----------------------------------------------------------------------------
(* The identifiers given to Reorder: each at most once. *)
Orders == {ids \in SeqOf(scene.tasks, Cardinality(scene.tasks)) :
             \A i, j \in DOMAIN ids : i # j => ids[i] # ids[j]}

FrontEnd ==
  \/ \E t \in Tasks :
       \/ SubmitOpen(t)
       \/ \E priority \in BOOLEAN : Submit(t, priority)
       \/ SubmitNotify(t)
       \/ Pause(t)
       \/ Resume(t)
       \/ CancelActive(t)
       \/ CancelQueued(t)
  \/ \E i \in DOMAIN tasks : Remove_(i)
  \/ \E ids \in Orders : Reorder(ids)
  \/ ClearFinished

Shutdown ==
  \/ ShutdownBegin
  \/ ShutdownCollect
  \/ \E t \in Tasks : ShutdownCancel(t)

Scheduler ==
  \/ SchedulerWake \/ SchedulerStop \/ SchedulerEnter
  \/ SchedulerStart \/ SchedulerSkip \/ SchedulerLeave

(* What the goroutine of runWorker does on its own, whatever Run does. *)
WorkerStep(t) ==
  \/ WorkerRegister(t)
  \/ CheckLoop(t)
  \/ ReportEmit(t)
  \/ WorkerFinish(t)
  \/ WorkerRelease(t)
  \/ WorkerNotify(t)

(* What Run chooses to do. *)
RunStep(t) ==
  \/ Check(t)
  \/ Report(t)
  \/ \E out \in {"ok", "err", "canceled"} : RunReturn(t, out)

RunSync(s) ==
  \/ RunSyncStart(s)
  \/ RunSyncReport(s)
  \/ RunSyncFinish(s)

Next ==
  \/ FrontEnd
  \/ Shutdown
  \/ Scheduler
  \/ \E t \in Tasks : WorkerStep(t) \/ RunStep(t)
  \/ \E s \in SyncTasks : RunSync(s)
  \/ Restart

Spec == Init /\ [][Next]_vars

(* Fairness. Goroutines that can run do run.  A step that needs m.mu, which the *)
(* scheduler takes again and again, is strongly fair: sync.Mutex hands itself   *)
(* over to a waiter that starves.  Run is assumed to come back, and to return   *)
(* when it is cancelled, unless it is parked in CheckPauseOrCancel.             *)
Fairness ==
  /\ WF_vars(Scheduler)
  /\ SF_vars(ShutdownCollect)
  /\ \A t \in Tasks :
       /\ WF_vars(SubmitNotify(t))
       /\ SF_vars(WorkerStep(t))
       /\ SF_vars(\E out \in {"ok", "err", "canceled"} : RunReturn(t, out))
       /\ WF_vars(ShutdownCancel(t))

FairSpec == Spec /\ Fairness

-----------------------------------------------------------------------------
(* Properties *)

SavedOK ==
  /\ saved.order \in Seq(Persist)
  /\ saved.status \in [{saved.order[i] : i \in DOMAIN saved.order} -> Status]

(* Every variable of Manager, Controller and FileStore keeps its type. *)
TypeOK ==
  /\ tasks \in Seq(Tasks)
  /\ status \in [Tasks -> Status]
  /\ hasRun \subseteq Tasks
  /\ sem \in [Pools -> Int]
  /\ notify \in BOOLEAN
  /\ submit \in [Tasks -> {"no", "open", "listed"}]
  /\ cancels \subseteq Tasks
  /\ closed \in BOOLEAN
  /\ shut \in {"no", "closing", "cancelling"}
  /\ toCancel \subseteq Tasks
  /\ sched \in {"idle", "woken", "pass", "exited"}
  /\ pos \in Nat
  /\ worker \in [Tasks -> Worker]
  /\ outcome \in [Tasks -> Outcome]
  /\ ctrl \subseteq Tasks
  /\ paused \subseteq Tasks
  /\ ctxDone \subseteq Tasks
  /\ SavedOK
  /\ lastEvent \in [Tasks -> Events]
  /\ sync \in [SyncTasks -> {"idle", "run", "heard", "unheard"}]
  /\ restarts \in 0..MaxRestarts
  /\ scene \in Scenes

(* A slot of a pool is taken exactly while a worker of that pool holds it, and   *)
(* no pool is overdrawn.  runWorker's deferred function gives every slot that    *)
(* schedulerLoop takes back to the pool it came from, once, on every path.       *)
SlotAccounting ==
  \A p \in Pools :
    /\ sem[p] = Cardinality({t \in Tasks : Pool(t) = p /\ worker[t] \in Holding})
    /\ sem[p] <= Capacity(p)

(* A task the scheduler may start has no goroutine left from an earlier start:   *)
(* Resume requeues a task only when its controller is gone, and the controller   *)
(* is there from the moment Pause can act on the task until its end is recorded. *)
NoDoubleStart ==
  \A t \in Tasks : status[t] = "queued" => worker[t] = "none"

(* What the list says has ended has ended: no worker is inside Run, and none is  *)
(* about to register, for a task with a terminal status.                         *)
FinishedMeansStopped ==
  \A t \in Tasks : status[t] \in Terminal => worker[t] \notin Cancellable

(* After the event that reports the end of a task no other event of that task    *)
(* is emitted, and the event agrees with the status, although progress events    *)
(* are emitted outside the lock.                                                 *)
TerminalEventLast ==
  \A t \in Tasks :
    lastEvent[t] # "none" =>
      \A e \in Terminal : lastEvent[t] = e <=> status[t] = e

(* A queued task that could start is never forgotten: a wake-up of the scheduler *)
(* is pending, or the pass going on has still to look at it, or someone is on    *)
(* the way to notify (a Submit that has left the lock, a worker that has given   *)
(* its slot back).                                                               *)
NoLostWakeup ==
  \A t \in Listed :
    status[t] = "queued" /\ sem[Pool(t)] < Capacity(Pool(t)) /\ ~closed =>
      \/ notify
      \/ sched = "woken"
      \/ sched = "pass" /\ \E i \in DOMAIN tasks : tasks[i] = t /\ i >= pos
      \/ \E u \in Tasks : submit[u] = "listed" \/ worker[u] = "released"

(* A kill at any moment loses no persistent task, brings back none that was      *)
(* removed and keeps their order and their ends: what Load would recover from    *)
(* the file is what it would recover from the list.                              *)
StoreCurrent ==
  /\ IsSelection(saved.order, tasks, Persist)
  /\ \A i \in DOMAIN saved.order :
       Recovered(saved.status[saved.order[i]]) = Recovered(status[saved.order[i]])

(* Once Shutdown has collected the cancel functions, every worker that has not   *)
(* ended has been cancelled or is about to be; the scheduler starts no other.    *)
ShutdownReachesAll ==
  shut = "cancelling" =>
    \A t \in Tasks : worker[t] \in Cancellable => t \in toCancel \cup ctxDone

(* What TaskLifecycle calls each state of a task: it is at work while its worker  *)
(* may still call Run, removed or not.                                            *)
LifeOf(t) ==
  CASE status[t] \in Terminal \cup {"new"} -> status[t]
    [] worker[t] \in Cancellable -> "active"
    [] worker[t] \notin Cancellable /\ t \in Listed /\ status[t] \in Active -> "waiting"
    [] OTHER -> "gone"

Life == INSTANCE TaskLifecycle WITH life <- [t \in Tasks |-> LifeOf(t)]

(* The supervisor implements TaskLifecycle: a task ends once and stays as it      *)
(* ended, it works only in a slot of its pool, no step skips a state, and a kill  *)
(* and restart lose no persistent task, revive none that ended and leave none at  *)
(* work.                                                                          *)
Lifecycle == Life!LifeSpec

(* Every queued operation of the second pool, whose tasks cannot be paused, is   *)
(* started, cancelled or removed unless the manager is shut down.                *)
QueueDrains ==
  \A t \in Tasks \ Pausable :
    (t \in Listed /\ status[t] = "queued") ~>
       (t \notin Listed \/ status[t] # "queued" \/ closed)

(* A worker whose context is cancelled ends and gives its slot back, when its    *)
(* task cannot be paused.                                                        *)
CancelledEnds ==
  \A t \in Tasks \ Pausable : t \in ctxDone ~> worker[t] = "none"

-----------------------------------------------------------------------------
(* The invariant from which the safety properties follow *)

(* m.controllers and m.cancels have an entry exactly while the worker is in the  *)
(* part of runWorker that lies between its entry into the map and its removal,   *)
(* and the status agrees with where the worker is.                               *)
WorkerInv ==
  \A t \in Tasks :
    /\ t \in ctrl <=> worker[t] \in Registered
    /\ t \in cancels <=> worker[t] \in Cancellable
    /\ worker[t] \in Cancellable => status[t] \in {"running", "paused"}
    /\ worker[t] = "spawned" => status[t] = "running"
    /\ worker[t] \in {"finished", "released"} => status[t] \in Terminal

(* A task is new until Submit puts it into the list. *)
NewInv ==
  /\ \A t \in Listed : status[t] # "new"
  /\ \A t \in Tasks : submit[t] = "open" => status[t] = "new"
  /\ \A i \in DOMAIN saved.order : saved.status[saved.order[i]] # "new"

IInv == TypeOK /\ WorkerInv /\ NewInv /\ SlotAccounting

-----------------------------------------------------------------------------
(* Expectations of the repository that the code does not meet *)

(* "Remove deletes a finished task from the history list": no task with a worker *)
(* that has not ended leaves the list, so every live worker can be resumed or    *)
(* cancelled by its identifier.                                                  *)
NoOrphanWorker ==
  \A t \in Tasks : worker[t] \in Cancellable => t \in Listed

(* "Cancel active worker context and unpause controller to allow exit": a        *)
(* pausable task that is cancelled, and is not removed from the list, ends.      *)
CancelAllowsExit ==
  \A t \in Pausable : t \in ctxDone ~> worker[t] = "none" \/ t \notin Listed

(* "Shutdown gracefully cancels active tasks and closes worker pools": after     *)
(* Shutdown has called every cancel function the workers of listed tasks end.    *)
ShutdownEndsWorkers ==
  \A t \in Tasks :
    shut = "cancelling" ~> worker[t] \notin Cancellable \/ t \notin Listed

(* RunSync runs a task "driving progress through a Controller and emitting       *)
(* standard progress telemetry": a report of progress is emitted.                *)
SyncProgressEmitted ==
  \A s \in SyncTasks : sync[s] # "unheard"

=============================================================================
