------------------------------ MODULE Multiseat ------------------------------
(***************************************************************************)
(* multiseat.Supervisor: LaunchSession prepares and starts the seats of a    *)
(* session, a goroutine per session handles their exits, StopSession,        *)
(* StopSeat and StopAll end them.  Each seat has input devices that are       *)
(* grabbed exclusively, and an audio sink that is named after the seat only;  *)
(* while sessions run, ScaleGuard holds the display at scale 1.               *)
(*                                                                           *)
(* The calls of LaunchSession are numbered; a number also stands for the      *)
(* session that the call creates.                                            *)
(***************************************************************************)
EXTENDS Naturals, FiniteSets

CONSTANTS
  Games,
  Seats,        \* seat identifiers; every session has all of them
  Devices,      \* the device nodes of each seat, {} for a seat without a grabber
  Overlap,      \* a game may be launched while another launch of it is under way
  ScreenFails,  \* kscreen-doctor may fail when it restores
  MaxSessions,  \* bound on the calls of LaunchSession
  MaxRestarts   \* bound on the number of times gamux is killed or quit

Sessions == 1..MaxSessions
AllDevices == UNION {Devices[s] : s \in Seats}

ASSUME MultiseatSets ==
  /\ Overlap \in BOOLEAN /\ ScreenFails \in BOOLEAN
  /\ MaxSessions \in Nat /\ MaxRestarts \in Nat

VARIABLES
  sessions,  \* Supervisor.sessions: the session of each game, 0 if none
  game,      \* the game of each call
  pc,        \* where each call of LaunchSession is
  prepared,  \* its prepSeats
  proc,      \* the game process of each seat of each session
  holder,    \* the session that has the exclusive grab of a device, 0 if none
  sink,      \* the session whose module has the seat's sink name, 0 if none
  stop,      \* where the call of StopSession that took the session is
  todo,      \* the seats it has yet to stop
  sup,       \* where the session's superviseSession is
  handled,   \* the seats whose exit it has handled
  scale,     \* of the display: "own" is the user's, which is not 1
  original,  \* ScaleGuard.originalScales has the display
  saved,     \* scaleguard.json has it
  guard,     \* the call that holds ScaleGuard.mu between its two steps, 0 if none
  quitting,  \* StopAll has been called
  restarts

launchVars == <<game, pc, prepared>>
stopVars == <<stop, todo>>
supVars == <<sup, handled>>
scaleVars == <<scale, original, saved, guard>>
vars == <<sessions, launchVars, proc, holder, sink, stopVars, supVars, scaleVars, quitting, restarts>>

Registered == {n \in Sessions : \E g \in Games : sessions[g] = n}
Launching == {n \in Sessions : pc[n] \notin {"new", "failed", "launched"}}
Stopping == {n \in Sessions : stop[n] \notin {"no", "done"}}

Init ==
  /\ sessions = [g \in Games |-> 0]
  /\ game \in [Sessions -> Games]
  /\ pc = [n \in Sessions |-> "new"]
  /\ prepared = [n \in Sessions |-> {}]
  /\ proc = [n \in Sessions |-> [s \in Seats |-> "none"]]
  /\ holder = [d \in AllDevices |-> 0]
  /\ sink = [s \in Seats |-> 0]
  /\ stop = [n \in Sessions |-> "no"] /\ todo = [n \in Sessions |-> {}]
  /\ sup = [n \in Sessions |-> "no"] /\ handled = [n \in Sessions |-> {}]
  /\ scale = "own" /\ original = FALSE /\ saved = FALSE /\ guard = 0
  /\ quitting = FALSE /\ restarts = 0

-----------------------------------------------------------------------------
(* The devices and the sink of a seat *)

(* InputGrabber.Release gives back what this session's grabber holds. *)
Released(h, n, s) == [d \in AllDevices |-> IF d \in Devices[s] /\ h[d] = n THEN 0 ELSE h[d]]

(* VirtualSink.Destroy unloads by module and then by name, whoever's it is. *)
Destroyed(k, s) == [k EXCEPT ![s] = 0]

(* Grab: the nodes that are held elsewhere fail, others may; it is an error only *)
(* when there are nodes and none could be grabbed.                               *)
Grabbable(s) == {d \in Devices[s] : holder[d] = 0}

-----------------------------------------------------------------------------
(* ScaleGuard *)

(* Mutant of LockRecord: the file is written after the command only. *)
LockRecordUnsaved(n) ==
  /\ pc[n] = "checked" /\ guard = 0
  /\ IF scale = "own"
     THEN /\ original' = TRUE /\ guard' = n
          /\ pc' = [pc EXCEPT ![n] = "locking"]
     ELSE /\ pc' = [pc EXCEPT ![n] = "preparing"]
          /\ UNCHANGED <<original, guard>>
  /\ UNCHANGED <<sessions, game, prepared, proc, holder, sink, stopVars, supVars, scale, saved, quitting, restarts>>

(* LockDisplays up to the command: a scale that is not 1 is recorded and saved. *)
LockRecord(n) ==
  /\ pc[n] = "checked" /\ guard = 0
  /\ IF scale = "own"
     THEN /\ original' = TRUE /\ saved' = TRUE /\ guard' = n
          /\ pc' = [pc EXCEPT ![n] = "locking"]
     ELSE /\ pc' = [pc EXCEPT ![n] = "preparing"]
          /\ UNCHANGED <<original, saved, guard>>
  /\ UNCHANGED <<sessions, game, prepared, proc, holder, sink, stopVars, supVars, scale, quitting, restarts>>

(* kscreen-doctor sets the scale to 1, or fails, which is logged. *)
LockApply(n) ==
  /\ pc[n] = "locking"
  /\ scale' \in {"one", scale}
  /\ guard' = 0
  /\ pc' = [pc EXCEPT ![n] = "preparing"]
  /\ UNCHANGED <<sessions, game, prepared, proc, holder, sink, stopVars, supVars, original, saved, quitting, restarts>>

(* Mutant of Restore: the file is removed and the record forgotten first. *)
RestoreForgotten ==
  /\ guard = 0
  /\ original' = FALSE /\ saved' = FALSE
  /\ UNCHANGED <<scale, guard>>

(* Restore: with nothing recorded only the file is removed; when kscreen-doctor  *)
(* fails everything stays.                                                       *)
Restore ==
  /\ guard = 0
  /\ \E failed \in (IF ScreenFails /\ original THEN BOOLEAN ELSE {FALSE}) :
       IF failed THEN UNCHANGED <<scale, original, saved>>
       ELSE /\ scale' = (IF original THEN "own" ELSE scale)
            /\ original' = FALSE /\ saved' = FALSE
  /\ UNCHANGED guard

-----------------------------------------------------------------------------
(* LaunchSession *)

(* The table is read; the session is entered only at the end. *)
Check(n) ==
  /\ pc[n] = "new" /\ ~quitting /\ \A m \in Sessions : m < n => pc[m] # "new"
  /\ sessions[game[n]] = 0
  /\ Overlap \/ \A m \in Launching : game[m] # game[n]
  /\ pc' = [pc EXCEPT ![n] = "checked"]
  /\ UNCHANGED <<sessions, game, prepared, proc, holder, sink, stopVars, supVars, scaleVars, quitting, restarts>>

(* Mutant of Prepare: a seat whose devices cannot be grabbed is launched anyway. *)
PrepareUngrabbed(n, s) ==
  /\ pc[n] = "preparing" /\ s \in Seats \ prepared[n]
  /\ sink' = [sink EXCEPT ![s] = n]
  /\ \E grabs \in SUBSET Grabbable(s) :
       /\ holder' = [d \in AllDevices |-> IF d \in grabs THEN n ELSE holder[d]]
       /\ prepared' = [prepared EXCEPT ![n] = @ \cup {s}]
  /\ UNCHANGED <<sessions, game, pc, proc, stopVars, supVars, scaleVars, quitting, restarts>>

(* prepareSeat: the sink (a stale one of that name is unloaded), the grab, the   *)
(* command; on an error the seat gives back what it took and the launch fails.   *)
Prepare(n, s) ==
  /\ pc[n] = "preparing" /\ s \in Seats \ prepared[n]
  /\ \/ \E grabs \in SUBSET Grabbable(s) :
          /\ grabs # {} \/ Devices[s] = {}
          /\ holder' = [d \in AllDevices |-> IF d \in grabs THEN n ELSE holder[d]]
          /\ sink' = [sink EXCEPT ![s] = n]
          /\ prepared' = [prepared EXCEPT ![n] = @ \cup {s}]
          /\ UNCHANGED pc
     \/ /\ pc' = [pc EXCEPT ![n] = "cleaning"]
        /\ sink' = Destroyed(sink, s)
        /\ UNCHANGED <<holder, prepared>>
  /\ UNCHANGED <<sessions, game, proc, stopVars, supVars, scaleVars, quitting, restarts>>

(* startSeat, when every seat is prepared; a process that does not start ends    *)
(* the launch.                                                                   *)
Start(n, s) ==
  /\ pc[n] = "preparing" /\ prepared[n] = Seats /\ proc[n][s] = "none"
  /\ \/ /\ proc' = [proc EXCEPT ![n][s] = "running"]
        /\ UNCHANGED pc
     \/ /\ pc' = [pc EXCEPT ![n] = "cleaning"]
        /\ UNCHANGED proc
  /\ UNCHANGED <<sessions, game, prepared, holder, sink, stopVars, supVars, scaleVars, quitting, restarts>>

(* Mutant of CleanSeat: only processes are killed. *)
CleanSeatGrabbed(n, s) ==
  /\ pc[n] = "cleaning" /\ s \in prepared[n]
  /\ prepared' = [prepared EXCEPT ![n] = @ \ {s}]
  /\ sink' = Destroyed(sink, s)
  /\ proc' = [proc EXCEPT ![n][s] = IF @ = "none" THEN "none" ELSE "exited"]
  /\ UNCHANGED <<sessions, game, pc, holder, stopVars, supVars, scaleVars, quitting, restarts>>

(* Mutant of CleanSeat: the processes that were started are forgotten. *)
CleanSeatAlive(n, s) ==
  /\ pc[n] = "cleaning" /\ s \in prepared[n]
  /\ prepared' = [prepared EXCEPT ![n] = @ \ {s}]
  /\ holder' = Released(holder, n, s)
  /\ sink' = Destroyed(sink, s)
  /\ UNCHANGED <<sessions, game, pc, proc, stopVars, supVars, scaleVars, quitting, restarts>>

(* cleanupPrepared, one of the prepared seats *)
CleanSeat(n, s) ==
  /\ pc[n] = "cleaning" /\ s \in prepared[n]
  /\ prepared' = [prepared EXCEPT ![n] = @ \ {s}]
  /\ holder' = Released(holder, n, s)
  /\ sink' = Destroyed(sink, s)
  /\ proc' = [proc EXCEPT ![n][s] = IF @ = "none" THEN "none" ELSE "exited"]
  /\ UNCHANGED <<sessions, game, pc, stopVars, supVars, scaleVars, quitting, restarts>>

(* and whether other sessions are left, *)
CleanCheck(n) ==
  /\ pc[n] = "cleaning" /\ prepared[n] = {}
  /\ pc' = [pc EXCEPT ![n] = IF Registered = {} THEN "restoring" ELSE "failed"]
  /\ UNCHANGED <<sessions, game, prepared, proc, holder, sink, stopVars, supVars, scaleVars, quitting, restarts>>

(* before the scale is restored. *)
CleanRestore(n) ==
  /\ pc[n] = "restoring" /\ Restore
  /\ pc' = [pc EXCEPT ![n] = "failed"]
  /\ UNCHANGED <<sessions, game, prepared, proc, holder, sink, stopVars, supVars, quitting, restarts>>

(* The session is entered, over whatever is there, and superviseSession started. *)
Register(n) ==
  /\ pc[n] = "preparing" /\ \A s \in Seats : proc[n][s] # "none"
  /\ sessions' = [sessions EXCEPT ![game[n]] = n]
  /\ pc' = [pc EXCEPT ![n] = "launched"]
  /\ sup' = [sup EXCEPT ![n] = "waiting"]
  /\ UNCHANGED <<game, prepared, proc, holder, sink, stopVars, handled, scaleVars, quitting, restarts>>

(* The game ends by itself or because of the signal. *)
Exit(n, s) ==
  /\ proc[n][s] \in {"running", "signalled"}
  /\ proc' = [proc EXCEPT ![n][s] = "exited"]
  /\ UNCHANGED <<sessions, launchVars, holder, sink, stopVars, supVars, scaleVars, quitting, restarts>>

-----------------------------------------------------------------------------
(* StopSession *)

Signalled(n, s) == [proc EXCEPT ![n][s] = IF @ = "running" THEN "signalled" ELSE @]

(* The session is taken out of the table, *)
TakenOut(g) ==
  /\ sessions' = [sessions EXCEPT ![g] = 0]
  /\ stop' = [stop EXCEPT ![sessions[g]] = "stopping"]
  /\ todo' = [todo EXCEPT ![sessions[g]] = Seats]

Stop(g) ==
  /\ sessions[g] # 0
  /\ TakenOut(g)
  /\ UNCHANGED <<launchVars, proc, holder, sink, supVars, scaleVars, quitting, restarts>>

(* its seats are released and signalled, *)
EndSeat(n, s) ==
  /\ holder' = Released(holder, n, s)
  /\ proc' = Signalled(n, s)
  /\ sink' = Destroyed(sink, s)

StopSessionSeat(n, s) ==
  /\ stop[n] = "stopping" /\ s \in todo[n]
  /\ todo' = [todo EXCEPT ![n] = @ \ {s}]
  /\ EndSeat(n, s)
  /\ UNCHANGED <<sessions, launchVars, stop, supVars, scaleVars, quitting, restarts>>

(* the table is read again, *)
StopCheck(n) ==
  /\ stop[n] = "stopping" /\ todo[n] = {}
  /\ stop' = [stop EXCEPT ![n] = IF Registered = {} THEN "restoring" ELSE "done"]
  /\ UNCHANGED <<sessions, launchVars, proc, holder, sink, todo, supVars, scaleVars, quitting, restarts>>

(* and the scale restored. *)
StopRestore(n) ==
  /\ stop[n] = "restoring" /\ Restore
  /\ stop' = [stop EXCEPT ![n] = "done"]
  /\ UNCHANGED <<sessions, launchVars, proc, holder, sink, todo, supVars, quitting, restarts>>

(* StopSeat *)
StopSeat(g, s) ==
  /\ sessions[g] # 0
  /\ EndSeat(sessions[g], s)
  /\ UNCHANGED <<sessions, launchVars, stopVars, supVars, scaleVars, quitting, restarts>>

-----------------------------------------------------------------------------
(* superviseSession *)

(* One exit is received: the seat's devices and sink are given back. *)
HandleExit(n, s) ==
  /\ sup[n] = "waiting" /\ proc[n][s] = "exited" /\ s \notin handled[n]
  /\ handled' = [handled EXCEPT ![n] = @ \cup {s}]
  /\ holder' = Released(holder, n, s)
  /\ sink' = Destroyed(sink, s)
  /\ UNCHANGED <<sessions, launchVars, proc, stopVars, sup, scaleVars, quitting, restarts>>

(* After the last one, whatever session the game has now is stopped. *)
Finish(n) ==
  /\ sup[n] = "waiting" /\ handled[n] = Seats
  /\ sup' = [sup EXCEPT ![n] = "done"]
  /\ IF sessions[game[n]] # 0 THEN TakenOut(game[n]) ELSE UNCHANGED <<sessions, stop, todo>>
  /\ UNCHANGED <<launchVars, proc, holder, sink, handled, scaleVars, quitting, restarts>>

-----------------------------------------------------------------------------
(* The program *)

(* A new process: its memory is empty, the kernel has dropped its grabs, what it *)
(* was launching or supervising is nobody's.                                     *)
NewProcess ==
  /\ sessions' = [g \in Games |-> 0]
  /\ pc' = [n \in Sessions |-> IF pc[n] = "new" THEN "new" ELSE "failed"]
  /\ prepared' = [n \in Sessions |-> {}]
  /\ proc' = [n \in Sessions |-> [s \in Seats |-> "none"]]
  /\ holder' = [d \in AllDevices |-> 0]
  /\ stop' = [n \in Sessions |-> "no"] /\ todo' = [n \in Sessions |-> {}]
  /\ sup' = [n \in Sessions |-> "no"] /\ handled' = [n \in Sessions |-> {}]
  /\ original' = FALSE /\ guard' = 0
  /\ quitting' = FALSE
  /\ restarts' = restarts + 1
  /\ UNCHANGED game

(* gamux is killed and started again.  NewSupervisor: CleanupGamuxSinks, and      *)
(* RecoverOrphanedLocks, which removes the file even if kscreen-doctor fails.     *)
Crash ==
  /\ restarts < MaxRestarts
  /\ NewProcess
  /\ sink' = [s \in Seats |-> 0]
  /\ \E failed \in (IF ScreenFails THEN BOOLEAN ELSE {FALSE}) :
       scale' = IF saved /\ ~failed THEN "own" ELSE scale
  /\ saved' = FALSE

(* StopAll, called when the window is closed: its sessions are stopped one after *)
(* the other (Stop),                                                             *)
StopAll ==
  /\ ~quitting /\ restarts < MaxRestarts
  /\ quitting' = TRUE
  /\ UNCHANGED <<sessions, launchVars, proc, holder, sink, stopVars, supVars, scaleVars, restarts>>

(* the scale is restored, all sinks are unloaded and the process ends; what could *)
(* not be restored the next process recovers from the file.                       *)
Quit ==
  /\ quitting /\ Registered = {} /\ Stopping = {} /\ guard = 0
  /\ NewProcess
  /\ sink' = [s \in Seats |-> 0]
  /\ scale' = IF original \/ saved THEN "own" ELSE scale
  /\ saved' = FALSE

-----------------------------------------------------------------------------
Next ==
  \/ Crash \/ StopAll \/ Quit
  \/ \E g \in Games : Stop(g) \/ \E s \in Seats : StopSeat(g, s)
  \/ \E n \in Sessions :
       \/ Check(n) \/ LockRecord(n) \/ LockApply(n) \/ CleanCheck(n) \/ CleanRestore(n) \/ Register(n)
       \/ StopCheck(n) \/ StopRestore(n) \/ Finish(n)
       \/ \E s \in Seats : \/ Prepare(n, s) \/ Start(n, s) \/ CleanSeat(n, s) \/ Exit(n, s)
                           \/ StopSessionSeat(n, s) \/ HandleExit(n, s)

Spec == Init /\ [][Next]_vars

-----------------------------------------------------------------------------
(* The calls that are over and have nothing left to do. *)
Over(n) == pc[n] = "failed" \/ stop[n] = "done" \/ sup[n] = "done"

(* A session that failed to start, was stopped or whose seats have all exited holds *)
(* no keyboard or mouse any more: the desktop gets its devices back however the     *)
(* launch, the exits and the stops interleave (cleanupPrepared, superviseSession,   *)
(* StopSession).                                                                    *)
GrabsReturned == \A n \in Sessions : Over(n) => \A d \in AllDevices : holder[d] # n

(* When nothing is launched, stopped or registered the display has the user's scale  *)
(* and no recovery file is left behind (StopSession, cleanupPrepared, ScaleGuard).    *)
QuietMeansRestored ==
  (Launching = {} /\ Stopping = {} /\ Registered = {}) => scale = "own" /\ ~saved

(* Whenever the display is at scale 1 the file that a new process would restore it   *)
(* from exists: gamux may be killed at any step (LockDisplays, Restore).             *)
ScaleRecoverable == scale = "one" => saved

(* The user gets the display's scale back, after a kill too (ScaleGuard).            *)
ScaleReturned == QuietMeansRestored /\ ScaleRecoverable

(* docs/notes/performance-and-isolation-invariants.md: a seat with devices of its    *)
(* own that runs in a session has grabbed all of them, unless it is being ended.     *)
InputIsolated ==
  \A n \in Registered : \A s \in Seats \ handled[n] :
    proc[n][s] = "running" => \A d \in Devices[s] : holder[d] = n

(* Devices are held by the sessions that run, and by no other (Grab, Release).        *)
GrabsExact == GrabsReturned /\ InputIsolated

(* No seat runs on unattended: a running process belongs to a launch under way, to a *)
(* session in the table, or to one that is being stopped.                            *)
NoOrphanSeat ==
  \A n \in Sessions, s \in Seats :
    proc[n][s] = "running" => n \in Launching \cup Registered \cup Stopping

(* Expectations the code does not meet. *)

(* A session is ended by the user or by its own supervision only. *)
OwnSessionOnly == [][\A n \in Sessions : Finish(n) => sessions[game[n]] \in {0, n}]_vars

(* A seat that runs in a session has its audio sink. *)
SinkKept ==
  \A n \in Registered : \A s \in Seats : proc[n][s] = "running" => sink[s] = n

(* While a session is in the table the display stays at scale 1. *)
ScaleHeld == [][Registered # {} /\ Registered' # {} /\ scale = "one" => scale' = "one"]_vars
=============================================================================
