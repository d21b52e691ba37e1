----------------------------- MODULE GameRunner -----------------------------
(***************************************************************************)
(* runner.Manager: games started by the front ends, the goroutine that      *)
(* supervises each of them, and the three things they share.  These are     *)
(* the table of running instances, the playtime in the game's profile       *)
(* (compat.IncrementPlaytime, a read and a later write), and the files in   *)
(* ~/.steam that PrepareLinuxSteamEnvironment puts Goldberg's client in      *)
(* place of and its cleanup function restores.                              *)
(***************************************************************************)
EXTENDS Naturals, FiniteSets, FiniteSetsExt

CONSTANTS
  Launches,   \* calls of Manager.Start; one may be made again when nothing is left of it
  Dir,        \* the canonical game directory of each
  Profile,    \* the profile of each; "main" stands for "", "main" and "p1"
  Loader,     \* launches of a native Linux game in loader mode
  Gamescope,  \* launches inside gamescope
  Apart,      \* what the front ends keep apart: launches of one instance, loader
              \* launches in one home
  MayFail,    \* a start or the write of a profile may fail
  MaxPlay,    \* bound on the ticks of the clock during one launch
  MaxCrashes  \* bound on the number of times gamux is killed

None == "none"

ASSUME RunnerSets ==
  /\ IsFiniteSet(Launches)
  /\ Loader \subseteq Launches /\ Gamescope \subseteq Launches
  /\ Apart \subseteq {"instance", "home"}
  /\ MayFail \in BOOLEAN
  /\ MaxPlay \in Nat /\ MaxCrashes \in Nat
  /\ None \notin Launches

VARIABLES
  pc,        \* where Start and then superviseProcess of each launch is
  proc,      \* its process group: the started process is alive ("game"), only its
             \* children are ("group"), only helper daemons are ("helpers")
  table,     \* m.processes: the launch tracked for each instance
  cancelled, \* launches whose supCtx is cancelled
  stop,      \* where stopProcess of each launch is
  steam,     \* ~/.steam of each home
  had,       \* sdk64HadOrig, sdk32HadOrig and pidHadOrig of each launch
  playtime,  \* PlaytimeSeconds in the profile of each game
  flush,     \* what the flush going on has read, and the seconds it adds
  unflushed, \* the time since lastFlushedTime
  shown,     \* instances the published events say are running
  played,    \* history: the time each launch was supervised, less what an earlier one
             \* of the same name left unflushed for ever
  crashes    \* history

steamVars == <<steam, had>>
timeVars == <<playtime, flush, unflushed, played>>
vars == <<pc, proc, table, cancelled, stop, steamVars, timeVars, shown, crashes>>

Dirs == {Dir[l] : l \in Launches}

(* MakeInstanceID and ResolveProfileHome. *)
Instance(l) == <<Dir[l], Profile[l]>>
Home(l) == Profile[l]
Homes == {Home(l) : l \in Loader}
Instances == {Instance(l) : l \in Launches}

Alive == {"game", "group", "helpers"}
Supervised == {"waiting", "watching", "terminating", "last"}
Tracked == {"registered"} \cup Supervised \cup {"cleanup", "removing"}
Over == {"new", "failed", "done", "lost"}

NoFlush == [seen |-> 0, delta |-> 0, on |-> FALSE]

Init ==
  /\ pc = [l \in Launches |-> "new"]
  /\ proc = [l \in Launches |-> None]
  /\ table = [i \in Instances |-> None]
  /\ cancelled = {}
  /\ stop = [l \in Launches |-> "no"]
  /\ \E own \in [Homes -> {None, "steam"}] :
       steam = [h \in Homes |-> [own |-> own[h], client |-> own[h], backup |-> None, settings |-> None]]
  /\ had = [l \in Launches |-> FALSE]
  /\ playtime = [d \in Dirs |-> 0]
  /\ flush = [l \in Launches |-> NoFlush]
  /\ unflushed = [l \in Launches |-> 0]
  /\ shown = {}
  /\ played = [l \in Launches |-> 0]
  /\ crashes = 0

-----------------------------------------------------------------------------
(* The files of ~/.steam.  The clients of sdk64 and sdk32 and steam.pid are   *)
(* treated alike and stand as one file; Goldberg's client is installed.       *)

(* Mutant of BacksUp: it does not look for an earlier backup. *)
BacksUpOver(s) == s.client # None

(* PrepareLinuxSteamEnvironment: a file that is there becomes the backup if   *)
(* there is none, and is removed otherwise.                                   *)
BacksUp(s) == s.client # None /\ s.backup = None

Prepared(s, d) ==
  [s EXCEPT !.client = "gbe",
            !.backup = IF BacksUp(s) THEN s.client ELSE @,
            !.settings = d]

(* Mutant of CleanedUp: the backup stays where it is. *)
CleanedUpRemoved(s, hadOrig) == [s EXCEPT !.client = None, !.settings = None]

(* The cleanup function it returns. *)
CleanedUp(s, hadOrig) ==
  [s EXCEPT !.client = IF hadOrig THEN s.backup ELSE None,
            !.backup = IF hadOrig THEN None ELSE @,
            !.settings = None]

(* Two launches that the front ends never let overlap. *)
KeptApart(l, k) ==
  \/ "instance" \in Apart /\ Instance(l) = Instance(k)
  \/ "home" \in Apart /\ {l, k} \subseteq Loader /\ Home(l) = Home(k)

-----------------------------------------------------------------------------
(* Manager.Start *)

Prepare(l) ==
  /\ pc[l] \in Over /\ proc[l] \notin Alive /\ stop[l] = "no"
  /\ \A k \in Launches \ {l} : KeptApart(l, k) => pc[k] \in Over
  /\ pc' = [pc EXCEPT ![l] = "prepared"]
  /\ steam' = IF l \in Loader THEN [steam EXCEPT ![Home(l)] = Prepared(@, Dir[l])] ELSE steam
  /\ had' = [had EXCEPT ![l] = l \in Loader /\ BacksUp(steam[Home(l)])]
  /\ cancelled' = cancelled \ {l}
  /\ unflushed' = [unflushed EXCEPT ![l] = 0]
  /\ played' = [played EXCEPT ![l] = @ - unflushed[l]]
  /\ UNCHANGED <<proc, table, stop, playtime, flush, shown, crashes>>

Cleaned(l) ==
  steam' = IF l \in Loader THEN [steam EXCEPT ![Home(l)] = CleanedUp(@, had[l])] ELSE steam

(* Launch fails: the environment is restored. *)
LaunchFails(l) ==
  /\ MayFail /\ pc[l] = "prepared"
  /\ pc' = [pc EXCEPT ![l] = "failed"]
  /\ Cleaned(l)
  /\ UNCHANGED <<proc, table, cancelled, stop, had, timeVars, shown, crashes>>

(* Launch starts the process, in a process group of its own. *)
Launch(l) ==
  /\ pc[l] = "prepared"
  /\ pc' = [pc EXCEPT ![l] = "spawned"]
  /\ proc' = [proc EXCEPT ![l] = "game"]
  /\ UNCHANGED <<table, cancelled, stop, steamVars, timeVars, shown, crashes>>

(* The process is tracked, whatever the table had for the instance. *)
Register(l) ==
  /\ pc[l] = "spawned"
  /\ pc' = [pc EXCEPT ![l] = "registered"]
  /\ table' = [table EXCEPT ![Instance(l)] = l]
  /\ UNCHANGED <<proc, cancelled, stop, steamVars, timeVars, shown, crashes>>

(* After the unlock the start is published and the supervisor's goroutine started. *)
PublishLaunched(l) ==
  /\ pc[l] = "registered"
  /\ pc' = [pc EXCEPT ![l] = "waiting"]
  /\ shown' = shown \cup {Instance(l)}
  /\ UNCHANGED <<proc, table, cancelled, stop, steamVars, timeVars, crashes>>

-----------------------------------------------------------------------------
(* The process group, which gamux does not control. *)

(* The started process ends; children may go on. *)
ProcessExits(l) ==
  /\ proc[l] = "game"
  /\ \E left \in {"group", "helpers", "gone"} : proc' = [proc EXCEPT ![l] = left]
  /\ UNCHANGED <<pc, table, cancelled, stop, steamVars, timeVars, shown, crashes>>

ChildrenExit(l) ==
  /\ proc[l] = "group"
  /\ \E left \in {"helpers", "gone"} : proc' = [proc EXCEPT ![l] = left]
  /\ UNCHANGED <<pc, table, cancelled, stop, steamVars, timeVars, shown, crashes>>

(* Time passes between the start of the supervision and the last flush. *)
Tick(l) ==
  /\ pc[l] \in Supervised \ {"last"} /\ played[l] < MaxPlay
  /\ unflushed' = [unflushed EXCEPT ![l] = @ + 1]
  /\ played' = [played EXCEPT ![l] = @ + 1]
  /\ UNCHANGED <<pc, proc, table, cancelled, stop, steamVars, playtime, flush, shown, crashes>>

-----------------------------------------------------------------------------
(* superviseProcess *)

(* flushDelta, at a tick of the 30 second ticker or at the end: IncrementPlaytime *)
(* loads the profile.                                                             *)
FlushRead(l) ==
  /\ pc[l] \in {"waiting", "watching", "last"} /\ ~flush[l].on
  /\ flush' = [flush EXCEPT ![l] = [seen |-> playtime[Dir[l]], delta |-> unflushed[l], on |-> TRUE]]
  /\ UNCHANGED <<pc, proc, table, cancelled, stop, steamVars, playtime, unflushed, played, shown, crashes>>

(* Mutant of FlushWrite: lastFlushedTime stays, and the seconds are added again. *)
FlushWriteAgain(l) ==
  /\ flush[l].on
  /\ playtime' = [playtime EXCEPT ![Dir[l]] = @ + flush[l].delta]
  /\ flush' = [flush EXCEPT ![l] = NoFlush]
  /\ pc' = [pc EXCEPT ![l] = IF @ = "last" THEN "cleanup" ELSE @]
  /\ UNCHANGED <<proc, table, cancelled, stop, steamVars, unflushed, played, shown, crashes>>

(* SaveProfile keeps the playtime of the file if the profile to save has none. *)
Merged(l) ==
  LET sum == flush[l].seen + flush[l].delta
  IN IF sum > 0 THEN sum ELSE playtime[Dir[l]]

(* IncrementPlaytime saves the profile; lastFlushedTime moves only if it could. *)
FlushWrite(l) ==
  /\ flush[l].on
  /\ \/ /\ playtime' = [playtime EXCEPT ![Dir[l]] = Merged(l)]
        /\ unflushed' = [unflushed EXCEPT ![l] = @ - flush[l].delta]
     \/ /\ MayFail
        /\ UNCHANGED <<playtime, unflushed>>
  /\ flush' = [flush EXCEPT ![l] = NoFlush]
  /\ pc' = [pc EXCEPT ![l] = IF @ = "last" THEN "cleanup" ELSE @]
  /\ UNCHANGED <<proc, table, cancelled, stop, steamVars, played, shown, crashes>>

(* The first loop sees the context cancelled: the group is told to end and not *)
(* waited for.                                                                 *)
WaitCancelled(l) ==
  /\ pc[l] = "waiting" /\ ~flush[l].on /\ l \in cancelled
  /\ pc' = [pc EXCEPT ![l] = "last"]
  /\ UNCHANGED <<proc, table, cancelled, stop, steamVars, timeVars, shown, crashes>>

(* The first loop sees the process end.  A context cancelled meanwhile skips the *)
(* rest; without gamescope the children are watched first.                       *)
WaitDone(l) ==
  /\ pc[l] = "waiting" /\ ~flush[l].on /\ proc[l] # "game"
  /\ pc' = [pc EXCEPT ![l] = IF l \in cancelled THEN "last"
                             ELSE IF l \in Gamescope THEN "terminating" ELSE "watching"]
  /\ UNCHANGED <<proc, table, cancelled, stop, steamVars, timeVars, shown, crashes>>

(* hasActiveGameProcess *)
HasActive(l) == proc[l] = "group"

WatchEnds(l) ==
  /\ pc[l] = "watching" /\ ~flush[l].on
  /\ ~HasActive(l) \/ l \in cancelled
  /\ pc' = [pc EXCEPT ![l] = "terminating"]
  /\ UNCHANGED <<proc, table, cancelled, stop, steamVars, timeVars, shown, crashes>>

(* terminateProcessGroup: by itself or by SIGKILL the group ends. *)
Terminate(l) ==
  /\ pc[l] = "terminating"
  /\ proc' = [proc EXCEPT ![l] = "gone"]
  /\ pc' = [pc EXCEPT ![l] = "last"]
  /\ UNCHANGED <<table, cancelled, stop, steamVars, timeVars, shown, crashes>>

(* OnExit: the cleanup function, *)
Cleanup(l) ==
  /\ pc[l] = "cleanup"
  /\ pc' = [pc EXCEPT ![l] = "removing"]
  /\ Cleaned(l)
  /\ UNCHANGED <<proc, table, cancelled, stop, had, timeVars, shown, crashes>>

(* Mutant of Remove: every entry of the game is deleted. *)
RemoveGame(l) ==
  /\ pc[l] = "removing"
  /\ pc' = [pc EXCEPT ![l] = "removed"]
  /\ table' = [i \in Instances |-> IF i[1] = Dir[l] THEN None ELSE table[i]]
  /\ UNCHANGED <<proc, cancelled, stop, steamVars, timeVars, shown, crashes>>

(* the entry of the instance, whichever launch it is of, *)
Remove(l) ==
  /\ pc[l] = "removing"
  /\ pc' = [pc EXCEPT ![l] = "removed"]
  /\ table' = [table EXCEPT ![Instance(l)] = None]
  /\ UNCHANGED <<proc, cancelled, stop, steamVars, timeVars, shown, crashes>>

(* and the event. *)
PublishExited(l) ==
  /\ pc[l] = "removed"
  /\ pc' = [pc EXCEPT ![l] = "done"]
  /\ shown' = shown \ {Instance(l)}
  /\ UNCHANGED <<proc, table, cancelled, stop, steamVars, timeVars, crashes>>

-----------------------------------------------------------------------------
(* Stop and StopInstance copy their targets under the lock. *)

Stop(d) ==
  LET targets == {l \in Launches : Dir[l] = d /\ table[Instance(l)] = l}
  IN
  /\ \E l \in targets : stop[l] = "no"
  /\ stop' = [l \in Launches |-> IF l \in targets /\ stop[l] = "no" THEN "asked" ELSE stop[l]]
  /\ UNCHANGED <<pc, proc, table, cancelled, steamVars, timeVars, shown, crashes>>

(* The identifier of a main instance is the directory: without an entry for it *)
(* some other instance of the game is stopped.                                 *)
StopInstance(i) ==
  /\ \E l \in Launches :
       /\ table[Instance(l)] = l /\ stop[l] = "no"
       /\ \/ Instance(l) = i
          \/ table[i] = None /\ i[2] = "main" /\ Dir[l] = i[1]
       /\ stop' = [stop EXCEPT ![l] = "asked"]
  /\ UNCHANGED <<pc, proc, table, cancelled, steamVars, timeVars, shown, crashes>>

(* Mutant of StopCancel: SIGTERM is sent and the group is not waited for. *)
StopCancelOnly(l) ==
  /\ stop[l] = "asked"
  /\ stop' = [stop EXCEPT ![l] = "no"]
  /\ cancelled' = cancelled \cup {l}
  /\ UNCHANGED <<pc, proc, table, steamVars, timeVars, shown, crashes>>

(* stopProcess cancels the supervisor's context, sends SIGTERM to the group *)
StopCancel(l) ==
  /\ stop[l] = "asked"
  /\ stop' = [stop EXCEPT ![l] = "waiting"]
  /\ cancelled' = cancelled \cup {l}
  /\ UNCHANGED <<pc, proc, table, steamVars, timeVars, shown, crashes>>

(* and, when the group has not ended after 2.5 seconds, SIGKILL. *)
StopKill(l) ==
  /\ stop[l] = "waiting"
  /\ stop' = [stop EXCEPT ![l] = "no"]
  /\ proc' = [proc EXCEPT ![l] = "gone"]
  /\ UNCHANGED <<pc, table, cancelled, steamVars, timeVars, shown, crashes>>

(* gamux is killed; the games go on. *)
Crash ==
  /\ crashes < MaxCrashes
  /\ crashes' = crashes + 1
  /\ pc' = [l \in Launches |-> IF pc[l] \in Over THEN pc[l] ELSE "lost"]
  /\ table' = [i \in Instances |-> None]
  /\ cancelled' = {}
  /\ stop' = [l \in Launches |-> "no"]
  /\ flush' = [l \in Launches |-> NoFlush]
  /\ shown' = {}
  /\ UNCHANGED <<proc, steamVars, playtime, unflushed, played>>

-----------------------------------------------------------------------------
Starting(l) ==
  Prepare(l) \/ LaunchFails(l) \/ Launch(l) \/ Register(l) \/ PublishLaunched(l)

Supervise(l) ==
  \/ WaitCancelled(l) \/ WaitDone(l) \/ WatchEnds(l) \/ Terminate(l)
  \/ Cleanup(l) \/ Remove(l) \/ PublishExited(l)

Next ==
  \/ \E l \in Launches :
       \/ Starting(l) \/ Supervise(l) \/ FlushRead(l) \/ FlushWrite(l)
       \/ ProcessExits(l) \/ ChildrenExit(l) \/ Tick(l)
       \/ StopCancel(l) \/ StopKill(l)
  \/ \E d \in Dirs : Stop(d)
  \/ \E i \in Instances : StopInstance(i)
  \/ Crash

Spec == Init /\ [][Next]_vars

-----------------------------------------------------------------------------
(* Every variable of Manager, the supervisors and ~/.steam keeps its type. *)
TypeOK ==
  /\ pc \in [Launches -> Over \cup Tracked \cup {"prepared", "spawned", "removed"}]
  /\ proc \in [Launches -> Alive \cup {None, "gone"}]
  /\ table \in [Instances -> Launches \cup {None}]
  /\ cancelled \subseteq Launches
  /\ stop \in [Launches -> {"no", "asked", "waiting"}]
  /\ steam \in [Homes -> [own : {None, "steam"}, client : {None, "steam", "gbe"},
                        backup : {None, "steam", "gbe"}, settings : Dirs \cup {None}]]
  /\ had \in [Launches -> BOOLEAN]
  /\ playtime \in [Dirs -> Nat]
  /\ flush \in [Launches -> [seen : Nat, delta : Nat, on : BOOLEAN]]
  /\ unflushed \in [Launches -> Nat]
  /\ shown \subseteq Instances
  /\ played \in [Launches -> 0..MaxPlay]
  /\ crashes \in 0..MaxCrashes

(* A launch that is supervised is the one its instance's entry leads to, from    *)
(* the moment it is published until OnExit, whatever the exits of other          *)
(* instances of the game delete: IsRunning knows it and Stop finds it; and the    *)
(* events show exactly the launches between their start and their OnExit.         *)
TableExact ==
  /\ \A l \in Launches : pc[l] \in Tracked => table[Instance(l)] = l
  /\ shown = {Instance(l) : l \in {k \in Launches : pc[k] \in (Tracked \ {"registered"}) \cup {"removed"}}}

(* Once OnExit has taken the entry away nobody can ask for the game to be        *)
(* stopped any more: if its processes are alive, the call of Stop that cancelled *)
(* the supervisor is still there to kill them (unless gamux itself was killed).   *)
NoneLeftBehind ==
  crashes = 0 => \A l \in Launches :
    pc[l] \in {"removed", "done"} /\ proc[l] \in Alive => stop[l] = "waiting"

(* A game whose processes live can be stopped: it is in the table, or a call of   *)
(* Stop is still there to kill them (Manager.Start, OnExit, stopProcess).         *)
Attended == TableExact /\ NoneLeftBehind

(* The user's own Steam client is never lost, even when gamux is killed while    *)
(* Goldberg's is in its place and games are started again afterwards.            *)
SteamKept ==
  \A h \in Homes : "steam" = steam[h].own => "steam" \in {steam[h].client, steam[h].backup}

(* "a cleanup function that restores original state upon game termination": when *)
(* no launch is under way in a home, and gamux was never killed, ~/.steam is as  *)
(* it was.                                                                       *)
SteamRestored ==
  crashes = 0 =>
    \A h \in Homes :
      (\A l \in Loader : Home(l) = h => pc[l] \in Over \cup {"removing", "removed"}) =>
        steam[h].client = steam[h].own /\ steam[h].backup = None /\ steam[h].settings = None

(* What loader mode borrows from ~/.steam is never lost and is given back          *)
(* (PrepareLinuxSteamEnvironment and its cleanup function).                       *)
SteamSafe == SteamKept /\ SteamRestored

(* The seconds of all launches of a game. *)
Total(f, d) == MapThenSumSet(LAMBDA l : f[l], {l \in Launches : Dir[l] = d})

(* No second is ever counted twice, whatever saves fail, overlap or are cut off,  *)
(* and as long as only one profile of a game was used none is lost either: what   *)
(* is not in the profile is added by the next flush, if there is one.             *)
PlaytimeHonest ==
  \A d \in Dirs :
    /\ playtime[d] + Total(unflushed, d) <= Total(played, d)
    /\ (\A k, l \in Launches : {Dir[k], Dir[l]} = {d} /\ "new" \notin {pc[k], pc[l]}
                                => Instance(k) = Instance(l)) =>
         playtime[d] + Total(unflushed, d) = Total(played, d)

-----------------------------------------------------------------------------
(* Expectations of the repository that the code does not meet *)

(* "IncrementPlaytime atomically adds delta seconds": no second is lost when two *)
(* profiles of one game are played at the same time.                             *)
AllPlaytimeKept ==
  \A d \in Dirs : playtime[d] + Total(unflushed, d) = Total(played, d)

=============================================================================
