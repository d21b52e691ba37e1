-------------------------- MODULE GameRunnerProofs --------------------------
(***************************************************************************)
(* Proofs about running games: the table of instances, the processes left  *)
(* behind, and the files of ~/.steam, for any launches, profiles and       *)
(* number of kills.                                                        *)
(***************************************************************************)
EXTENDS GameRunner, FiniteSetTheorems, TLAPS

(* What a flush under way adds has been played and is not yet in the profile. *)
ClockInv ==
  \A l \in Launches :
    /\ unflushed[l] <= played[l]
    /\ flush[l].on => flush[l].delta <= unflushed[l] /\ pc[l] \in {"waiting", "watching", "last"}

SteamDirs == [own : {None, "steam"}, client : {None, "steam", "gbe"},
              backup : {None, "steam", "gbe"}, settings : Dirs \cup {None}]

LEMMA SteamTypes ==
  ASSUME NEW s \in SteamDirs, NEW d \in Dirs, NEW b \in BOOLEAN
  PROVE  Prepared(s, d) \in SteamDirs /\ CleanedUp(s, b) \in SteamDirs
BY DEF Prepared, CleanedUp, SteamDirs, BacksUp

LEMMA HomeTypes ==
  ASSUME TypeOK, NEW l \in Loader
  PROVE  /\ [steam EXCEPT ![Home(l)] = Prepared(@, Dir[l])] \in [Homes -> SteamDirs]
         /\ [steam EXCEPT ![Home(l)] = CleanedUp(@, had[l])] \in [Homes -> SteamDirs]
<1>1. l \in Launches /\ Home(l) \in Homes /\ Dir[l] \in Dirs
  BY RunnerSets DEF Homes, Dirs
<1>2. steam \in [Homes -> SteamDirs] /\ had[l] \in BOOLEAN
  BY <1>1 DEF TypeOK, SteamDirs
<1>3. PICK s \in SteamDirs : s = steam[Home(l)]
  BY <1>1, <1>2
<1>4. Prepared(s, Dir[l]) \in SteamDirs /\ CleanedUp(s, had[l]) \in SteamDirs
  BY <1>1, <1>2, SteamTypes
<1> QED BY <1>1, <1>2, <1>3, <1>4

LEMMA CleanedType ==
  ASSUME TypeOK, NEW l \in Launches, Cleaned(l)
  PROVE  steam' \in [Homes -> SteamDirs]
BY HomeTypes DEF Cleaned, TypeOK, SteamDirs

LEMMA InitType == Init => TypeOK /\ ClockInv
BY RunnerSets DEF Init, TypeOK, ClockInv, NoFlush, Over

LEMMA StepType == TypeOK /\ ClockInv /\ [Next]_vars => TypeOK' /\ ClockInv'
<1> SUFFICES ASSUME TypeOK, ClockInv, [Next]_vars PROVE TypeOK' /\ ClockInv'
  OBVIOUS
<1>0. CASE UNCHANGED vars
  BY <1>0 DEF vars, steamVars, timeVars, TypeOK, ClockInv
<1>1. ASSUME NEW l \in Launches, Prepare(l) PROVE TypeOK' /\ ClockInv'
  <2>1. steam' \in [Homes -> SteamDirs]
    BY <1>1, HomeTypes DEF Prepare, TypeOK, SteamDirs
  <2>2. had' \in [Launches -> BOOLEAN]
    BY <1>1 DEF Prepare, TypeOK, BacksUp
  <2>3. unflushed[l] \in Nat /\ played[l] \in 0..MaxPlay /\ unflushed[l] <= played[l] /\ MaxPlay \in Nat
    BY RunnerSets DEF TypeOK, ClockInv
  <2>4. played[l] - unflushed[l] \in 0..MaxPlay
    BY <2>3
  <2>5. played' \in [Launches -> 0..MaxPlay] /\ unflushed' \in [Launches -> Nat]
    BY <1>1, <2>4 DEF Prepare, TypeOK
  <2>6. TypeOK'
    BY <1>1, <2>1, <2>2, <2>5 DEF Prepare, TypeOK, SteamDirs
  <2>7. ASSUME NEW k \in Launches
        PROVE  /\ unflushed'[k] <= played'[k]
               /\ flush'[k].on => flush'[k].delta <= unflushed'[k] /\ pc'[k] \in {"waiting", "watching", "last"}
    <3>1. CASE k = l
      BY <1>1, <2>4, <3>1 DEF Prepare, TypeOK, ClockInv, Over
    <3>2. CASE k # l
      BY <1>1, <3>2 DEF Prepare, TypeOK, ClockInv
    <3> QED BY <3>1, <3>2
  <2> QED BY <2>6, <2>7 DEF ClockInv
<1>2. ASSUME NEW l \in Launches, LaunchFails(l) PROVE TypeOK' /\ ClockInv'
  <2>1. steam' \in [Homes -> SteamDirs]
    BY <1>2, CleanedType DEF LaunchFails
  <2> QED BY <1>2, <2>1 DEF LaunchFails, timeVars, SteamDirs, TypeOK, ClockInv, Over
<1>3. ASSUME NEW l \in Launches, Launch(l) PROVE TypeOK' /\ ClockInv'
  BY <1>3 DEF Launch, steamVars, timeVars, TypeOK, ClockInv, Alive
<1>4. ASSUME NEW l \in Launches, Register(l) PROVE TypeOK' /\ ClockInv'
  BY <1>4 DEF Register, steamVars, timeVars, TypeOK, ClockInv, Tracked
<1>5. ASSUME NEW l \in Launches, PublishLaunched(l) PROVE TypeOK' /\ ClockInv'
  BY <1>5 DEF PublishLaunched, steamVars, timeVars, TypeOK, ClockInv, Tracked, Supervised,
     Instances
<1>6. ASSUME NEW l \in Launches, WaitCancelled(l) PROVE TypeOK' /\ ClockInv'
  BY <1>6 DEF WaitCancelled, steamVars, timeVars, TypeOK, ClockInv, Tracked, Supervised
<1>7. ASSUME NEW l \in Launches, WaitDone(l) PROVE TypeOK' /\ ClockInv'
  BY <1>7 DEF WaitDone, steamVars, timeVars, TypeOK, ClockInv, Tracked, Supervised
<1>8. ASSUME NEW l \in Launches, WatchEnds(l) PROVE TypeOK' /\ ClockInv'
  BY <1>8 DEF WatchEnds, steamVars, timeVars, TypeOK, ClockInv, Tracked, Supervised
<1>9. ASSUME NEW l \in Launches, Terminate(l) PROVE TypeOK' /\ ClockInv'
  BY <1>9 DEF Terminate, steamVars, timeVars, TypeOK, ClockInv, Tracked, Supervised
<1>10. ASSUME NEW l \in Launches, Cleanup(l) PROVE TypeOK' /\ ClockInv'
  <2>1. steam' \in [Homes -> SteamDirs]
    BY <1>10, CleanedType DEF Cleanup
  <2> QED BY <1>10, <2>1 DEF Cleanup, timeVars, SteamDirs, TypeOK, ClockInv, Tracked
<1>11. ASSUME NEW l \in Launches, Remove(l) PROVE TypeOK' /\ ClockInv'
  BY <1>11 DEF Remove, steamVars, timeVars, TypeOK, ClockInv
<1>12. ASSUME NEW l \in Launches, PublishExited(l) PROVE TypeOK' /\ ClockInv'
  BY <1>12 DEF PublishExited, steamVars, timeVars, TypeOK, ClockInv, Over
<1>13. ASSUME NEW l \in Launches, FlushRead(l) PROVE TypeOK' /\ ClockInv'
  <2>1. Dir[l] \in Dirs
    BY DEF Dirs
  <2>2. flush' \in [Launches -> [seen : Nat, delta : Nat, on : BOOLEAN]]
    BY <1>13, <2>1 DEF FlushRead, TypeOK
  <2>3. TypeOK'
    BY <1>13, <2>2 DEF FlushRead, TypeOK, steamVars
  <2>4. ClockInv'
    BY <1>13 DEF FlushRead, TypeOK, ClockInv
  <2> QED BY <2>3, <2>4
<1>14. ASSUME NEW l \in Launches, FlushWrite(l) PROVE TypeOK' /\ ClockInv'
  <2>1. Dir[l] \in Dirs
    BY DEF Dirs
  <2>2. /\ flush[l].seen \in Nat /\ flush[l].delta \in Nat /\ flush[l].delta <= unflushed[l]
        /\ unflushed[l] \in Nat /\ played[l] \in Nat /\ pc[l] \in {"waiting", "watching", "last"}
    BY <1>14 DEF FlushWrite, TypeOK, ClockInv
  <2>3. Merged(l) \in Nat /\ unflushed[l] - flush[l].delta \in Nat
    BY <2>1, <2>2 DEF Merged, TypeOK
  <2>4. playtime' \in [Dirs -> Nat] /\ unflushed' \in [Launches -> Nat]
    BY <1>14, <2>3 DEF FlushWrite, TypeOK
  <2>5. flush' \in [Launches -> [seen : Nat, delta : Nat, on : BOOLEAN]]
    BY <1>14 DEF FlushWrite, TypeOK, NoFlush
  <2>6. pc' \in [Launches -> Over \cup Tracked \cup {"prepared", "spawned", "removed"}]
    BY <1>14 DEF FlushWrite, TypeOK, Tracked
  <2>7. TypeOK'
    BY <1>14, <2>4, <2>5, <2>6 DEF FlushWrite, TypeOK, steamVars
  <2>8. ASSUME NEW k \in Launches
        PROVE  /\ unflushed'[k] <= played'[k]
               /\ flush'[k].on => flush'[k].delta <= unflushed'[k] /\ pc'[k] \in {"waiting", "watching", "last"}
    <3>1. CASE k = l
      BY <1>14, <2>2, <3>1 DEF FlushWrite, TypeOK, ClockInv, NoFlush
    <3>2. CASE k # l
      BY <1>14, <3>2 DEF FlushWrite, TypeOK, ClockInv
    <3> QED BY <3>1, <3>2
  <2> QED BY <2>7, <2>8 DEF ClockInv
<1>15. ASSUME NEW l \in Launches, ProcessExits(l) PROVE TypeOK' /\ ClockInv'
  BY <1>15 DEF ProcessExits, steamVars, timeVars, TypeOK, ClockInv, Alive
<1>16. ASSUME NEW l \in Launches, ChildrenExit(l) PROVE TypeOK' /\ ClockInv'
  BY <1>16 DEF ChildrenExit, steamVars, timeVars, TypeOK, ClockInv, Alive
<1>17. ASSUME NEW l \in Launches, Tick(l) PROVE TypeOK' /\ ClockInv'
  <2>1. unflushed[l] \in Nat /\ played[l] \in 0..MaxPlay /\ played[l] < MaxPlay /\ MaxPlay \in Nat
    BY <1>17, RunnerSets DEF Tick, TypeOK
  <2>2. played' \in [Launches -> 0..MaxPlay] /\ unflushed' \in [Launches -> Nat]
    BY <1>17, <2>1 DEF Tick, TypeOK
  <2>3. TypeOK'
    BY <1>17, <2>2 DEF Tick, TypeOK, steamVars
  <2>4. ClockInv'
    BY <1>17, <2>1 DEF Tick, TypeOK, ClockInv
  <2> QED BY <2>3, <2>4
<1>18. ASSUME NEW l \in Launches, StopCancel(l) PROVE TypeOK' /\ ClockInv'
  BY <1>18 DEF StopCancel, steamVars, timeVars, TypeOK, ClockInv
<1>19. ASSUME NEW l \in Launches, StopKill(l) PROVE TypeOK' /\ ClockInv'
  BY <1>19 DEF StopKill, steamVars, timeVars, TypeOK, ClockInv
<1>20. ASSUME NEW d \in Dirs, Stop(d) PROVE TypeOK' /\ ClockInv'
  BY <1>20 DEF Stop, steamVars, timeVars, TypeOK, ClockInv
<1>21. ASSUME NEW i \in Instances, StopInstance(i) PROVE TypeOK' /\ ClockInv'
  BY <1>21 DEF StopInstance, steamVars, timeVars, TypeOK, ClockInv
<1>22. CASE Crash
  <2>1. crashes' \in 0..MaxCrashes
    BY <1>22, RunnerSets DEF Crash, TypeOK
  <2>2. pc' \in [Launches -> Over \cup Tracked \cup {"prepared", "spawned", "removed"}]
    BY <1>22 DEF Crash, TypeOK, Over
  <2>3. flush' \in [Launches -> [seen : Nat, delta : Nat, on : BOOLEAN]]
    BY <1>22 DEF Crash, NoFlush
  <2>4. TypeOK'
    BY <1>22, <2>1, <2>2, <2>3 DEF Crash, TypeOK, steamVars
  <2>5. ClockInv'
    BY <1>22 DEF Crash, ClockInv, NoFlush
  <2> QED BY <2>4, <2>5
<1> QED BY <1>0, <1>1, <1>2, <1>3, <1>4, <1>5, <1>6, <1>7, <1>8, <1>9, <1>10, <1>11,
   <1>12, <1>13, <1>14, <1>15, <1>16, <1>17, <1>18, <1>19, <1>20, <1>21, <1>22 DEF Next,
   Starting, Supervise

(* Launches of one instance, and loader launches in one home, are not under way together. *)
ApartInv ==
  \A k, l \in Launches : k # l /\ KeptApart(l, k) => pc[k] \in Over \/ pc[l] \in Over

LEMMA InitApart == Init => ApartInv
BY DEF Init, ApartInv, Over

LEMMA StepApart == TypeOK /\ ApartInv /\ [Next]_vars => ApartInv'
<1> SUFFICES ASSUME TypeOK, ApartInv, [Next]_vars PROVE ApartInv'
  OBVIOUS
<1>0. CASE UNCHANGED vars
  BY <1>0 DEF vars, ApartInv, TypeOK
<1>1. ASSUME NEW l \in Launches, Prepare(l) PROVE ApartInv'
  BY <1>1 DEF Prepare, ApartInv, KeptApart, TypeOK
<1>2. ASSUME NEW l \in Launches, LaunchFails(l) PROVE ApartInv'
  BY <1>2 DEF LaunchFails, ApartInv, TypeOK, Over
<1>3. ASSUME NEW l \in Launches, Launch(l) PROVE ApartInv'
  BY <1>3 DEF Launch, ApartInv, TypeOK, Over
<1>4. ASSUME NEW l \in Launches, Register(l) PROVE ApartInv'
  BY <1>4 DEF Register, ApartInv, TypeOK, Over
<1>5. ASSUME NEW l \in Launches, PublishLaunched(l) PROVE ApartInv'
  BY <1>5 DEF PublishLaunched, ApartInv, TypeOK, Over
<1>6. ASSUME NEW l \in Launches, WaitCancelled(l) PROVE ApartInv'
  BY <1>6 DEF WaitCancelled, ApartInv, TypeOK, Over
<1>7. ASSUME NEW l \in Launches, WaitDone(l) PROVE ApartInv'
  BY <1>7 DEF WaitDone, ApartInv, TypeOK, Over
<1>8. ASSUME NEW l \in Launches, WatchEnds(l) PROVE ApartInv'
  BY <1>8 DEF WatchEnds, ApartInv, TypeOK, Over
<1>9. ASSUME NEW l \in Launches, Terminate(l) PROVE ApartInv'
  BY <1>9 DEF Terminate, ApartInv, TypeOK, Over
<1>10. ASSUME NEW l \in Launches, Cleanup(l) PROVE ApartInv'
  BY <1>10 DEF Cleanup, ApartInv, TypeOK, Over
<1>11. ASSUME NEW l \in Launches, Remove(l) PROVE ApartInv'
  BY <1>11 DEF Remove, ApartInv, TypeOK, Over
<1>12. ASSUME NEW l \in Launches, PublishExited(l) PROVE ApartInv'
  BY <1>12 DEF PublishExited, ApartInv, TypeOK, Over
<1>13. ASSUME NEW l \in Launches, FlushRead(l) PROVE ApartInv'
  BY <1>13 DEF FlushRead, ApartInv, TypeOK
<1>14. ASSUME NEW l \in Launches, FlushWrite(l) PROVE ApartInv'
  BY <1>14 DEF FlushWrite, ApartInv, TypeOK, Over
<1>15. ASSUME NEW l \in Launches, ProcessExits(l) PROVE ApartInv'
  BY <1>15 DEF ProcessExits, ApartInv, TypeOK
<1>16. ASSUME NEW l \in Launches, ChildrenExit(l) PROVE ApartInv'
  BY <1>16 DEF ChildrenExit, ApartInv, TypeOK
<1>17. ASSUME NEW l \in Launches, Tick(l) PROVE ApartInv'
  BY <1>17 DEF Tick, ApartInv, TypeOK
<1>18. ASSUME NEW l \in Launches, StopCancel(l) PROVE ApartInv'
  BY <1>18 DEF StopCancel, ApartInv, TypeOK
<1>19. ASSUME NEW l \in Launches, StopKill(l) PROVE ApartInv'
  BY <1>19 DEF StopKill, ApartInv, TypeOK
<1>20. ASSUME NEW d \in Dirs, Stop(d) PROVE ApartInv'
  BY <1>20 DEF Stop, ApartInv, TypeOK
<1>21. ASSUME NEW i \in Instances, StopInstance(i) PROVE ApartInv'
  BY <1>21 DEF StopInstance, ApartInv, TypeOK
<1>22. CASE Crash
  BY <1>22 DEF Crash, ApartInv, TypeOK
<1> QED BY <1>0, <1>1, <1>2, <1>3, <1>4, <1>5, <1>6, <1>7, <1>8, <1>9, <1>10, <1>11,
   <1>12, <1>13, <1>14, <1>15, <1>16, <1>17, <1>18, <1>19, <1>20, <1>21, <1>22 DEF Next,
   Starting, Supervise

(* Entries lead to launches under way; a launch whose supervisor has been told to stop, or is past waiting for its   *)
(* processes, has none left or the call of Stop that will kill them.                                                 *)
TableInv ==
  /\ \A l \in Launches :
       /\ pc[l] \in Tracked <=> table[Instance(l)] = l
       /\ pc[l] \in {"prepared", "spawned"} => stop[l] = "no" /\ l \notin cancelled
       /\ l \in cancelled /\ proc[l] \in Alive => stop[l] = "waiting"
       /\ crashes = 0 /\ pc[l] \in {"last", "cleanup", "removing", "removed", "done"} /\ proc[l] \in Alive => stop[l] = "waiting"

ShownInv ==
  shown = {Instance(l) : l \in {k \in Launches : pc[k] \in (Tracked \ {"registered"}) \cup {"removed"}}}

SameInstance == \A k, l \in Launches : k # l /\ Instance(k) = Instance(l) => pc[k] \in Over \/ pc[l] \in Over

LEMMA OneAtATime == ASSUME "instance" \in Apart, ApartInv PROVE SameInstance
BY DEF ApartInv, KeptApart, SameInstance

LEMMA InitTable == Init => TableInv /\ ShownInv
BY RunnerSets DEF Init, TableInv, ShownInv, Tracked, Supervised, Instances

LEMMA StepTable == TypeOK /\ SameInstance /\ TableInv /\ [Next]_vars => TableInv'
<1> SUFFICES ASSUME TypeOK, SameInstance, TableInv, [Next]_vars PROVE TableInv'
  OBVIOUS
<1>0. CASE UNCHANGED vars
  BY <1>0 DEF vars, TableInv, TypeOK
<1>1. ASSUME NEW l \in Launches, Prepare(l) PROVE TableInv'
  BY <1>1 DEF Prepare, TableInv, TypeOK, Over, Tracked, Supervised
<1>2. ASSUME NEW l \in Launches, LaunchFails(l) PROVE TableInv'
  BY <1>2 DEF LaunchFails, TableInv, TypeOK, Tracked, Supervised
<1>3. ASSUME NEW l \in Launches, Launch(l) PROVE TableInv'
  BY <1>3 DEF Launch, TableInv, TypeOK, Tracked, Supervised
<1>4. ASSUME NEW l \in Launches, Register(l) PROVE TableInv'
  BY <1>4 DEF Register, steamVars, timeVars, TableInv, SameInstance, TypeOK, Over,
     Tracked, Supervised, Alive, Instances
<1>5. ASSUME NEW l \in Launches, PublishLaunched(l) PROVE TableInv'
  BY <1>5 DEF PublishLaunched, TableInv, TypeOK, Tracked, Supervised
<1>6. ASSUME NEW l \in Launches, WaitCancelled(l) PROVE TableInv'
  BY <1>6 DEF WaitCancelled, TableInv, TypeOK, Tracked, Supervised
<1>7. ASSUME NEW l \in Launches, WaitDone(l) PROVE TableInv'
  BY <1>7 DEF WaitDone, TableInv, TypeOK, Tracked, Supervised
<1>8. ASSUME NEW l \in Launches, WatchEnds(l) PROVE TableInv'
  BY <1>8 DEF WatchEnds, TableInv, TypeOK, Tracked, Supervised
<1>9. ASSUME NEW l \in Launches, Terminate(l) PROVE TableInv'
  BY <1>9 DEF Terminate, TableInv, TypeOK, Tracked, Supervised, Alive
<1>10. ASSUME NEW l \in Launches, Cleanup(l) PROVE TableInv'
  BY <1>10 DEF Cleanup, TableInv, TypeOK, Tracked
<1>11. ASSUME NEW l \in Launches, Remove(l) PROVE TableInv'
  <2>1. pc[l] \notin Over /\ Instance(l) \in Instances
    BY <1>11 DEF Remove, Over, Instances
  <2>2. \A k \in Launches : table'[Instance(k)] = IF Instance(k) = Instance(l) THEN None ELSE table[Instance(k)]
    BY <1>11 DEF Remove, TypeOK, Instances
  <2>3. \A k \in Launches : k # l /\ Instance(k) = Instance(l) => pc[k] \in Over
    BY <2>1 DEF SameInstance
  <2> QED BY <1>11, <2>2, <2>3, RunnerSets DEF Remove, TableInv, TypeOK, Tracked,
     Supervised
<1>12. ASSUME NEW l \in Launches, PublishExited(l) PROVE TableInv'
  BY <1>12 DEF PublishExited, TableInv, TypeOK, Tracked, Supervised
<1>13. ASSUME NEW l \in Launches, FlushRead(l) PROVE TableInv'
  BY <1>13 DEF FlushRead, TableInv, TypeOK
<1>14. ASSUME NEW l \in Launches, FlushWrite(l) PROVE TableInv'
  BY <1>14 DEF FlushWrite, TableInv, TypeOK, Over, Tracked
<1>15. ASSUME NEW l \in Launches, ProcessExits(l) PROVE TableInv'
  BY <1>15 DEF ProcessExits, TableInv, TypeOK, Alive
<1>16. ASSUME NEW l \in Launches, ChildrenExit(l) PROVE TableInv'
  BY <1>16 DEF ChildrenExit, TableInv, TypeOK, Alive
<1>17. ASSUME NEW l \in Launches, Tick(l) PROVE TableInv'
  BY <1>17 DEF Tick, TableInv, TypeOK
<1>18. ASSUME NEW l \in Launches, StopCancel(l) PROVE TableInv'
  BY <1>18 DEF StopCancel, TableInv, TypeOK
<1>19. ASSUME NEW l \in Launches, StopKill(l) PROVE TableInv'
  BY <1>19 DEF StopKill, TableInv, TypeOK, Alive
<1>20. ASSUME NEW d \in Dirs, Stop(d) PROVE TableInv'
  BY <1>20 DEF Stop, TableInv, TypeOK, Tracked, Supervised
<1>21. ASSUME NEW i \in Instances, StopInstance(i) PROVE TableInv'
  BY <1>21 DEF StopInstance, TableInv, TypeOK, Tracked, Supervised
<1>22. CASE Crash
  <2>1. \A k \in Launches : pc'[k] \in Over /\ table'[Instance(k)] # k
    BY <1>22, RunnerSets DEF Crash, Over, Instances
  <2>2. crashes' # 0 /\ cancelled' = {}
    BY <1>22 DEF Crash, TypeOK
  <2> QED BY <2>1, <2>2 DEF TableInv, Over, Tracked, Supervised
<1> QED BY <1>0, <1>1, <1>2, <1>3, <1>4, <1>5, <1>6, <1>7, <1>8, <1>9, <1>10, <1>11,
   <1>12, <1>13, <1>14, <1>15, <1>16, <1>17, <1>18, <1>19, <1>20, <1>21, <1>22 DEF Next,
   Starting, Supervise

LEMMA StepShown == TypeOK /\ SameInstance /\ ShownInv /\ [Next]_vars => ShownInv'
<1> SUFFICES ASSUME TypeOK, SameInstance, ShownInv, [Next]_vars PROVE ShownInv'
  OBVIOUS
<1>0. CASE UNCHANGED vars
  BY <1>0 DEF vars, ShownInv, TypeOK
<1>1. ASSUME NEW l \in Launches, Prepare(l) PROVE ShownInv'
  BY <1>1 DEF Prepare, ShownInv, TypeOK, Over, Tracked, Supervised
<1>2. ASSUME NEW l \in Launches, LaunchFails(l) PROVE ShownInv'
  BY <1>2 DEF LaunchFails, ShownInv, TypeOK, Tracked, Supervised
<1>3. ASSUME NEW l \in Launches, Launch(l) PROVE ShownInv'
  BY <1>3 DEF Launch, ShownInv, TypeOK, Tracked, Supervised
<1>4. ASSUME NEW l \in Launches, Register(l) PROVE ShownInv'
  BY <1>4 DEF Register, ShownInv, TypeOK, Tracked, Supervised
<1>5. ASSUME NEW l \in Launches, PublishLaunched(l) PROVE ShownInv'
  BY <1>5 DEF PublishLaunched, ShownInv, TypeOK, Tracked, Supervised
<1>6. ASSUME NEW l \in Launches, WaitCancelled(l) PROVE ShownInv'
  BY <1>6 DEF WaitCancelled, ShownInv, TypeOK, Tracked, Supervised
<1>7. ASSUME NEW l \in Launches, WaitDone(l) PROVE ShownInv'
  BY <1>7 DEF WaitDone, ShownInv, TypeOK, Tracked, Supervised
<1>8. ASSUME NEW l \in Launches, WatchEnds(l) PROVE ShownInv'
  BY <1>8 DEF WatchEnds, ShownInv, TypeOK, Tracked, Supervised
<1>9. ASSUME NEW l \in Launches, Terminate(l) PROVE ShownInv'
  BY <1>9 DEF Terminate, ShownInv, TypeOK, Tracked, Supervised
<1>10. ASSUME NEW l \in Launches, Cleanup(l) PROVE ShownInv'
  BY <1>10 DEF Cleanup, ShownInv, TypeOK, Tracked
<1>11. ASSUME NEW l \in Launches, Remove(l) PROVE ShownInv'
  BY <1>11 DEF Remove, ShownInv, TypeOK, Over
<1>12. ASSUME NEW l \in Launches, PublishExited(l) PROVE ShownInv'
  <2>1. pc[l] = "removed" /\ shown' = shown \ {Instance(l)} /\ \A k \in Launches : pc'[k] = IF k = l THEN "done" ELSE pc[k]
    BY <1>12 DEF PublishExited, TypeOK
  <2>2. \A k \in Launches : k # l /\ Instance(k) = Instance(l) => pc[k] \in Over
    BY <2>1 DEF SameInstance, Over
  <2>3. PICK live : live = (Tracked \ {"registered"}) \cup {"removed"}
    OBVIOUS
  <2>4. "done" \notin live /\ "removed" \in live /\ live \cap Over = {}
    BY <2>3 DEF Tracked, Supervised, Over
  <2>5. shown = {Instance(k) : k \in {j \in Launches : pc[j] \in live}}
    BY <2>3 DEF ShownInv
  <2>6. shown' = {Instance(k) : k \in {j \in Launches : pc'[j] \in live}}
    BY <2>1, <2>2, <2>4, <2>5
  <2> QED BY <2>3, <2>6 DEF ShownInv
<1>13. ASSUME NEW l \in Launches, FlushRead(l) PROVE ShownInv'
  BY <1>13 DEF FlushRead, ShownInv, TypeOK
<1>14. ASSUME NEW l \in Launches, FlushWrite(l) PROVE ShownInv'
  BY <1>14 DEF FlushWrite, ShownInv, TypeOK, Over, Tracked
<1>15. ASSUME NEW l \in Launches, ProcessExits(l) PROVE ShownInv'
  BY <1>15 DEF ProcessExits, ShownInv, TypeOK
<1>16. ASSUME NEW l \in Launches, ChildrenExit(l) PROVE ShownInv'
  BY <1>16 DEF ChildrenExit, ShownInv, TypeOK
<1>17. ASSUME NEW l \in Launches, Tick(l) PROVE ShownInv'
  BY <1>17 DEF Tick, ShownInv, TypeOK
<1>18. ASSUME NEW l \in Launches, StopCancel(l) PROVE ShownInv'
  BY <1>18 DEF StopCancel, ShownInv, TypeOK
<1>19. ASSUME NEW l \in Launches, StopKill(l) PROVE ShownInv'
  BY <1>19 DEF StopKill, ShownInv, TypeOK
<1>20. ASSUME NEW d \in Dirs, Stop(d) PROVE ShownInv'
  BY <1>20 DEF Stop, ShownInv, TypeOK
<1>21. ASSUME NEW i \in Instances, StopInstance(i) PROVE ShownInv'
  BY <1>21 DEF StopInstance, ShownInv, TypeOK
<1>22. CASE Crash
  BY <1>22 DEF Crash, ShownInv, TypeOK, Over, Tracked, Supervised
<1> QED BY <1>0, <1>1, <1>2, <1>3, <1>4, <1>5, <1>6, <1>7, <1>8, <1>9, <1>10, <1>11,
   <1>12, <1>13, <1>14, <1>15, <1>16, <1>17, <1>18, <1>19, <1>20, <1>21, <1>22 DEF Next,
   Starting, Supervise

-----------------------------------------------------------------------------
(* A launch in one of these states has nothing of its own in ~/.steam. *)
Free == Over \cup {"removing", "removed"}

SameHome == \A k, l \in Loader : k # l /\ Home(k) = Home(l) => pc[k] \in Over \/ pc[l] \in Over

HomeOk(h) ==
  /\ steam[h].own = "steam" => steam[h].backup = "steam" \/ (steam[h].client = "steam" /\ steam[h].backup = None)
  /\ \A l \in Loader : Home(l) = h /\ pc[l] \notin Free =>
       /\ steam[h].own = "steam" => steam[h].backup = "steam"
       /\ crashes = 0 => steam[h].backup = steam[h].own /\ (had[l] <=> steam[h].own # None)
  /\ crashes = 0 /\ (\A l \in Loader : Home(l) = h => pc[l] \in Free) =>
       steam[h].client = steam[h].own /\ steam[h].backup = None /\ steam[h].settings = None

SteamInv == \A h \in Homes : HomeOk(h)

LEMMA OneInAHome == ASSUME "home" \in Apart, ApartInv PROVE SameHome
BY RunnerSets DEF ApartInv, KeptApart, SameHome

LEMMA InitSteam == Init => SteamInv
<1> SUFFICES ASSUME Init, NEW h \in Homes PROVE HomeOk(h)
  BY DEF SteamInv
<1>1. PICK own \in [Homes -> {None, "steam"}] :
        steam = [g \in Homes |-> [own |-> own[g], client |-> own[g], backup |-> None, settings |-> None]]
  BY DEF Init
<1>2. steam[h].own = own[h] /\ steam[h].client = own[h] /\ steam[h].backup = None /\ steam[h].settings = None
  BY <1>1
<1>3. \A l \in Loader : pc[l] \in Free
  BY RunnerSets DEF Init, Free, Over
<1> QED BY <1>2, <1>3 DEF HomeOk

LEMMA SteamFrame ==
  ASSUME SteamInv, steam' = steam, crashes' = crashes,
         \A k \in Loader : (pc'[k] \in Free <=> pc[k] \in Free) /\ had'[k] = had[k]
  PROVE  SteamInv'
<1> SUFFICES ASSUME NEW h \in Homes PROVE HomeOk(h)'
  BY DEF SteamInv
<1> QED BY DEF SteamInv, HomeOk

LEMMA StepCleaned ==
  ASSUME TypeOK, SameHome, SteamInv, NEW l \in Launches, Cleaned(l), pc[l] \notin Free, pc[l] \notin Over, pc'[l] \in Free,
         had' = had, crashes' = crashes, \A k \in Launches : k # l => pc'[k] = pc[k]
  PROVE  SteamInv'
<1>1. CASE l \notin Loader
  <2>1. steam' = steam /\ \A k \in Loader : (pc'[k] \in Free <=> pc[k] \in Free) /\ had'[k] = had[k]
    BY <1>1, RunnerSets DEF Cleaned
  <2> QED BY <2>1, SteamFrame
<1>2. CASE l \in Loader
  <2>1. PICK h \in Homes : h = Home(l)
    BY <1>2 DEF Homes
  <2>2. PICK s : s = steam[h]
    OBVIOUS
  <2>3. \A k \in Loader : Home(k) = h /\ k # l => pc[k] \in Over
    BY <1>2, <2>1 DEF SameHome
  <2>4. \A k \in Loader : Home(k) = h => pc'[k] \in Free
    BY <2>3, RunnerSets DEF Free
  <2>5. s \in SteamDirs /\ HomeOk(h) /\ had[l] \in BOOLEAN
    BY <2>2 DEF TypeOK, SteamDirs, SteamInv
  <2>6. steam'[h] = CleanedUp(s, had[l]) /\ \A g \in Homes : g # h => steam'[g] = steam[g]
    BY <1>2, <2>1, <2>2 DEF Cleaned, TypeOK
  <2>7. HomeOk(h)'
    <3>1. PICK t : t = CleanedUp(s, had[l])
      OBVIOUS
    <3>2. /\ t.own = s.own /\ t.client = (IF had[l] THEN s.backup ELSE None)
          /\ t.backup = (IF had[l] THEN None ELSE s.backup) /\ t.settings = None
      BY <2>5, <3>1 DEF CleanedUp, SteamDirs
    <3> QED BY <1>2, <2>1, <2>2, <2>4, <2>5, <2>6, <3>1, <3>2 DEF HomeOk, SteamDirs
  <2>8. ASSUME NEW g \in Homes, g # h PROVE HomeOk(g)'
    <3>1. HomeOk(g)
      BY DEF SteamInv
    <3>2. \A k \in Loader : Home(k) = g => k # l
      BY <2>1, <2>8
    <3> QED BY <2>6, <2>8, <3>1, <3>2, RunnerSets DEF HomeOk
  <2> QED BY <2>7, <2>8 DEF SteamInv
<1> QED BY <1>1, <1>2

LEMMA StepSteam == TypeOK /\ ClockInv /\ SameHome /\ ("home" \in Apart) /\ SteamInv /\ [Next]_vars => SteamInv'
<1> SUFFICES ASSUME TypeOK, ClockInv, SameHome, "home" \in Apart, SteamInv, [Next]_vars PROVE SteamInv'
  OBVIOUS
<1>0. CASE UNCHANGED vars
  BY <1>0 DEF vars, steamVars, SteamInv, HomeOk
<1>1. ASSUME NEW l \in Launches, Prepare(l) PROVE SteamInv'
  <2>1. CASE l \notin Loader
    <3>1. steam' = steam /\ crashes' = crashes /\ \A k \in Loader : (pc'[k] \in Free <=> pc[k] \in Free) /\ had'[k] = had[k]
      BY <1>1, <2>1, RunnerSets DEF Prepare, TypeOK
    <3> QED BY <3>1, SteamFrame
  <2>2. CASE l \in Loader
    <3>1. PICK h \in Homes : h = Home(l)
      BY <2>2 DEF Homes
    <3>2. PICK s : s = steam[h]
      OBVIOUS
    <3>3. \A k \in Loader : Home(k) = h => pc[k] \in Free
      BY <1>1, <2>2, <3>1, RunnerSets DEF Prepare, KeptApart, Free
    <3>4. s \in SteamDirs /\ HomeOk(h)
      BY <3>2 DEF TypeOK, SteamDirs, SteamInv
    <3>4a. had'[l] <=> BacksUp(s)
      BY <1>1, <2>2, <3>1, <3>2 DEF Prepare, TypeOK
    <3>5. /\ steam'[h] = Prepared(s, Dir[l]) /\ crashes' = crashes
          /\ \A g \in Homes : g # h => steam'[g] = steam[g]
          /\ \A k \in Loader : k # l => pc'[k] = pc[k] /\ had'[k] = had[k]
          /\ pc'[l] \notin Free
      BY <1>1, <2>2, <3>1, <3>2, RunnerSets DEF Prepare, TypeOK, Free, Over
    <3>6. HomeOk(h)'
      <4>1. PICK t : t = Prepared(s, Dir[l])
        OBVIOUS
      <4>2. t.own = s.own /\ t.client = "gbe" /\ t.backup = (IF s.client # None /\ s.backup = None THEN s.client ELSE s.backup)
        BY <3>4, <4>1 DEF Prepared, SteamDirs, BacksUp
      <4>3. \A k \in Loader : Home(k) = h => (k = l \/ pc'[k] \in Free)
        BY <3>3, <3>5
      <4>4. /\ s.own \in {None, "steam"} /\ s.client \in {None, "steam", "gbe"} /\ s.backup \in {None, "steam", "gbe"}
            /\ s.own = "steam" => s.backup = "steam" \/ (s.client = "steam" /\ s.backup = None)
            /\ crashes = 0 => s.client = s.own /\ s.backup = None
        BY <3>2, <3>3, <3>4 DEF HomeOk, SteamDirs
      <4>5. /\ t.own = "steam" => t.backup = "steam"
            /\ crashes = 0 => t.backup = t.own /\ (had'[l] <=> t.own # None)
        BY <3>4a, <4>2, <4>4 DEF BacksUp, None
      <4> QED BY <2>2, <3>1, <3>5, <4>1, <4>3, <4>5 DEF HomeOk
    <3>7. ASSUME NEW g \in Homes, g # h PROVE HomeOk(g)'
      <4>1. HomeOk(g)
        BY DEF SteamInv
      <4>2. \A k \in Loader : Home(k) = g => k # l
        BY <3>1, <3>7
      <4> QED BY <3>5, <3>7, <4>1, <4>2 DEF HomeOk
    <3> QED BY <3>6, <3>7 DEF SteamInv
  <2> QED BY <2>1, <2>2
<1>2. ASSUME NEW l \in Launches, LaunchFails(l) PROVE SteamInv'
  <2>1. /\ Cleaned(l) /\ pc[l] \notin Free /\ pc[l] \notin Over /\ pc'[l] \in Free
        /\ had' = had /\ crashes' = crashes /\ \A k \in Launches : k # l => pc'[k] = pc[k]
    BY <1>2 DEF LaunchFails, TypeOK, Free, Over
  <2> QED BY <2>1, StepCleaned
<1>3. ASSUME NEW l \in Launches, Launch(l) PROVE SteamInv'
  <2>1. /\ steam' = steam /\ had' = had /\ crashes' = crashes
        /\ \A k \in Loader : (pc'[k] \in Free <=> pc[k] \in Free) /\ had'[k] = had[k]
    BY <1>3, RunnerSets DEF Launch, TypeOK, steamVars, Free, Over
  <2> QED BY <2>1, SteamFrame
<1>4. ASSUME NEW l \in Launches, Register(l) PROVE SteamInv'
  <2>1. /\ steam' = steam /\ had' = had /\ crashes' = crashes
        /\ \A k \in Loader : (pc'[k] \in Free <=> pc[k] \in Free) /\ had'[k] = had[k]
    BY <1>4, RunnerSets DEF Register, TypeOK, steamVars, Free, Over
  <2> QED BY <2>1, SteamFrame
<1>5. ASSUME NEW l \in Launches, PublishLaunched(l) PROVE SteamInv'
  <2>1. /\ steam' = steam /\ had' = had /\ crashes' = crashes
        /\ \A k \in Loader : (pc'[k] \in Free <=> pc[k] \in Free) /\ had'[k] = had[k]
    BY <1>5, RunnerSets DEF PublishLaunched, TypeOK, steamVars, Free, Over
  <2> QED BY <2>1, SteamFrame
<1>6. ASSUME NEW l \in Launches, WaitCancelled(l) PROVE SteamInv'
  <2>1. /\ steam' = steam /\ had' = had /\ crashes' = crashes
        /\ \A k \in Loader : (pc'[k] \in Free <=> pc[k] \in Free) /\ had'[k] = had[k]
    BY <1>6, RunnerSets DEF WaitCancelled, TypeOK, steamVars, Free, Over
  <2> QED BY <2>1, SteamFrame
<1>7. ASSUME NEW l \in Launches, WaitDone(l) PROVE SteamInv'
  <2>1. /\ steam' = steam /\ had' = had /\ crashes' = crashes
        /\ \A k \in Loader : (pc'[k] \in Free <=> pc[k] \in Free) /\ had'[k] = had[k]
    BY <1>7, RunnerSets DEF WaitDone, TypeOK, steamVars, Free, Over
  <2> QED BY <2>1, SteamFrame
<1>8. ASSUME NEW l \in Launches, WatchEnds(l) PROVE SteamInv'
  <2>1. /\ steam' = steam /\ had' = had /\ crashes' = crashes
        /\ \A k \in Loader : (pc'[k] \in Free <=> pc[k] \in Free) /\ had'[k] = had[k]
    BY <1>8, RunnerSets DEF WatchEnds, TypeOK, steamVars, Free, Over
  <2> QED BY <2>1, SteamFrame
<1>9. ASSUME NEW l \in Launches, Terminate(l) PROVE SteamInv'
  <2>1. /\ steam' = steam /\ had' = had /\ crashes' = crashes
        /\ \A k \in Loader : (pc'[k] \in Free <=> pc[k] \in Free) /\ had'[k] = had[k]
    BY <1>9, RunnerSets DEF Terminate, TypeOK, steamVars, Free, Over
  <2> QED BY <2>1, SteamFrame
<1>10. ASSUME NEW l \in Launches, Cleanup(l) PROVE SteamInv'
  <2>1. /\ Cleaned(l) /\ pc[l] \notin Free /\ pc[l] \notin Over /\ pc'[l] \in Free
        /\ had' = had /\ crashes' = crashes /\ \A k \in Launches : k # l => pc'[k] = pc[k]
    BY <1>10 DEF Cleanup, TypeOK, Free, Over
  <2> QED BY <2>1, StepCleaned
<1>11. ASSUME NEW l \in Launches, Remove(l) PROVE SteamInv'
  <2>1. /\ steam' = steam /\ had' = had /\ crashes' = crashes
        /\ \A k \in Loader : (pc'[k] \in Free <=> pc[k] \in Free) /\ had'[k] = had[k]
    BY <1>11, RunnerSets DEF Remove, TypeOK, steamVars, Free
  <2> QED BY <2>1, SteamFrame
<1>12. ASSUME NEW l \in Launches, PublishExited(l) PROVE SteamInv'
  <2>1. /\ steam' = steam /\ had' = had /\ crashes' = crashes
        /\ \A k \in Loader : (pc'[k] \in Free <=> pc[k] \in Free) /\ had'[k] = had[k]
    BY <1>12, RunnerSets DEF PublishExited, TypeOK, steamVars, Free, Over
  <2> QED BY <2>1, SteamFrame
<1>13. ASSUME NEW l \in Launches, FlushRead(l) PROVE SteamInv'
  <2>1. /\ steam' = steam /\ had' = had /\ crashes' = crashes
        /\ \A k \in Loader : (pc'[k] \in Free <=> pc[k] \in Free) /\ had'[k] = had[k]
    BY <1>13, RunnerSets DEF FlushRead, TypeOK, steamVars, ClockInv, Free
  <2> QED BY <2>1, SteamFrame
<1>14. ASSUME NEW l \in Launches, FlushWrite(l) PROVE SteamInv'
  <2>1. /\ steam' = steam /\ had' = had /\ crashes' = crashes
        /\ \A k \in Loader : (pc'[k] \in Free <=> pc[k] \in Free) /\ had'[k] = had[k]
    BY <1>14, RunnerSets DEF FlushWrite, TypeOK, steamVars, ClockInv, Free, Over
  <2> QED BY <2>1, SteamFrame
<1>15. ASSUME NEW l \in Launches, ProcessExits(l) PROVE SteamInv'
  <2>1. /\ steam' = steam /\ had' = had /\ crashes' = crashes
        /\ \A k \in Loader : (pc'[k] \in Free <=> pc[k] \in Free) /\ had'[k] = had[k]
    BY <1>15, RunnerSets DEF ProcessExits, TypeOK, steamVars, Free
  <2> QED BY <2>1, SteamFrame
<1>16. ASSUME NEW l \in Launches, ChildrenExit(l) PROVE SteamInv'
  <2>1. /\ steam' = steam /\ had' = had /\ crashes' = crashes
        /\ \A k \in Loader : (pc'[k] \in Free <=> pc[k] \in Free) /\ had'[k] = had[k]
    BY <1>16, RunnerSets DEF ChildrenExit, TypeOK, steamVars, Free
  <2> QED BY <2>1, SteamFrame
<1>17. ASSUME NEW l \in Launches, Tick(l) PROVE SteamInv'
  <2>1. /\ steam' = steam /\ had' = had /\ crashes' = crashes
        /\ \A k \in Loader : (pc'[k] \in Free <=> pc[k] \in Free) /\ had'[k] = had[k]
    BY <1>17, RunnerSets DEF Tick, TypeOK, steamVars, ClockInv, Free
  <2> QED BY <2>1, SteamFrame
<1>18. ASSUME NEW l \in Launches, StopCancel(l) PROVE SteamInv'
  <2>1. /\ steam' = steam /\ had' = had /\ crashes' = crashes
        /\ \A k \in Loader : (pc'[k] \in Free <=> pc[k] \in Free) /\ had'[k] = had[k]
    BY <1>18, RunnerSets DEF StopCancel, TypeOK, steamVars, Free
  <2> QED BY <2>1, SteamFrame
<1>19. ASSUME NEW l \in Launches, StopKill(l) PROVE SteamInv'
  <2>1. /\ steam' = steam /\ had' = had /\ crashes' = crashes
        /\ \A k \in Loader : (pc'[k] \in Free <=> pc[k] \in Free) /\ had'[k] = had[k]
    BY <1>19, RunnerSets DEF StopKill, TypeOK, steamVars, Free
  <2> QED BY <2>1, SteamFrame
<1>20. ASSUME NEW d \in Dirs, Stop(d) PROVE SteamInv'
  <2>1. /\ steam' = steam /\ had' = had /\ crashes' = crashes
        /\ \A k \in Loader : (pc'[k] \in Free <=> pc[k] \in Free) /\ had'[k] = had[k]
    BY <1>20, RunnerSets DEF Stop, TypeOK, steamVars, Free
  <2> QED BY <2>1, SteamFrame
<1>21. ASSUME NEW i \in Instances, StopInstance(i) PROVE SteamInv'
  <2>1. /\ steam' = steam /\ had' = had /\ crashes' = crashes
        /\ \A k \in Loader : (pc'[k] \in Free <=> pc[k] \in Free) /\ had'[k] = had[k]
    BY <1>21, RunnerSets DEF StopInstance, TypeOK, steamVars, Free
  <2> QED BY <2>1, SteamFrame
<1>22. CASE Crash
  <2>1. steam' = steam /\ crashes' # 0 /\ \A k \in Launches : pc'[k] \in Free
    BY <1>22 DEF Crash, TypeOK, steamVars, Free, Over
  <2>2. ASSUME NEW h \in Homes PROVE HomeOk(h)'
    BY <2>1, RunnerSets DEF SteamInv, HomeOk
  <2> QED BY <2>2 DEF SteamInv
<1> QED BY <1>0, <1>1, <1>2, <1>3, <1>4, <1>5, <1>6, <1>7, <1>8, <1>9, <1>10, <1>11,
   <1>12, <1>13, <1>14, <1>15, <1>16, <1>17, <1>18, <1>19, <1>20, <1>21, <1>22 DEF Next,
   Starting, Supervise

-----------------------------------------------------------------------------
(* Sums over finite sets *)

(* Every set of subsets of a finite set has a smallest one. *)
LEMMA SmallestSubset ==
  ASSUME NEW S, IsFiniteSet(S), NEW B, B \subseteq SUBSET S, B # {}
  PROVE  \E T \in B : \A U \in SUBSET T : U # T => U \notin B
<1>1. IsWellFoundedOn(StrictSubsetOrdering(S), SUBSET S)
  BY FS_StrictSubsetOrderingWellFounded, FS_FiniteSubsetsOfFinite
<1>2. PICK T \in B : \A U \in B : ~(<<U, T>> \in StrictSubsetOrdering(S))
  BY <1>1, WFMin
<1>3. ASSUME NEW U \in SUBSET T, U # T, U \in B
      PROVE  FALSE
  BY <1>2, <1>3 DEF StrictSubsetOrdering
<1> QED BY <1>3

(* The function MapThenFoldSet chooses, and its choice. *)
Adds(g, f, S) ==
  g = [s \in SUBSET S |-> IF s = {} THEN 0 ELSE f[CHOOSE x \in s : TRUE] + g[s \ {CHOOSE x \in s : TRUE}]]

Adding(f, S) == CHOOSE g : Adds(g, f, S)

(* The recursive function of MapThenSumSet exists: it can be defined on the sets of at most n elements. *)
LEMMA AddingExists ==
  ASSUME NEW S, IsFiniteSet(S), NEW f
  PROVE  Adds(Adding(f, S), f, S)
<1> DEFINE ch(s) == CHOOSE x \in s : TRUE
           N == Cardinality(S)
           Small(n) == {s \in SUBSET S : Cardinality(s) <= n}
           Good(n) == \E g : g = [s \in Small(n) |-> IF s = {} THEN 0 ELSE f[ch(s)] + g[s \ {ch(s)}]]
           Bad == {n \in 0 .. N : ~Good(n)}
           Below == {0 .. n : n \in Bad}
<1>1. N \in Nat /\ \A s \in SUBSET S : IsFiniteSet(s) /\ Cardinality(s) \in Nat /\ Cardinality(s) <= N
  BY FS_CardinalityType, FS_Subset
<1>2. \A s \in SUBSET S : s # {} => ch(s) \in s
  OBVIOUS
<1>3. \A s \in SUBSET S : s # {} => s \ {ch(s)} \in SUBSET S /\ Cardinality(s \ {ch(s)}) = Cardinality(s) - 1
  <2> HIDE DEF ch
  <2> QED BY <1>1, <1>2, FS_RemoveElement
<1>4. Good(0)
  <2> DEFINE g == [s \in Small(0) |-> 0]
  <2>1. \A s \in Small(0) : s = {}
    BY <1>1, FS_EmptySet
  <2>2. g = [s \in Small(0) |-> IF s = {} THEN 0 ELSE f[ch(s)] + g[s \ {ch(s)}]]
    BY <2>1
  <2> QED BY <2>2
<1>5. ASSUME NEW n \in Nat, Good(n)
      PROVE  Good(n + 1)
  <2>1. PICK g : g = [s \in Small(n) |-> IF s = {} THEN 0 ELSE f[ch(s)] + g[s \ {ch(s)}]]
    BY <1>5
  <2> DEFINE h == [s \in Small(n + 1) |-> IF s = {} THEN 0 ELSE f[ch(s)] + g[s \ {ch(s)}]]
  <2>2. \A s \in Small(n) : s \in Small(n + 1)
    BY <1>1
  <2>3. \A s \in Small(n) : h[s] = g[s]
    <3> HIDE DEF ch, Small
    <3> QED BY <2>1, <2>2
  <2>4. \A s \in Small(n + 1) : s # {} => s \ {ch(s)} \in Small(n)
    <3> HIDE DEF ch
    <3> QED BY <1>1, <1>3
  <2>5. h = [s \in Small(n + 1) |-> IF s = {} THEN 0 ELSE f[ch(s)] + h[s \ {ch(s)}]]
    <3> HIDE DEF ch, Small
    <3> QED BY <2>3, <2>4
  <2> QED BY <2>5
<1>6. Bad = {}
  <2> SUFFICES ASSUME Bad # {}
               PROVE  FALSE
    OBVIOUS
  <2> HIDE DEF Good
  <2>1. IsFiniteSet(0 .. N)
    <3>1. 0 \in Int /\ N \in Int
      BY <1>1
    <3> HIDE DEF N
    <3> QED BY <3>1, FS_Interval
  <2>a. \A n \in Bad : 0 .. n \in SUBSET (0 .. N)
    <3> HIDE DEF N
    <3> QED BY <1>1
  <2>b. Below \subseteq SUBSET (0 .. N)
    <3> HIDE DEF N, Bad
    <3> QED BY <2>a
  <2>c. Below # {}
    <3> HIDE DEF Bad
    <3> QED OBVIOUS
  <2>2. PICK T \in Below : \A U \in SUBSET T : U # T => U \notin Below
    <3> HIDE DEF Below
    <3> QED BY <2>1, <2>b, <2>c, SmallestSubset
  <2>3. PICK n \in Bad : T = 0 .. n
    BY <2>2
  <2>4. n # 0 /\ n \in Nat /\ n - 1 \in 0 .. N
    BY <1>1, <1>4
  <2>5. 0 .. (n - 1) \in SUBSET T /\ 0 .. (n - 1) # T
    BY <2>3, <2>4
  <2>6. n - 1 \notin Bad
    BY <2>2, <2>5
  <2>7. Good(n - 1)
    BY <2>4, <2>6
  <2>8. Good((n - 1) + 1)
    <3>1. n - 1 \in Nat
      BY <2>4
    <3> QED BY <1>5, <2>7, <3>1
  <2>9. (n - 1) + 1 = n
    BY <2>4
  <2> QED BY <2>8, <2>9
<1>7. Good(N)
  <2> HIDE DEF Good
  <2> QED BY <1>1, <1>6
<1>8. Small(N) = SUBSET S
  BY <1>1
<1>9. \E g : Adds(g, f, S)
  <2> HIDE DEF Small
  <2> QED BY <1>7, <1>8 DEF Adds
<1> QED BY <1>9 DEF Adding

(* Values, and the order of the additions. *)
LEMMA AddsValues ==
  ASSUME NEW S, NEW f, NEW g, IsFiniteSet(S), Adds(g, f, S), \A x \in S : f[x] \in Nat
  PROVE  /\ \A s \in SUBSET S : g[s] \in Nat
         /\ \A x \in S : g[S] = f[x] + g[S \ {x}]
<1> DEFINE ch(s) == CHOOSE x \in s : TRUE
           Bad1 == {s \in SUBSET S : g[s] \notin Nat}
           Bad2 == {s \in SUBSET S : \E x \in s : g[s] # f[x] + g[s \ {x}]}
<1>1. \A s \in SUBSET S : g[s] = IF s = {} THEN 0 ELSE f[ch(s)] + g[s \ {ch(s)}]
  <2> HIDE DEF ch
  <2>1. g = [s \in SUBSET S |-> IF s = {} THEN 0 ELSE f[ch(s)] + g[s \ {ch(s)}]]
    BY DEF Adds, ch
  <2> QED BY <2>1
<1>2. \A s \in SUBSET S : s # {} => ch(s) \in s
  OBVIOUS
<1> HIDE DEF ch
<1>3. Bad1 = {}
  <2> SUFFICES ASSUME Bad1 # {}
               PROVE  FALSE
    OBVIOUS
  <2>1. PICK T \in Bad1 : \A U \in SUBSET T : U # T => U \notin Bad1
    <3>1. Bad1 \subseteq SUBSET S
      OBVIOUS
    <3> HIDE DEF Bad1
    <3> QED BY <3>1, SmallestSubset
  <2>2. T # {} /\ T \in SUBSET S
    <3>1. T \in SUBSET S /\ g[T] \notin Nat
      BY <2>1
    <3>2. g[{}] = 0
      BY <1>1
    <3> QED BY <3>1, <3>2
  <2>3. ch(T) \in T /\ T \ {ch(T)} \in SUBSET T /\ T \ {ch(T)} # T
    BY <1>2, <2>2
  <2>4. g[T \ {ch(T)}] \in Nat
    BY <2>1, <2>2, <2>3
  <2>5. g[T] = f[ch(T)] + g[T \ {ch(T)}] /\ f[ch(T)] \in Nat
    BY <1>1, <2>2, <2>3
  <2> QED BY <2>4, <2>5
<1>4. \A s \in SUBSET S : g[s] \in Nat
  BY <1>3
<1>5. Bad2 = {}
  <2> SUFFICES ASSUME Bad2 # {}
               PROVE  FALSE
    OBVIOUS
  <2>1. PICK T \in Bad2 : \A U \in SUBSET T : U # T => U \notin Bad2
    <3>1. Bad2 \subseteq SUBSET S
      OBVIOUS
    <3> HIDE DEF Bad2
    <3> QED BY <3>1, SmallestSubset
  <2>2. PICK x \in T : g[T] # f[x] + g[T \ {x}]
    OBVIOUS
  <2>3. PICK y : y = ch(T)
    OBVIOUS
  <2>4. y \in T /\ T \in SUBSET S /\ T # {}
    BY <1>2, <2>2, <2>3
  <2>5. g[T] = f[y] + g[T \ {y}]
    BY <1>1, <2>3, <2>4
  <2>6. x # y
    BY <2>2, <2>5
  <2>7. g[T \ {y}] = f[x] + g[(T \ {y}) \ {x}]
    <3>1. T \ {y} \in SUBSET T /\ T \ {y} # T /\ x \in T \ {y} /\ T \ {y} \in SUBSET S
      BY <2>2, <2>4, <2>6
    <3> QED BY <2>1, <3>1
  <2>8. g[T \ {x}] = f[y] + g[(T \ {x}) \ {y}]
    <3>1. T \ {x} \in SUBSET T /\ T \ {x} # T /\ y \in T \ {x} /\ T \ {x} \in SUBSET S
      BY <2>2, <2>4, <2>6
    <3> QED BY <2>1, <3>1
  <2>9. (T \ {y}) \ {x} = (T \ {x}) \ {y} /\ (T \ {x}) \ {y} \in SUBSET S
    BY <2>4
  <2>10. g[(T \ {x}) \ {y}] \in Nat /\ f[x] \in Nat /\ f[y] \in Nat
    BY <1>4, <2>2, <2>4, <2>9
  <2>11. g[T \ {y}] = g[(T \ {x}) \ {y}] + f[x] /\ g[T \ {x}] = g[(T \ {x}) \ {y}] + f[y]
    <3>1. g[(T \ {y}) \ {x}] = g[(T \ {x}) \ {y}]
      BY <2>9
    <3> QED BY <2>7, <2>8, <2>10, <3>1
  <2>12. g[T] = f[x] + g[T \ {x}]
    <3>1. PICK a, b, c \in Nat : a = f[x] /\ b = f[y] /\ c = g[(T \ {x}) \ {y}]
      BY <2>10
    <3>2. g[T] = b + (c + a) /\ g[T \ {x}] = c + b
      BY <2>5, <2>11, <3>1
    <3>3. b + (c + a) = a + (c + b)
      BY <3>1
    <3> QED BY <3>1, <3>2, <3>3
  <2> QED BY <2>2, <2>12
<1>6. \A x \in S : g[S] = f[x] + g[S \ {x}]
  <2>1. S \in SUBSET S /\ S \notin Bad2
    BY <1>5
  <2> QED BY <2>1
<1> HIDE DEF Bad1, Bad2
<1> QED BY <1>4, <1>6

(* Only the values in the set matter. *)
LEMMA AddsAgree ==
  ASSUME NEW S, NEW f, NEW e, NEW g, NEW h, NEW T, IsFiniteSet(S), Adds(g, f, S), Adds(h, e, S),
         T \in SUBSET S, \A x \in T : f[x] = e[x]
  PROVE  g[T] = h[T]
<1> DEFINE ch(s) == CHOOSE x \in s : TRUE
           Bad == {s \in SUBSET T : g[s] # h[s]}
<1>1. \A s \in SUBSET S : /\ g[s] = IF s = {} THEN 0 ELSE f[ch(s)] + g[s \ {ch(s)}]
                          /\ h[s] = IF s = {} THEN 0 ELSE e[ch(s)] + h[s \ {ch(s)}]
  <2> HIDE DEF ch
  <2>1. g = [s \in SUBSET S |-> IF s = {} THEN 0 ELSE f[ch(s)] + g[s \ {ch(s)}]]
    BY DEF Adds, ch
  <2>2. h = [s \in SUBSET S |-> IF s = {} THEN 0 ELSE e[ch(s)] + h[s \ {ch(s)}]]
    BY DEF Adds, ch
  <2> QED BY <2>1, <2>2
<1>2. \A s \in SUBSET S : s # {} => ch(s) \in s
  OBVIOUS
<1> HIDE DEF ch
<1> SUFFICES ASSUME Bad # {}
             PROVE  FALSE
  OBVIOUS
<1>3. PICK U \in Bad : \A V \in SUBSET U : V # U => V \notin Bad
  <2>1. Bad \subseteq SUBSET S
    OBVIOUS
  <2> HIDE DEF Bad
  <2> QED BY <2>1, SmallestSubset
<1>4. U # {} /\ U \in SUBSET T /\ U \in SUBSET S
  BY <1>1
<1>5. ch(U) \in U /\ U \ {ch(U)} \in SUBSET U /\ U \ {ch(U)} # U /\ U \ {ch(U)} \in SUBSET T
  BY <1>2, <1>4
<1>6. g[U \ {ch(U)}] = h[U \ {ch(U)}] /\ f[ch(U)] = e[ch(U)]
  BY <1>3, <1>4, <1>5
<1> QED BY <1>1, <1>4, <1>6

(* The sum with one element, and without it. *)
LEMMA AddingTakes ==
  ASSUME NEW S, NEW f, NEW k, IsFiniteSet(S), \A x \in S : f[x] \in Nat, k \in S
  PROVE  /\ Adding(f, S)[S \ {k}] \in Nat
         /\ Adding(f, S)[S] = f[k] + Adding(f, S)[S \ {k}]
<1>1. PICK g : g = Adding(f, S)
  OBVIOUS
<1>2. Adds(g, f, S)
  BY <1>1, AddingExists
<1>3. (\A s \in SUBSET S : g[s] \in Nat) /\ (\A x \in S : g[S] = f[x] + g[S \ {x}])
  BY <1>2, AddsValues
<1>4. PICK r : r = S \ {k}
  OBVIOUS
<1>5. r \in SUBSET S
  BY <1>4
<1>6. g[r] \in Nat /\ g[S] = f[k] + g[r]
  BY <1>3, <1>4, <1>5
<1> QED BY <1>1, <1>4, <1>6

(* The launches Total sums over. *)
OfGame(d) == {l \in Launches : Dir[l] = d}

LEMMA TotalIs ==
  ASSUME NEW f, NEW d
  PROVE  Total(f, d) = Adding(f, OfGame(d))[OfGame(d)]
BY DEF Total, Adding, Adds, OfGame, MapThenSumSet, MapThenFoldSet

(* A sum of numbers is a number, *)
LEMMA TotalType ==
  ASSUME NEW f, \A l \in Launches : f[l] \in Nat, NEW d
  PROVE  Total(f, d) \in Nat
<1>1. IsFiniteSet(OfGame(d)) /\ OfGame(d) \subseteq Launches
  BY RunnerSets, FS_Subset DEF OfGame
<1>2. Adds(Adding(f, OfGame(d)), f, OfGame(d))
  BY <1>1, AddingExists
<1>3. \A l \in OfGame(d) : f[l] \in Nat
  BY <1>1
<1>4. Adding(f, OfGame(d))[OfGame(d)] \in Nat
  BY <1>1, <1>2, <1>3, AddsValues
<1> QED BY <1>4, TotalIs

(* and changes by what one of them does. *)
LEMMA TotalStep ==
  ASSUME NEW f, NEW e, \A l \in Launches : f[l] \in Nat /\ e[l] \in Nat, NEW k \in Launches,
         \A l \in Launches \ {k} : f[l] = e[l]
  PROVE  /\ Total(e, Dir[k]) + f[k] = Total(f, Dir[k]) + e[k]
         /\ \A d : d # Dir[k] => Total(e, d) = Total(f, d)
<1>1. \A d : IsFiniteSet(OfGame(d)) /\ OfGame(d) \subseteq Launches
  BY RunnerSets, FS_Subset DEF OfGame
<1>2. \A d : Adds(Adding(f, OfGame(d)), f, OfGame(d)) /\ Adds(Adding(e, OfGame(d)), e, OfGame(d))
  BY <1>1, AddingExists
<1>3. ASSUME NEW d, d # Dir[k]
      PROVE  Total(e, d) = Total(f, d)
  <2>1. \A l \in OfGame(d) : f[l] = e[l]
    BY <1>3 DEF OfGame
  <2>2. Adding(f, OfGame(d))[OfGame(d)] = Adding(e, OfGame(d))[OfGame(d)]
    BY <1>1, <1>2, <2>1, AddsAgree
  <2> QED BY <2>2, TotalIs
<1>4. Total(e, Dir[k]) + f[k] = Total(f, Dir[k]) + e[k]
  <2> DEFINE S == OfGame(Dir[k])
             g == Adding(f, S)
             h == Adding(e, S)
             R == S \ {k}
  <2>1. IsFiniteSet(S) /\ S \subseteq Launches /\ k \in S
    BY <1>1 DEF OfGame
  <2>2. Adds(g, f, S) /\ Adds(h, e, S)
    BY <1>2
  <2>3. Total(f, Dir[k]) = g[S] /\ Total(e, Dir[k]) = h[S]
    BY TotalIs
  <2> HIDE DEF S, g, h
  <2>4. (\A l \in S : f[l] \in Nat /\ e[l] \in Nat) /\ R \in SUBSET S /\ S \in SUBSET S
    BY <2>1
  <2>5. \A l \in R : f[l] = e[l]
    BY <2>1
  <2>6. g[R] = h[R]
    <3> HIDE DEF R
    <3> QED BY <2>1, <2>2, <2>4, <2>5, AddsAgree
  <2>7. g[R] \in Nat /\ g[S] = f[k] + g[R]
    <3>1. \A l \in S : f[l] \in Nat
      BY <2>4
    <3> QED BY <2>1, <3>1, AddingTakes DEF g
  <2>8. h[R] \in Nat /\ h[S] = e[k] + h[R]
    <3>1. \A l \in S : e[l] \in Nat
      BY <2>4
    <3> QED BY <2>1, <3>1, AddingTakes DEF h
  <2>9. g[R] \in Nat /\ g[S] = f[k] + g[R] /\ h[S] = e[k] + h[R]
    BY <2>7, <2>8
  <2>10. PICK a, b, c \in Nat : a = f[k] /\ b = e[k] /\ c = g[R]
    BY <2>1, <2>4, <2>9
  <2>11. Total(f, Dir[k]) = a + c /\ Total(e, Dir[k]) = b + c
    BY <2>3, <2>6, <2>9, <2>10
  <2>12. (b + c) + a = (a + c) + b
    BY <2>10
  <2> QED BY <2>10, <2>11, <2>12
<1> QED BY <1>3, <1>4

-----------------------------------------------------------------------------
(* The playtime *)

(* All launches of the game so far were of one instance. *)
SoleProfile(d) ==
  \A k, l \in Launches : {Dir[k], Dir[l]} = {d} /\ "new" \notin {pc[k], pc[l]} => Instance(k) = Instance(l)

(* A flush under way still adds to what the profile has, or to less of it: with one profile exactly to it. *)
PlayInv ==
  /\ \A d \in Dirs :
       /\ playtime[d] + Total(unflushed, d) <= Total(played, d)
       /\ SoleProfile(d) => playtime[d] + Total(unflushed, d) = Total(played, d)
  /\ \A l \in Launches : flush[l].on =>
       /\ flush[l].seen + Total(unflushed, Dir[l]) <= Total(played, Dir[l])
       /\ SoleProfile(Dir[l]) => flush[l].seen = playtime[Dir[l]]

LEMMA PlayTypes ==
  ASSUME TypeOK
  PROVE  /\ \A d \in Dirs : playtime[d] \in Nat
         /\ \A l \in Launches : /\ Dir[l] \in Dirs
                                /\ unflushed[l] \in Nat /\ played[l] \in Nat
                                /\ flush[l].seen \in Nat /\ flush[l].delta \in Nat
         /\ \A d : Total(unflushed, d) \in Nat /\ Total(played, d) \in Nat
<1>1. \A l \in Launches : unflushed[l] \in Nat
  BY DEF TypeOK
<1>2. \A l \in Launches : played[l] \in Nat
  BY RunnerSets DEF TypeOK
<1>3. \A d : Total(unflushed, d) \in Nat
  BY <1>1, TotalType
<1>4. \A d : Total(played, d) \in Nat
  BY <1>2, TotalType
<1> QED BY <1>1, <1>2, <1>3, <1>4 DEF TypeOK, Dirs

(* No launch becomes one that was never made. *)
LEMMA UsedStays ==
  ASSUME NEW d, \A l \in Launches : pc'[l] = "new" => pc[l] = "new", SoleProfile(d)'
  PROVE  SoleProfile(d)
BY DEF SoleProfile, Instance

LEMMA PlayFrame ==
  ASSUME PlayInv, \A l \in Launches : pc'[l] = "new" => pc[l] = "new",
         playtime' = playtime, unflushed' = unflushed, played' = played, flush' = flush
  PROVE  PlayInv'
<1>1. \A d : SoleProfile(d)' => SoleProfile(d)
  BY UsedStays
<1> HIDE DEF SoleProfile
<1> QED BY <1>1 DEF PlayInv

(* The seconds not yet flushed and the seconds played grow, or shrink, together. *)
LEMMA PlayShift ==
  ASSUME TypeOK, TypeOK', PlayInv, \A l \in Launches : pc'[l] = "new" => pc[l] = "new",
         playtime' = playtime, flush' = flush, NEW k \in Launches,
         \A l \in Launches \ {k} : unflushed'[l] = unflushed[l] /\ played'[l] = played[l],
         played'[k] + unflushed[k] = played[k] + unflushed'[k]
  PROVE  PlayInv'
<1>1. \A d : SoleProfile(d)' => SoleProfile(d)
  BY UsedStays
<1>2. /\ \A l \in Launches : unflushed[l] \in Nat /\ unflushed'[l] \in Nat
      /\ \A l \in Launches : played[l] \in Nat /\ played'[l] \in Nat
      /\ \A d : Total(unflushed, d) \in Nat /\ Total(played, d) \in Nat
      /\ \A d : Total(unflushed', d) \in Nat /\ Total(played', d) \in Nat
      /\ \A d \in Dirs : playtime[d] \in Nat
      /\ \A l \in Launches : Dir[l] \in Dirs /\ flush[l].seen \in Nat
  <2>1. \A d : Total(unflushed', d) \in Nat
    <3>1. \A l \in Launches : unflushed'[l] \in Nat
      BY DEF TypeOK
    <3> QED BY <3>1, TotalType
  <2>2. \A d : Total(played', d) \in Nat
    <3>1. \A l \in Launches : played'[l] \in Nat
      BY RunnerSets DEF TypeOK
    <3> QED BY <3>1, TotalType
  <2>3. \A l \in Launches : unflushed'[l] \in Nat /\ played'[l] \in Nat
    BY RunnerSets DEF TypeOK
  <2> QED BY <2>1, <2>2, <2>3, PlayTypes
<1>3. /\ Total(unflushed', Dir[k]) + unflushed[k] = Total(unflushed, Dir[k]) + unflushed'[k]
      /\ \A d : d # Dir[k] => Total(unflushed', d) = Total(unflushed, d)
  <2>1. \A l \in Launches : unflushed[l] \in Nat /\ unflushed'[l] \in Nat
    BY <1>2
  <2>2. \A l \in Launches \ {k} : unflushed[l] = unflushed'[l]
    OBVIOUS
  <2> QED BY <2>1, <2>2, TotalStep
<1>4. /\ Total(played', Dir[k]) + played[k] = Total(played, Dir[k]) + played'[k]
      /\ \A d : d # Dir[k] => Total(played', d) = Total(played, d)
  <2>1. \A l \in Launches : played[l] \in Nat /\ played'[l] \in Nat
    BY <1>2
  <2>2. \A l \in Launches \ {k} : played[l] = played'[l]
    OBVIOUS
  <2> QED BY <2>1, <2>2, TotalStep
<1>5. \A d : Total(unflushed', d) + Total(played, d) = Total(unflushed, d) + Total(played', d)
  <2> TAKE d
  <2>1. CASE d = Dir[k]
    BY <1>2, <1>3, <1>4, <2>1
  <2>2. CASE d # Dir[k]
    BY <1>2, <1>3, <1>4, <2>2
  <2> QED BY <2>1, <2>2
<1> HIDE DEF SoleProfile
<1>6. ASSUME NEW d \in Dirs
      PROVE  /\ playtime'[d] + Total(unflushed', d) <= Total(played', d)
             /\ SoleProfile(d)' => playtime'[d] + Total(unflushed', d) = Total(played', d)
  <2>1. Total(unflushed', d) + Total(played, d) = Total(unflushed, d) + Total(played', d)
    BY <1>5
  <2> QED BY <1>1, <1>2, <2>1 DEF PlayInv
<1>7. ASSUME NEW l \in Launches, flush'[l].on
      PROVE  /\ flush'[l].seen + Total(unflushed', Dir[l]) <= Total(played', Dir[l])
             /\ SoleProfile(Dir[l])' => flush'[l].seen = playtime'[Dir[l]]
  <2>1. Total(unflushed', Dir[l]) + Total(played, Dir[l]) = Total(unflushed, Dir[l]) + Total(played', Dir[l])
    BY <1>5
  <2>2. /\ flush[l].seen + Total(unflushed, Dir[l]) <= Total(played, Dir[l])
        /\ SoleProfile(Dir[l])' => flush[l].seen = playtime[Dir[l]]
    BY <1>1, <1>7 DEF PlayInv
  <2> QED BY <1>2, <2>1, <2>2
<1> QED BY <1>6, <1>7 DEF PlayInv

LEMMA InitPlay == Init => PlayInv
<1> SUFFICES ASSUME Init PROVE PlayInv
  OBVIOUS
<1>1. \A d : Total(unflushed, d) = Total(played, d)
  <2>1. unflushed = played
    BY DEF Init
  <2> QED BY <2>1
<1>2. \A d : Total(played, d) \in Nat
  BY InitType, PlayTypes
<1> QED BY <1>1, <1>2 DEF Init, PlayInv, NoFlush

(* Saving what a flush has read takes the seconds it adds from those that wait. *)
LEMMA StepFlushWrite ==
  ASSUME TypeOK, TypeOK', ClockInv, SameInstance, PlayInv, NEW k \in Launches, FlushWrite(k)
  PROVE  PlayInv'
<1>0. \A l \in Launches : pc'[l] = "new" => pc[l] = "new"
  BY DEF FlushWrite, TypeOK
<1>1. \A d : SoleProfile(d)' => SoleProfile(d)
  BY <1>0, UsedStays
<1>2. /\ flush[k].on /\ flush[k].delta <= unflushed[k] /\ pc[k] \in {"waiting", "watching", "last"}
      /\ played' = played /\ flush' = [flush EXCEPT ![k] = NoFlush]
  BY DEF FlushWrite, ClockInv
<1>3. \A l \in Launches : flush'[l].on => l # k /\ flush[l].on /\ flush'[l] = flush[l]
  BY <1>2 DEF TypeOK, NoFlush
<1>4. CASE playtime' = playtime /\ unflushed' = unflushed
  <2> HIDE DEF SoleProfile
  <2> QED BY <1>1, <1>2, <1>3, <1>4 DEF PlayInv
<1>5. CASE /\ playtime' = [playtime EXCEPT ![Dir[k]] = Merged(k)]
           /\ unflushed' = [unflushed EXCEPT ![k] = @ - flush[k].delta]
  <2>1. Dir[k] \in Dirs /\ playtime'[Dir[k]] = Merged(k) /\ \A d \in Dirs \ {Dir[k]} : playtime'[d] = playtime[d]
    BY <1>5, PlayTypes DEF TypeOK
  <2>2. unflushed'[k] = unflushed[k] - flush[k].delta /\ \A l \in Launches \ {k} : unflushed'[l] = unflushed[l]
    BY <1>5 DEF TypeOK
  <2>3. \A l \in Launches : unflushed[l] \in Nat /\ unflushed'[l] \in Nat
    BY DEF TypeOK
  <2>4. /\ Total(unflushed', Dir[k]) + unflushed[k] = Total(unflushed, Dir[k]) + unflushed'[k]
        /\ \A d : d # Dir[k] => Total(unflushed', d) = Total(unflushed, d)
    <3>1. \A l \in Launches \ {k} : unflushed[l] = unflushed'[l]
      BY <2>2
    <3> QED BY <2>3, <3>1, TotalStep
  <2>5. \A d : Total(unflushed', d) \in Nat
    BY <2>3, TotalType
  <2>6. /\ \A d \in Dirs : playtime[d] \in Nat
        /\ flush[k].seen \in Nat /\ flush[k].delta \in Nat /\ unflushed[k] \in Nat
        /\ \A l \in Launches : Dir[l] \in Dirs /\ flush[l].seen \in Nat
        /\ \A d : Total(unflushed, d) \in Nat /\ Total(played, d) \in Nat
    BY PlayTypes
  <2>7. Total(unflushed', Dir[k]) + flush[k].delta = Total(unflushed, Dir[k])
    BY <2>2, <2>3, <2>4, <2>5, <2>6
  <2>8. /\ flush[k].seen + Total(unflushed, Dir[k]) <= Total(played, Dir[k])
        /\ SoleProfile(Dir[k]) => flush[k].seen = playtime[Dir[k]]
        /\ playtime[Dir[k]] + Total(unflushed, Dir[k]) <= Total(played, Dir[k])
        /\ SoleProfile(Dir[k]) => playtime[Dir[k]] + Total(unflushed, Dir[k]) = Total(played, Dir[k])
    BY <1>2, <2>1 DEF PlayInv
  <2>9. Merged(k) = flush[k].seen + flush[k].delta \/ (Merged(k) = playtime[Dir[k]] /\ flush[k].delta = 0)
    BY <2>6 DEF Merged
  <2>10. ASSUME NEW d \in Dirs
         PROVE  /\ playtime'[d] + Total(unflushed', d) <= Total(played', d)
                /\ SoleProfile(d)' => playtime'[d] + Total(unflushed', d) = Total(played', d)
    <3> HIDE DEF SoleProfile
    <3>1. CASE d = Dir[k]
      <4>1. \/ playtime'[d] = flush[k].seen + flush[k].delta
            \/ playtime'[d] = playtime[d] /\ flush[k].delta = 0
        BY <2>1, <2>9, <3>1
      <4> QED BY <1>1, <1>2, <2>5, <2>6, <2>7, <2>8, <3>1, <4>1
    <3>2. CASE d # Dir[k]
      BY <1>1, <1>2, <2>1, <2>4, <3>2 DEF PlayInv
    <3> QED BY <3>1, <3>2
  <2>11. ASSUME NEW l \in Launches, flush'[l].on
         PROVE  /\ flush'[l].seen + Total(unflushed', Dir[l]) <= Total(played', Dir[l])
                /\ SoleProfile(Dir[l])' => flush'[l].seen = playtime'[Dir[l]]
    <3>1. l # k /\ flush[l].on /\ flush'[l] = flush[l] /\ pc[l] \in {"waiting", "watching", "last"}
      BY <1>3, <2>11 DEF ClockInv
    <3>2. /\ flush[l].seen + Total(unflushed, Dir[l]) <= Total(played, Dir[l])
          /\ SoleProfile(Dir[l])' => flush[l].seen = playtime[Dir[l]]
      <4> HIDE DEF SoleProfile
      <4> QED BY <1>1, <3>1 DEF PlayInv
    <3>3. CASE Dir[l] = Dir[k]
      <4>1. ~SoleProfile(Dir[l])
        BY <1>2, <3>1, <3>3 DEF SoleProfile, SameInstance, Over
      <4> HIDE DEF SoleProfile
      <4> QED BY <1>1, <1>2, <2>5, <2>6, <2>7, <3>1, <3>2, <3>3, <4>1
    <3>4. CASE Dir[l] # Dir[k]
      <4> HIDE DEF SoleProfile
      <4> QED BY <1>2, <2>1, <2>4, <2>6, <3>1, <3>2, <3>4
    <3> QED BY <3>3, <3>4
  <2> HIDE DEF SoleProfile
  <2> QED BY <2>10, <2>11 DEF PlayInv
<1> QED BY <1>4, <1>5 DEF FlushWrite

LEMMA StepPlay == TypeOK /\ TypeOK' /\ ClockInv /\ SameInstance /\ PlayInv /\ [Next]_vars => PlayInv'
<1> SUFFICES ASSUME TypeOK, TypeOK', ClockInv, SameInstance, PlayInv, [Next]_vars PROVE PlayInv'
  OBVIOUS
<1>0. CASE UNCHANGED vars
  <2>1. playtime' = playtime /\ unflushed' = unflushed /\ played' = played /\ flush' = flush /\ pc' = pc
    BY <1>0 DEF vars, timeVars
  <2> QED BY <2>1, PlayFrame
<1>1. ASSUME NEW l \in Launches, Prepare(l) PROVE PlayInv'
  <2>1. playtime' = playtime /\ flush' = flush /\ \A k \in Launches : pc'[k] = "new" => pc[k] = "new"
    BY <1>1 DEF Prepare, TypeOK
  <2>2. \A k \in Launches \ {l} : unflushed'[k] = unflushed[k] /\ played'[k] = played[k]
    BY <1>1 DEF Prepare, TypeOK
  <2>3. unflushed'[l] = 0 /\ played'[l] = played[l] - unflushed[l] /\ unflushed[l] \in Nat /\ played[l] \in Nat
    BY <1>1, PlayTypes DEF Prepare, TypeOK
  <2>4. played'[l] + unflushed[l] = played[l] + unflushed'[l]
    BY <2>3
  <2> QED BY <2>1, <2>2, <2>4, PlayShift
<1>2. ASSUME NEW l \in Launches, Tick(l) PROVE PlayInv'
  <2>1. playtime' = playtime /\ flush' = flush /\ \A k \in Launches : pc'[k] = "new" => pc[k] = "new"
    BY <1>2 DEF Tick
  <2>2. \A k \in Launches \ {l} : unflushed'[k] = unflushed[k] /\ played'[k] = played[k]
    BY <1>2 DEF Tick, TypeOK
  <2>3. unflushed'[l] = unflushed[l] + 1 /\ played'[l] = played[l] + 1 /\ unflushed[l] \in Nat /\ played[l] \in Nat
    BY <1>2, PlayTypes DEF Tick, TypeOK
  <2>4. played'[l] + unflushed[l] = played[l] + unflushed'[l]
    BY <2>3
  <2> QED BY <2>1, <2>2, <2>4, PlayShift
<1>3. ASSUME NEW l \in Launches, FlushRead(l) PROVE PlayInv'
  <2>1. playtime' = playtime /\ unflushed' = unflushed /\ played' = played /\ pc' = pc
    BY <1>3 DEF FlushRead
  <2>2. \A k \in Launches : /\ k # l => flush'[k] = flush[k]
                            /\ k = l => flush'[k].seen = playtime[Dir[k]]
    BY <1>3 DEF FlushRead, TypeOK
  <2>3. \A d : SoleProfile(d)' => SoleProfile(d)
    BY <2>1, UsedStays
  <2>4. \A k \in Launches : Dir[k] \in Dirs
    BY DEF Dirs
  <2> HIDE DEF SoleProfile
  <2> QED BY <2>1, <2>2, <2>3, <2>4 DEF PlayInv
<1>4. ASSUME NEW l \in Launches, FlushWrite(l) PROVE PlayInv'
  BY <1>4, StepFlushWrite
<1>5. CASE Crash
  <2>1. /\ playtime' = playtime /\ unflushed' = unflushed /\ played' = played
        /\ \A k \in Launches : pc'[k] = "new" => pc[k] = "new"
        /\ \A k \in Launches : ~flush'[k].on
    BY <1>5 DEF Crash, TypeOK, NoFlush
  <2>2. \A d : SoleProfile(d)' => SoleProfile(d)
    BY <2>1, UsedStays
  <2> HIDE DEF SoleProfile
  <2> QED BY <2>1, <2>2 DEF PlayInv
<1>6. ASSUME NEW l \in Launches, LaunchFails(l) \/ Launch(l) \/ Register(l) \/ PublishLaunched(l)
      PROVE  PlayInv'
  <2>1. UNCHANGED timeVars /\ \A k \in Launches : pc'[k] = "new" => pc[k] = "new"
    BY <1>6 DEF LaunchFails, Launch, Register, PublishLaunched, TypeOK
  <2> QED BY <2>1, PlayFrame DEF timeVars
<1>7. ASSUME NEW l \in Launches, Supervise(l) PROVE PlayInv'
  <2>1. UNCHANGED timeVars
    BY <1>7 DEF Supervise, WaitCancelled, WaitDone, WatchEnds, Terminate, Cleanup, Remove, PublishExited
  <2>2. \A k \in Launches : pc'[k] = "new" => pc[k] = "new"
    BY <1>7 DEF Supervise, WaitCancelled, WaitDone, WatchEnds, Terminate, Cleanup, Remove, PublishExited, TypeOK
  <2> QED BY <2>1, <2>2, PlayFrame DEF timeVars
<1>8. ASSUME NEW l \in Launches, ProcessExits(l) \/ ChildrenExit(l) \/ StopCancel(l) \/ StopKill(l)
      PROVE  PlayInv'
  <2>1. UNCHANGED timeVars /\ pc' = pc
    BY <1>8 DEF ProcessExits, ChildrenExit, StopCancel, StopKill
  <2> QED BY <2>1, PlayFrame DEF timeVars
<1>9. ASSUME NEW d \in Dirs, Stop(d) PROVE PlayInv'
  <2>1. UNCHANGED timeVars /\ pc' = pc
    BY <1>9 DEF Stop
  <2> QED BY <2>1, PlayFrame DEF timeVars
<1>10. ASSUME NEW i \in Instances, StopInstance(i) PROVE PlayInv'
  <2>1. UNCHANGED timeVars /\ pc' = pc
    BY <1>10 DEF StopInstance
  <2> QED BY <2>1, PlayFrame DEF timeVars
<1> QED BY <1>0, <1>1, <1>2, <1>3, <1>4, <1>5, <1>6, <1>7, <1>8, <1>9, <1>10 DEF Next, Starting

-----------------------------------------------------------------------------
(* The types of the manager's table, the supervisors, ~/.steam and the playtime in the profiles: in particular no     *)
(* flush takes more seconds off than have been played.                                                                *)
THEOREM RunnerTypes == Spec => []TypeOK
<1> QED BY InitType, StepType, PTL DEF Spec

(* While launches of one instance are kept apart, a running game can be stopped: between Register and OnExit the table *)
(* leads to it, and once OnExit has taken its entry away it has no processes, or the call of stopProcess that           *)
(* cancelled its supervisor is still there to kill them.                                                               *)
THEOREM GamesAttended ==
  ASSUME "instance" \in Apart
  PROVE  Spec => []Attended
<1>1. TypeOK /\ TableInv /\ ShownInv => Attended
  BY DEF TypeOK, TableInv, ShownInv, Attended, TableExact, NoneLeftBehind
<1>2. TypeOK /\ ApartInv => SameInstance
  BY OneAtATime
<1> QED BY <1>1, <1>2, InitType, StepType, InitApart, StepApart, InitTable, StepTable,
   StepShown, PTL DEF Spec

(* While loader launches in one home are kept apart, PrepareLinuxSteamEnvironment and its cleanup never lose the user's *)
(* own Steam client, whenever gamux is killed and games are started again, and without a kill ~/.steam is as it was     *)
(* when the last game has ended.                                                                                       *)
THEOREM SteamReturned ==
  ASSUME "home" \in Apart
  PROVE  Spec => []SteamSafe
<1>1. SteamInv => SteamSafe
  BY DEF SteamInv, HomeOk, SteamSafe, SteamKept, SteamRestored, Free
<1>2. ApartInv => SameHome
  BY OneInAHome
<1>3. TypeOK /\ ClockInv /\ SameHome /\ SteamInv /\ [Next]_vars => SteamInv'
  BY StepSteam
<1> QED BY <1>1, <1>2, <1>3, InitType, StepType, InitApart, StepApart, InitSteam, PTL
   DEF Spec

(* While launches of one instance are kept apart, no second is counted twice in PlaytimeSeconds, whatever saves fail,  *)
(* overlap or are cut off, and as long as only one profile of the game was used none is lost either: a flush under way *)
(* has read what the profile still has (IncrementPlaytime), and takes as many seconds from those that wait as it adds.   *)
THEOREM PlaytimeCounted ==
  ASSUME "instance" \in Apart
  PROVE  Spec => []PlaytimeHonest
<1>1. PlayInv => PlaytimeHonest
  BY DEF PlayInv, PlaytimeHonest, SoleProfile
<1>2. TypeOK /\ ApartInv => SameInstance
  BY OneAtATime
<1> QED BY <1>1, <1>2, InitType, StepType, InitApart, StepApart, InitPlay, StepPlay, PTL DEF Spec
====
