--------------------------- MODULE MultiseatProofs ---------------------------
(***************************************************************************)
(* Proofs about the sessions of several seats: the display's scale, the    *)
(* grabbed devices and the processes are all given back.  For any games,   *)
(* seats, devices and number of sessions.                                  *)
(***************************************************************************)
EXTENDS Multiseat, TLAPS

Numbers == {0} \cup Sessions
Calls == {"new", "checked", "locking", "preparing", "cleaning", "restoring", "failed", "launched"}
Processes == {"none", "running", "signalled", "exited"}

SeatTypes ==
  /\ sessions \in [Games -> Numbers]
  /\ game \in [Sessions -> Games]
  /\ pc \in [Sessions -> Calls]
  /\ prepared \in [Sessions -> SUBSET Seats]
  /\ proc \in [Sessions -> [Seats -> Processes]]
  /\ holder \in [AllDevices -> Numbers]
  /\ sink \in [Seats -> Numbers]
  /\ stop \in [Sessions -> {"no", "stopping", "restoring", "done"}]
  /\ todo \in [Sessions -> SUBSET Seats]
  /\ sup \in [Sessions -> {"no", "waiting", "done"}]
  /\ handled \in [Sessions -> SUBSET Seats]
  /\ scale \in {"own", "one"}

LEMMA ZeroNoSession == 0 \notin Sessions
BY MultiseatSets DEF Sessions

LEMMA TypesInit == Init => SeatTypes
BY DEF Init, SeatTypes, Numbers, Calls, Processes


(* What prepareSeat does: the seat is prepared with at least one of its devices, if it has any, or the launch fails. *)
SeatPrepared(n, s) ==
  /\ prepared' = [prepared EXCEPT ![n] = @ \cup {s}]
  /\ pc' = pc
  /\ \A d \in AllDevices : holder'[d] = holder[d] \/ (holder'[d] = n /\ holder[d] = 0 /\ d \in Devices[s])
  /\ Devices[s] # {} => \E d \in Devices[s] : holder'[d] = n

LEMMA PrepareOutcome ==
  ASSUME SeatTypes, NEW n \in Sessions, NEW s \in Seats, Prepare(n, s)
  PROVE  /\ SeatPrepared(n, s) \/ (pc' = [pc EXCEPT ![n] = "cleaning"] /\ prepared' = prepared /\ holder' = holder)
         /\ holder' \in [AllDevices -> Numbers] /\ sink' \in [Seats -> Numbers]
<1>1. ASSUME NEW grabs \in SUBSET Grabbable(s), grabs # {} \/ Devices[s] = {}, pc' = pc,
             holder' = [d \in AllDevices |-> IF d \in grabs THEN n ELSE holder[d]],
             prepared' = [prepared EXCEPT ![n] = @ \cup {s}]
      PROVE  SeatPrepared(n, s) /\ holder' \in [AllDevices -> Numbers]
  <2>1. Devices[s] \subseteq AllDevices /\ grabs \subseteq Devices[s] /\ \A d \in grabs : holder[d] = 0
    BY <1>1 DEF AllDevices, Grabbable
  <2>2. \A d \in AllDevices : holder'[d] = IF d \in grabs THEN n ELSE holder[d]
    BY <1>1
  <2>3. holder' \in [AllDevices -> Numbers]
    BY <1>1 DEF SeatTypes, Numbers
  <2> QED BY <1>1, <2>1, <2>2, <2>3 DEF SeatPrepared
<1>2. sink' \in [Seats -> Numbers]
  BY DEF Prepare, Destroyed, SeatTypes, Numbers
<1>3. CASE pc' = [pc EXCEPT ![n] = "cleaning"] /\ holder' = holder /\ prepared' = prepared
  BY <1>2, <1>3 DEF SeatTypes
<1>4. CASE ~(pc' = [pc EXCEPT ![n] = "cleaning"] /\ holder' = holder /\ prepared' = prepared)
  <2>1. PICK grabs \in SUBSET Grabbable(s) :
           /\ grabs # {} \/ Devices[s] = {}
           /\ holder' = [d \in AllDevices |-> IF d \in grabs THEN n ELSE holder[d]]
           /\ prepared' = [prepared EXCEPT ![n] = @ \cup {s}]
           /\ pc' = pc
    BY <1>4 DEF Prepare
  <2> QED BY <1>1, <1>2, <2>1
<1> QED BY <1>3, <1>4

LEMMA TypesStep == SeatTypes /\ [Next]_vars => SeatTypes'
<1> SUFFICES ASSUME SeatTypes, [Next]_vars PROVE SeatTypes'
  OBVIOUS
<1>0. CASE UNCHANGED vars
  BY <1>0 DEF vars, launchVars, stopVars, supVars, scaleVars, SeatTypes
<1>1. CASE Crash
  BY <1>1 DEF Crash, NewProcess, SeatTypes, Numbers, Calls, Processes
<1>2. CASE StopAll
  BY <1>2 DEF StopAll, launchVars, stopVars, supVars, scaleVars, SeatTypes
<1>3. CASE Quit
  BY <1>3 DEF Quit, NewProcess, SeatTypes, Numbers, Calls, Processes
<1>4. ASSUME NEW g \in Games, Stop(g) PROVE SeatTypes'
  BY <1>4 DEF Stop, TakenOut, launchVars, supVars, scaleVars, SeatTypes, Numbers
<1>5. ASSUME NEW g \in Games, NEW s \in Seats, StopSeat(g, s) PROVE SeatTypes'
  BY <1>5 DEF StopSeat, EndSeat, Released, Destroyed, Signalled, launchVars, stopVars,
     supVars, scaleVars, SeatTypes, Numbers, Processes
<1>6. ASSUME NEW n \in Sessions, Check(n) PROVE SeatTypes'
  BY <1>6 DEF Check, stopVars, supVars, scaleVars, SeatTypes, Calls
<1>7. ASSUME NEW n \in Sessions, LockRecord(n) PROVE SeatTypes'
  BY <1>7 DEF LockRecord, stopVars, supVars, SeatTypes, Calls
<1>8. ASSUME NEW n \in Sessions, LockApply(n) PROVE SeatTypes'
  BY <1>8 DEF LockApply, stopVars, supVars, SeatTypes, Calls
<1>9. ASSUME NEW n \in Sessions, CleanCheck(n) PROVE SeatTypes'
  BY <1>9 DEF CleanCheck, stopVars, supVars, scaleVars, SeatTypes, Calls
<1>10. ASSUME NEW n \in Sessions, CleanRestore(n) PROVE SeatTypes'
  BY <1>10 DEF CleanRestore, Restore, stopVars, supVars, SeatTypes, Calls
<1>11. ASSUME NEW n \in Sessions, Register(n) PROVE SeatTypes'
  BY <1>11 DEF Register, stopVars, scaleVars, SeatTypes, Numbers, Calls
<1>12. ASSUME NEW n \in Sessions, StopCheck(n) PROVE SeatTypes'
  BY <1>12 DEF StopCheck, launchVars, supVars, scaleVars, SeatTypes
<1>13. ASSUME NEW n \in Sessions, StopRestore(n) PROVE SeatTypes'
  BY <1>13 DEF StopRestore, Restore, launchVars, supVars, SeatTypes
<1>14. ASSUME NEW n \in Sessions, Finish(n) PROVE SeatTypes'
  BY <1>14 DEF Finish, TakenOut, launchVars, scaleVars, SeatTypes, Numbers
<1>15. ASSUME NEW n \in Sessions, NEW s \in Seats, Prepare(n, s) PROVE SeatTypes'
  <2>1. /\ pc[n] = "preparing" /\ s \notin prepared[n] /\ holder' \in [AllDevices -> Numbers] /\ sink' \in [Seats -> Numbers]
        /\ UNCHANGED <<sessions, game, proc, stopVars, supVars, scaleVars, quitting, restarts>>
    BY <1>15, PrepareOutcome DEF Prepare
  <2>2. CASE SeatPrepared(n, s)
    BY <2>1, <2>2 DEF SeatPrepared, stopVars, supVars, scaleVars, SeatTypes
  <2>3. CASE pc' = [pc EXCEPT ![n] = "cleaning"] /\ prepared' = prepared /\ holder' = holder
    BY <2>1, <2>3 DEF stopVars, supVars, scaleVars, SeatTypes, Calls
  <2> QED BY <1>15, <2>2, <2>3, PrepareOutcome
<1>16. ASSUME NEW n \in Sessions, NEW s \in Seats, Start(n, s) PROVE SeatTypes'
  <2>1. CASE proc' = [proc EXCEPT ![n][s] = "running"] /\ UNCHANGED pc
    BY <1>16, <2>1 DEF Start, stopVars, supVars, scaleVars, SeatTypes, Processes
  <2>2. CASE pc' = [pc EXCEPT ![n] = "cleaning"] /\ UNCHANGED proc
    BY <1>16, <2>2 DEF Start, stopVars, supVars, scaleVars, SeatTypes, Calls
  <2> QED BY <1>16, <2>1, <2>2 DEF Start
<1>17. ASSUME NEW n \in Sessions, NEW s \in Seats, CleanSeat(n, s) PROVE SeatTypes'
  BY <1>17 DEF CleanSeat, Released, Destroyed, stopVars, supVars, scaleVars, SeatTypes,
     Numbers, Processes
<1>18. ASSUME NEW n \in Sessions, NEW s \in Seats, Exit(n, s) PROVE SeatTypes'
  BY <1>18 DEF Exit, launchVars, stopVars, supVars, scaleVars, SeatTypes, Processes
<1>19. ASSUME NEW n \in Sessions, NEW s \in Seats, StopSessionSeat(n, s) PROVE SeatTypes'
  BY <1>19 DEF StopSessionSeat, EndSeat, Released, Destroyed, Signalled, launchVars,
     supVars, scaleVars, SeatTypes, Numbers, Processes
<1>20. ASSUME NEW n \in Sessions, NEW s \in Seats, HandleExit(n, s) PROVE SeatTypes'
  BY <1>20 DEF HandleExit, Released, Destroyed, launchVars, stopVars, scaleVars,
     SeatTypes, Numbers
<1> QED BY <1>0, <1>1, <1>2, <1>3, <1>4, <1>5, <1>6, <1>7, <1>8, <1>9, <1>10, <1>11,
   <1>12, <1>13, <1>14, <1>15, <1>16, <1>17, <1>18, <1>19, <1>20 DEF Next

(* Where a session is in its life: only one that was launched is in the table, supervised or stopped; processes are   *)
(* started once every seat is prepared.                                                                              *)
LinkInv ==
  \A n \in Sessions :
    /\ (stop[n] # "no" \/ sup[n] # "no" \/ handled[n] # {}) => pc[n] = "launched"
    /\ \A g \in Games : sessions[g] = n => pc[n] = "launched" /\ game[n] = g
    /\ sup[n] = "done" => handled[n] = Seats
    /\ \A s \in Seats : proc[n][s] # "none" =>
         pc[n] \in {"preparing", "cleaning", "restoring", "failed", "launched"} /\ (pc[n] = "preparing" => prepared[n] = Seats)

LEMMA LinkInit == Init => LinkInv
BY ZeroNoSession DEF Init, LinkInv

LEMMA LinkStep == SeatTypes /\ LinkInv /\ [Next]_vars => LinkInv'
<1> SUFFICES ASSUME SeatTypes, LinkInv, [Next]_vars PROVE LinkInv'
  OBVIOUS
<1>0. CASE UNCHANGED vars
  BY <1>0 DEF vars, launchVars, stopVars, supVars, LinkInv, SeatTypes
<1>1. CASE Crash
  BY <1>1, ZeroNoSession DEF Crash, NewProcess, LinkInv, SeatTypes
<1>2. CASE StopAll
  BY <1>2 DEF StopAll, launchVars, stopVars, supVars, LinkInv, SeatTypes
<1>3. CASE Quit
  BY <1>3, ZeroNoSession DEF Quit, NewProcess, LinkInv, SeatTypes
<1>4. ASSUME NEW g \in Games, Stop(g) PROVE LinkInv'
  BY <1>4, ZeroNoSession DEF Stop, TakenOut, launchVars, supVars, LinkInv, SeatTypes
<1>5. ASSUME NEW g \in Games, NEW s \in Seats, StopSeat(g, s) PROVE LinkInv'
  BY <1>5 DEF StopSeat, EndSeat, Released, Destroyed, Signalled, launchVars, stopVars,
     supVars, LinkInv, SeatTypes
<1>6. ASSUME NEW n \in Sessions, Check(n) PROVE LinkInv'
  BY <1>6 DEF Check, stopVars, supVars, LinkInv, SeatTypes
<1>7. ASSUME NEW n \in Sessions, LockRecord(n) PROVE LinkInv'
  BY <1>7 DEF LockRecord, stopVars, supVars, LinkInv, SeatTypes, Numbers
<1>8. ASSUME NEW n \in Sessions, LockApply(n) PROVE LinkInv'
  BY <1>8 DEF LockApply, stopVars, supVars, LinkInv, SeatTypes
<1>9. ASSUME NEW n \in Sessions, CleanCheck(n) PROVE LinkInv'
  BY <1>9 DEF CleanCheck, stopVars, supVars, LinkInv, SeatTypes
<1>10. ASSUME NEW n \in Sessions, CleanRestore(n) PROVE LinkInv'
  BY <1>10 DEF CleanRestore, Restore, stopVars, supVars, LinkInv, SeatTypes
<1>11. ASSUME NEW n \in Sessions, Register(n) PROVE LinkInv'
  BY <1>11 DEF Register, stopVars, LinkInv, SeatTypes
<1>12. ASSUME NEW n \in Sessions, StopCheck(n) PROVE LinkInv'
  BY <1>12 DEF StopCheck, launchVars, supVars, LinkInv, SeatTypes
<1>13. ASSUME NEW n \in Sessions, StopRestore(n) PROVE LinkInv'
  BY <1>13 DEF StopRestore, Restore, launchVars, supVars, LinkInv, SeatTypes
<1>14. ASSUME NEW n \in Sessions, Finish(n) PROVE LinkInv'
  BY <1>14, ZeroNoSession DEF Finish, TakenOut, launchVars, LinkInv, SeatTypes
<1>15. ASSUME NEW n \in Sessions, NEW s \in Seats, Prepare(n, s) PROVE LinkInv'
  <2>1. /\ pc[n] = "preparing" /\ s \notin prepared[n] /\ holder' \in [AllDevices -> Numbers] /\ sink' \in [Seats -> Numbers]
        /\ UNCHANGED <<sessions, game, proc, stopVars, supVars, scaleVars, quitting, restarts>>
    BY <1>15, PrepareOutcome DEF Prepare
  <2>2. CASE SeatPrepared(n, s)
    BY <2>1, <2>2 DEF SeatPrepared, stopVars, supVars, LinkInv, SeatTypes
  <2>3. CASE pc' = [pc EXCEPT ![n] = "cleaning"] /\ prepared' = prepared /\ holder' = holder
    BY <2>1, <2>3 DEF stopVars, supVars, LinkInv, SeatTypes
  <2> QED BY <1>15, <2>2, <2>3, PrepareOutcome
<1>16. ASSUME NEW n \in Sessions, NEW s \in Seats, Start(n, s) PROVE LinkInv'
  <2>1. CASE proc' = [proc EXCEPT ![n][s] = "running"] /\ UNCHANGED pc
    BY <1>16, <2>1 DEF Start, stopVars, supVars, LinkInv, SeatTypes
  <2>2. CASE pc' = [pc EXCEPT ![n] = "cleaning"] /\ UNCHANGED proc
    BY <1>16, <2>2 DEF Start, stopVars, supVars, LinkInv, SeatTypes
  <2> QED BY <1>16, <2>1, <2>2 DEF Start
<1>17. ASSUME NEW n \in Sessions, NEW s \in Seats, CleanSeat(n, s) PROVE LinkInv'
  BY <1>17 DEF CleanSeat, Released, Destroyed, stopVars, supVars, LinkInv, SeatTypes
<1>18. ASSUME NEW n \in Sessions, NEW s \in Seats, Exit(n, s) PROVE LinkInv'
  BY <1>18 DEF Exit, launchVars, stopVars, supVars, LinkInv, SeatTypes
<1>19. ASSUME NEW n \in Sessions, NEW s \in Seats, StopSessionSeat(n, s) PROVE LinkInv'
  BY <1>19 DEF StopSessionSeat, EndSeat, Released, Destroyed, Signalled, launchVars,
     supVars, LinkInv, SeatTypes
<1>20. ASSUME NEW n \in Sessions, NEW s \in Seats, HandleExit(n, s) PROVE LinkInv'
  BY <1>20 DEF HandleExit, Released, Destroyed, launchVars, stopVars, LinkInv, SeatTypes
<1> QED BY <1>0, <1>1, <1>2, <1>3, <1>4, <1>5, <1>6, <1>7, <1>8, <1>9, <1>10, <1>11,
   <1>12, <1>13, <1>14, <1>15, <1>16, <1>17, <1>18, <1>19, <1>20 DEF Next

(* A call that has not come to its seats has prepared none. *)
FreshInv == \A n \in Sessions : pc[n] \in {"new", "checked", "locking"} => prepared[n] = {}

LEMMA FreshInit == Init => FreshInv
BY DEF Init, FreshInv

LEMMA FreshStep == SeatTypes /\ FreshInv /\ [Next]_vars => FreshInv'
<1> SUFFICES ASSUME SeatTypes, FreshInv, [Next]_vars PROVE FreshInv'
  OBVIOUS
<1>0. CASE UNCHANGED vars
  BY <1>0 DEF vars, launchVars, FreshInv, SeatTypes
<1>1. CASE Crash
  BY <1>1 DEF Crash, NewProcess, FreshInv, SeatTypes
<1>2. CASE StopAll
  BY <1>2 DEF StopAll, launchVars, FreshInv, SeatTypes
<1>3. CASE Quit
  BY <1>3 DEF Quit, NewProcess, FreshInv, SeatTypes
<1>4. ASSUME NEW g \in Games, Stop(g) PROVE FreshInv'
  BY <1>4 DEF Stop, TakenOut, launchVars, FreshInv, SeatTypes
<1>5. ASSUME NEW g \in Games, NEW s \in Seats, StopSeat(g, s) PROVE FreshInv'
  BY <1>5 DEF StopSeat, EndSeat, Released, Destroyed, Signalled, launchVars, FreshInv,
     SeatTypes
<1>6. ASSUME NEW n \in Sessions, Check(n) PROVE FreshInv'
  BY <1>6 DEF Check, FreshInv, SeatTypes
<1>7. ASSUME NEW n \in Sessions, LockRecord(n) PROVE FreshInv'
  BY <1>7 DEF LockRecord, FreshInv, SeatTypes
<1>8. ASSUME NEW n \in Sessions, LockApply(n) PROVE FreshInv'
  BY <1>8 DEF LockApply, FreshInv, SeatTypes
<1>9. ASSUME NEW n \in Sessions, CleanCheck(n) PROVE FreshInv'
  BY <1>9 DEF CleanCheck, FreshInv, SeatTypes
<1>10. ASSUME NEW n \in Sessions, CleanRestore(n) PROVE FreshInv'
  BY <1>10 DEF CleanRestore, Restore, FreshInv, SeatTypes
<1>11. ASSUME NEW n \in Sessions, Register(n) PROVE FreshInv'
  BY <1>11 DEF Register, FreshInv, SeatTypes
<1>12. ASSUME NEW n \in Sessions, StopCheck(n) PROVE FreshInv'
  BY <1>12 DEF StopCheck, launchVars, FreshInv, SeatTypes
<1>13. ASSUME NEW n \in Sessions, StopRestore(n) PROVE FreshInv'
  BY <1>13 DEF StopRestore, Restore, launchVars, FreshInv, SeatTypes
<1>14. ASSUME NEW n \in Sessions, Finish(n) PROVE FreshInv'
  BY <1>14 DEF Finish, TakenOut, launchVars, FreshInv, SeatTypes
<1>15. ASSUME NEW n \in Sessions, NEW s \in Seats, Prepare(n, s) PROVE FreshInv'
  <2>1. /\ pc[n] = "preparing" /\ s \notin prepared[n] /\ holder' \in [AllDevices -> Numbers] /\ sink' \in [Seats -> Numbers]
        /\ UNCHANGED <<sessions, game, proc, stopVars, supVars, scaleVars, quitting, restarts>>
    BY <1>15, PrepareOutcome DEF Prepare
  <2>2. CASE SeatPrepared(n, s)
    BY <2>1, <2>2 DEF SeatPrepared, FreshInv, SeatTypes
  <2>3. CASE pc' = [pc EXCEPT ![n] = "cleaning"] /\ prepared' = prepared /\ holder' = holder
    BY <2>1, <2>3 DEF FreshInv, SeatTypes
  <2> QED BY <1>15, <2>2, <2>3, PrepareOutcome
<1>16. ASSUME NEW n \in Sessions, NEW s \in Seats, Start(n, s) PROVE FreshInv'
  <2>1. CASE proc' = [proc EXCEPT ![n][s] = "running"] /\ UNCHANGED pc
    BY <1>16, <2>1 DEF Start, FreshInv, SeatTypes
  <2>2. CASE pc' = [pc EXCEPT ![n] = "cleaning"] /\ UNCHANGED proc
    BY <1>16, <2>2 DEF Start, FreshInv, SeatTypes
  <2> QED BY <1>16, <2>1, <2>2 DEF Start
<1>17. ASSUME NEW n \in Sessions, NEW s \in Seats, CleanSeat(n, s) PROVE FreshInv'
  BY <1>17 DEF CleanSeat, Released, Destroyed, FreshInv, SeatTypes
<1>18. ASSUME NEW n \in Sessions, NEW s \in Seats, Exit(n, s) PROVE FreshInv'
  BY <1>18 DEF Exit, launchVars, FreshInv, SeatTypes
<1>19. ASSUME NEW n \in Sessions, NEW s \in Seats, StopSessionSeat(n, s) PROVE FreshInv'
  BY <1>19 DEF StopSessionSeat, EndSeat, Released, Destroyed, Signalled, launchVars,
     FreshInv, SeatTypes
<1>20. ASSUME NEW n \in Sessions, NEW s \in Seats, HandleExit(n, s) PROVE FreshInv'
  BY <1>20 DEF HandleExit, Released, Destroyed, launchVars, FreshInv, SeatTypes
<1> QED BY <1>0, <1>1, <1>2, <1>3, <1>4, <1>5, <1>6, <1>7, <1>8, <1>9, <1>10, <1>11,
   <1>12, <1>13, <1>14, <1>15, <1>16, <1>17, <1>18, <1>19, <1>20 DEF Next

-----------------------------------------------------------------------------
(* The scale is recorded before it is changed and for as long as somebody is there who will restore it. *)
ScaleInv ==
  /\ saved \in BOOLEAN /\ original = saved
  /\ scale = "one" => saved
  /\ \A n \in Sessions : pc[n] = "locking" => guard = n /\ saved
  /\ saved => \E n \in Sessions : n \in Launching \/ n \in Stopping \/ n \in Registered

LEMMA ScaleInit == Init => ScaleInv
BY DEF Init, ScaleInv

LEMMA ScaleStep == SeatTypes /\ LinkInv /\ ~ScreenFails /\ ScaleInv /\ [Next]_vars => ScaleInv'
<1> SUFFICES ASSUME SeatTypes, LinkInv, ~ScreenFails, ScaleInv, [Next]_vars PROVE ScaleInv'
  OBVIOUS
<1>0. CASE UNCHANGED vars
  BY <1>0 DEF vars, launchVars, stopVars, scaleVars, ScaleInv, Launching, Stopping,
     Registered, SeatTypes
<1>1. CASE Crash
  BY <1>1 DEF Crash, NewProcess, ScaleInv, SeatTypes
<1>2. CASE StopAll
  BY <1>2 DEF StopAll, launchVars, stopVars, scaleVars, ScaleInv, Launching, Stopping,
     Registered, SeatTypes
<1>3. CASE Quit
  BY <1>3 DEF Quit, NewProcess, ScaleInv, SeatTypes
<1>4. ASSUME NEW g \in Games, Stop(g) PROVE ScaleInv'
  BY <1>4 DEF Stop, TakenOut, launchVars, scaleVars, ScaleInv, Launching, Stopping,
     Registered, SeatTypes
<1>5. ASSUME NEW g \in Games, NEW s \in Seats, StopSeat(g, s) PROVE ScaleInv'
  BY <1>5 DEF StopSeat, EndSeat, Released, Destroyed, Signalled, launchVars, scaleVars,
     ScaleInv, Registered, SeatTypes, Numbers
<1>6. ASSUME NEW n \in Sessions, Check(n) PROVE ScaleInv'
  BY <1>6 DEF Check, scaleVars, ScaleInv, Launching, SeatTypes
<1>7. ASSUME NEW n \in Sessions, LockRecord(n) PROVE ScaleInv'
  <2>1. \A m \in Sessions : pc[m] # "locking"
    BY <1>7, ZeroNoSession DEF LockRecord, ScaleInv
  <2>2. pc[n] = "checked" /\ \A m \in Sessions : m # n => pc'[m] = pc[m]
    BY <1>7 DEF LockRecord, SeatTypes
  <2>3. pc'[n] \in {"locking", "preparing"} /\ n \in Launching'
    BY <1>7 DEF LockRecord, SeatTypes, Launching
  <2>4. CASE scale = "own"
    <3>1. original' = TRUE /\ saved' = TRUE /\ guard' = n /\ scale' = scale
      BY <1>7, <2>4 DEF LockRecord
    <3> QED BY <2>1, <2>2, <2>3, <3>1 DEF ScaleInv
  <2>5. CASE scale # "own"
    <3>1. original' = original /\ saved' = saved /\ guard' = guard /\ scale' = scale /\ pc' = [pc EXCEPT ![n] = "preparing"]
      BY <1>7, <2>5 DEF LockRecord
    <3>2. \A m \in Sessions : pc'[m] # "locking"
      BY <2>1, <3>1 DEF SeatTypes
    <3> QED BY <2>3, <3>1, <3>2 DEF ScaleInv
  <2> QED BY <2>4, <2>5
<1>8. ASSUME NEW n \in Sessions, LockApply(n) PROVE ScaleInv'
  BY <1>8 DEF LockApply, ScaleInv, Launching, SeatTypes
<1>9. ASSUME NEW n \in Sessions, CleanCheck(n) PROVE ScaleInv'
  BY <1>9 DEF CleanCheck, scaleVars, ScaleInv, Launching, Registered, SeatTypes
<1>10. ASSUME NEW n \in Sessions, CleanRestore(n) PROVE ScaleInv'
  BY <1>10, ZeroNoSession DEF CleanRestore, Restore, ScaleInv, SeatTypes
<1>11. ASSUME NEW n \in Sessions, Register(n) PROVE ScaleInv'
  BY <1>11 DEF Register, scaleVars, ScaleInv, Registered, SeatTypes
<1>12. ASSUME NEW n \in Sessions, StopCheck(n) PROVE ScaleInv'
  BY <1>12 DEF StopCheck, launchVars, scaleVars, ScaleInv, Stopping, Registered, SeatTypes
<1>13. ASSUME NEW n \in Sessions, StopRestore(n) PROVE ScaleInv'
  BY <1>13, ZeroNoSession DEF StopRestore, Restore, launchVars, ScaleInv, SeatTypes
<1>14. ASSUME NEW n \in Sessions, Finish(n) PROVE ScaleInv'
  BY <1>14, ZeroNoSession DEF Finish, TakenOut, launchVars, scaleVars, ScaleInv,
     Launching, Stopping, Registered, SeatTypes, Calls, Processes
<1>15. ASSUME NEW n \in Sessions, NEW s \in Seats, Prepare(n, s) PROVE ScaleInv'
  <2>1. /\ pc[n] = "preparing" /\ s \notin prepared[n] /\ holder' \in [AllDevices -> Numbers] /\ sink' \in [Seats -> Numbers]
        /\ UNCHANGED <<sessions, game, proc, stopVars, supVars, scaleVars, quitting, restarts>>
    BY <1>15, PrepareOutcome DEF Prepare
  <2>2. CASE SeatPrepared(n, s)
    BY <2>1, <2>2 DEF SeatPrepared, scaleVars, ScaleInv, Launching, SeatTypes
  <2>3. CASE pc' = [pc EXCEPT ![n] = "cleaning"] /\ prepared' = prepared /\ holder' = holder
    BY <2>1, <2>3 DEF scaleVars, ScaleInv, Launching, SeatTypes
  <2> QED BY <1>15, <2>2, <2>3, PrepareOutcome
<1>16. ASSUME NEW n \in Sessions, NEW s \in Seats, Start(n, s) PROVE ScaleInv'
  <2>1. CASE proc' = [proc EXCEPT ![n][s] = "running"] /\ UNCHANGED pc
    BY <1>16, <2>1 DEF Start, scaleVars, ScaleInv, Launching, SeatTypes
  <2>2. CASE pc' = [pc EXCEPT ![n] = "cleaning"] /\ UNCHANGED proc
    BY <1>16, <2>2 DEF Start, scaleVars, ScaleInv, Launching, SeatTypes
  <2> QED BY <1>16, <2>1, <2>2 DEF Start
<1>17. ASSUME NEW n \in Sessions, NEW s \in Seats, CleanSeat(n, s) PROVE ScaleInv'
  BY <1>17 DEF CleanSeat, Released, Destroyed, scaleVars, ScaleInv, Launching, SeatTypes
<1>18. ASSUME NEW n \in Sessions, NEW s \in Seats, Exit(n, s) PROVE ScaleInv'
  BY <1>18 DEF Exit, launchVars, stopVars, scaleVars, ScaleInv, Launching, Stopping,
     Registered, SeatTypes
<1>19. ASSUME NEW n \in Sessions, NEW s \in Seats, StopSessionSeat(n, s) PROVE ScaleInv'
  BY <1>19 DEF StopSessionSeat, EndSeat, Released, Destroyed, Signalled, launchVars,
     scaleVars, ScaleInv, Stopping, SeatTypes
<1>20. ASSUME NEW n \in Sessions, NEW s \in Seats, HandleExit(n, s) PROVE ScaleInv'
  BY <1>20 DEF HandleExit, Released, Destroyed, launchVars, stopVars, scaleVars, ScaleInv,
     Launching, Stopping, Registered, SeatTypes
<1> QED BY <1>0, <1>1, <1>2, <1>3, <1>4, <1>5, <1>6, <1>7, <1>8, <1>9, <1>10, <1>11,
   <1>12, <1>13, <1>14, <1>15, <1>16, <1>17, <1>18, <1>19, <1>20 DEF Next

-----------------------------------------------------------------------------
(* Who holds a device still has a seat that gives it back: one it prepared, or one that has neither exited nor been stopped. *)
GrabInv ==
  \A n \in Sessions, s \in Seats : \A d \in Devices[s] : holder[d] = n =>
    /\ pc[n] \in {"preparing", "cleaning", "launched"}
    /\ pc[n] = "launched" => s \notin handled[n] /\ (stop[n] = "no" \/ (stop[n] = "stopping" /\ s \in todo[n]))
    /\ pc[n] # "launched" => \E t \in prepared[n] : d \in Devices[t]

LEMMA DevicesKnown == \A s \in Seats : Devices[s] \subseteq AllDevices
BY DEF AllDevices

LEMMA GrabInit == Init => GrabInv
BY ZeroNoSession, DevicesKnown DEF Init, GrabInv

LEMMA GrabStep == SeatTypes /\ LinkInv /\ GrabInv /\ [Next]_vars => GrabInv'
<1> SUFFICES ASSUME SeatTypes, LinkInv, GrabInv, [Next]_vars PROVE GrabInv'
  OBVIOUS
<1>0. CASE UNCHANGED vars
  BY <1>0 DEF vars, launchVars, stopVars, supVars, GrabInv, SeatTypes
<1>1. CASE Crash
  BY <1>1, ZeroNoSession, DevicesKnown DEF Crash, NewProcess, GrabInv, SeatTypes
<1>2. CASE StopAll
  BY <1>2 DEF StopAll, launchVars, stopVars, supVars, GrabInv, SeatTypes
<1>3. CASE Quit
  BY <1>3, ZeroNoSession, DevicesKnown DEF Quit, NewProcess, GrabInv, SeatTypes
<1>4. ASSUME NEW g \in Games, Stop(g) PROVE GrabInv'
  BY <1>4 DEF Stop, TakenOut, launchVars, supVars, GrabInv, SeatTypes
<1>5. ASSUME NEW g \in Games, NEW s \in Seats, StopSeat(g, s) PROVE GrabInv'
  BY <1>5, ZeroNoSession, DevicesKnown DEF StopSeat, EndSeat, Released, Destroyed,
     Signalled, launchVars, stopVars, supVars, GrabInv, SeatTypes
<1>6. ASSUME NEW n \in Sessions, Check(n) PROVE GrabInv'
  BY <1>6 DEF Check, stopVars, supVars, GrabInv, SeatTypes
<1>7. ASSUME NEW n \in Sessions, LockRecord(n) PROVE GrabInv'
  BY <1>7 DEF LockRecord, stopVars, supVars, GrabInv, SeatTypes
<1>8. ASSUME NEW n \in Sessions, LockApply(n) PROVE GrabInv'
  BY <1>8 DEF LockApply, stopVars, supVars, GrabInv, SeatTypes
<1>9. ASSUME NEW n \in Sessions, CleanCheck(n) PROVE GrabInv'
  BY <1>9 DEF CleanCheck, stopVars, supVars, GrabInv, SeatTypes
<1>10. ASSUME NEW n \in Sessions, CleanRestore(n) PROVE GrabInv'
  BY <1>10 DEF CleanRestore, Restore, stopVars, supVars, GrabInv, SeatTypes
<1>11. ASSUME NEW n \in Sessions, Register(n) PROVE GrabInv'
  BY <1>11 DEF Register, stopVars, GrabInv, LinkInv, SeatTypes
<1>12. ASSUME NEW n \in Sessions, StopCheck(n) PROVE GrabInv'
  BY <1>12 DEF StopCheck, launchVars, supVars, GrabInv, SeatTypes
<1>13. ASSUME NEW n \in Sessions, StopRestore(n) PROVE GrabInv'
  BY <1>13 DEF StopRestore, Restore, launchVars, supVars, GrabInv, SeatTypes
<1>14. ASSUME NEW n \in Sessions, Finish(n) PROVE GrabInv'
  BY <1>14, ZeroNoSession DEF Finish, TakenOut, launchVars, GrabInv, SeatTypes
<1>15. ASSUME NEW n \in Sessions, NEW s \in Seats, Prepare(n, s) PROVE GrabInv'
  <2>1. /\ pc[n] = "preparing" /\ s \notin prepared[n] /\ holder' \in [AllDevices -> Numbers] /\ sink' \in [Seats -> Numbers]
        /\ UNCHANGED <<sessions, game, proc, stopVars, supVars, scaleVars, quitting, restarts>>
    BY <1>15, PrepareOutcome DEF Prepare
  <2>2. CASE SeatPrepared(n, s)
    BY <2>1, <2>2, DevicesKnown DEF SeatPrepared, stopVars, supVars, GrabInv, SeatTypes
  <2>3. CASE pc' = [pc EXCEPT ![n] = "cleaning"] /\ prepared' = prepared /\ holder' = holder
    BY <2>1, <2>3 DEF stopVars, supVars, GrabInv, SeatTypes
  <2> QED BY <1>15, <2>2, <2>3, PrepareOutcome
<1>16. ASSUME NEW n \in Sessions, NEW s \in Seats, Start(n, s) PROVE GrabInv'
  <2>1. CASE proc' = [proc EXCEPT ![n][s] = "running"] /\ UNCHANGED pc
    BY <1>16, <2>1 DEF Start, stopVars, supVars, GrabInv, SeatTypes
  <2>2. CASE pc' = [pc EXCEPT ![n] = "cleaning"] /\ UNCHANGED proc
    BY <1>16, <2>2 DEF Start, stopVars, supVars, GrabInv, SeatTypes
  <2> QED BY <1>16, <2>1, <2>2 DEF Start
<1>17. ASSUME NEW n \in Sessions, NEW s \in Seats, CleanSeat(n, s) PROVE GrabInv'
  BY <1>17, ZeroNoSession, DevicesKnown DEF CleanSeat, Released, Destroyed, stopVars,
     supVars, GrabInv, SeatTypes
<1>18. ASSUME NEW n \in Sessions, NEW s \in Seats, Exit(n, s) PROVE GrabInv'
  BY <1>18 DEF Exit, launchVars, stopVars, supVars, GrabInv, SeatTypes
<1>19. ASSUME NEW n \in Sessions, NEW s \in Seats, StopSessionSeat(n, s) PROVE GrabInv'
  BY <1>19, ZeroNoSession, DevicesKnown DEF StopSessionSeat, EndSeat, Released, Destroyed,
     Signalled, launchVars, supVars, GrabInv, SeatTypes
<1>20. ASSUME NEW n \in Sessions, NEW s \in Seats, HandleExit(n, s) PROVE GrabInv'
  BY <1>20, ZeroNoSession, DevicesKnown DEF HandleExit, Released, Destroyed, launchVars,
     stopVars, GrabInv, SeatTypes
<1> QED BY <1>0, <1>1, <1>2, <1>3, <1>4, <1>5, <1>6, <1>7, <1>8, <1>9, <1>10, <1>11,
   <1>12, <1>13, <1>14, <1>15, <1>16, <1>17, <1>18, <1>19, <1>20 DEF Next

(* Every seat has at most one device, and no two seats the same. *)
OneEach ==
  /\ \A s \in Seats : \A d, e \in Devices[s] : d = e
  /\ \A s, t \in Seats : s # t => Devices[s] \cap Devices[t] = {}

(* A seat that is prepared, or runs, has its devices. *)
IsoInv ==
  \A n \in Sessions, s \in Seats : \A d \in Devices[s] :
    (pc[n] = "preparing" /\ s \in prepared[n]) \/ (pc[n] = "launched" /\ proc[n][s] = "running") => holder[d] = n

LEMMA IsoInit == Init => IsoInv
BY DEF Init, IsoInv

LEMMA IsoStep == SeatTypes /\ LinkInv /\ FreshInv /\ OneEach /\ IsoInv /\ [Next]_vars => IsoInv'
<1> SUFFICES ASSUME SeatTypes, LinkInv, FreshInv, OneEach, IsoInv, [Next]_vars PROVE IsoInv'
  OBVIOUS
<1>0. CASE UNCHANGED vars
  BY <1>0 DEF vars, launchVars, IsoInv, SeatTypes
<1>1. CASE Crash
  BY <1>1 DEF Crash, NewProcess, IsoInv, SeatTypes
<1>2. CASE StopAll
  BY <1>2 DEF StopAll, launchVars, IsoInv, SeatTypes
<1>3. CASE Quit
  BY <1>3 DEF Quit, NewProcess, IsoInv, SeatTypes
<1>4. ASSUME NEW g \in Games, Stop(g) PROVE IsoInv'
  BY <1>4 DEF Stop, TakenOut, launchVars, IsoInv, SeatTypes
<1>5. ASSUME NEW g \in Games, NEW s \in Seats, StopSeat(g, s) PROVE IsoInv'
  BY <1>5, DevicesKnown DEF StopSeat, EndSeat, Released, Destroyed, Signalled, launchVars,
     IsoInv, LinkInv, OneEach, SeatTypes
<1>6. ASSUME NEW n \in Sessions, Check(n) PROVE IsoInv'
  BY <1>6 DEF Check, IsoInv, SeatTypes
<1>7. ASSUME NEW n \in Sessions, LockRecord(n) PROVE IsoInv'
  <2>1. prepared[n] = {} /\ prepared' = prepared /\ proc' = proc /\ holder' = holder
    BY <1>7 DEF LockRecord, FreshInv
  <2>2. pc'[n] # "launched" /\ \A m \in Sessions : m # n => pc'[m] = pc[m]
    BY <1>7 DEF LockRecord, SeatTypes
  <2> QED BY <2>1, <2>2 DEF IsoInv
<1>8. ASSUME NEW n \in Sessions, LockApply(n) PROVE IsoInv'
  <2>1. prepared[n] = {} /\ prepared' = prepared /\ proc' = proc /\ holder' = holder
    BY <1>8 DEF LockApply, FreshInv
  <2>2. pc'[n] # "launched" /\ \A m \in Sessions : m # n => pc'[m] = pc[m]
    BY <1>8 DEF LockApply, SeatTypes
  <2> QED BY <2>1, <2>2 DEF IsoInv
<1>9. ASSUME NEW n \in Sessions, CleanCheck(n) PROVE IsoInv'
  BY <1>9 DEF CleanCheck, IsoInv, SeatTypes
<1>10. ASSUME NEW n \in Sessions, CleanRestore(n) PROVE IsoInv'
  BY <1>10 DEF CleanRestore, Restore, IsoInv, SeatTypes
<1>11. ASSUME NEW n \in Sessions, Register(n) PROVE IsoInv'
  BY <1>11 DEF Register, IsoInv, LinkInv, SeatTypes
<1>12. ASSUME NEW n \in Sessions, StopCheck(n) PROVE IsoInv'
  BY <1>12 DEF StopCheck, launchVars, IsoInv, SeatTypes
<1>13. ASSUME NEW n \in Sessions, StopRestore(n) PROVE IsoInv'
  BY <1>13 DEF StopRestore, Restore, launchVars, IsoInv, SeatTypes
<1>14. ASSUME NEW n \in Sessions, Finish(n) PROVE IsoInv'
  BY <1>14 DEF Finish, TakenOut, launchVars, IsoInv, SeatTypes
<1>15. ASSUME NEW n \in Sessions, NEW s \in Seats, Prepare(n, s) PROVE IsoInv'
  <2>1. /\ pc[n] = "preparing" /\ s \notin prepared[n] /\ holder' \in [AllDevices -> Numbers] /\ sink' \in [Seats -> Numbers]
        /\ UNCHANGED <<sessions, game, proc, stopVars, supVars, scaleVars, quitting, restarts>>
    BY <1>15, PrepareOutcome DEF Prepare
  <2>2. CASE SeatPrepared(n, s)
    BY <2>1, <2>2, ZeroNoSession, DevicesKnown DEF SeatPrepared, IsoInv, OneEach,
       SeatTypes
  <2>3. CASE pc' = [pc EXCEPT ![n] = "cleaning"] /\ prepared' = prepared /\ holder' = holder
    BY <2>1, <2>3 DEF IsoInv, SeatTypes
  <2> QED BY <1>15, <2>2, <2>3, PrepareOutcome
<1>16. ASSUME NEW n \in Sessions, NEW s \in Seats, Start(n, s) PROVE IsoInv'
  <2>1. CASE proc' = [proc EXCEPT ![n][s] = "running"] /\ UNCHANGED pc
    BY <1>16, <2>1 DEF Start, IsoInv, SeatTypes
  <2>2. CASE pc' = [pc EXCEPT ![n] = "cleaning"] /\ UNCHANGED proc
    BY <1>16, <2>2 DEF Start, IsoInv, SeatTypes
  <2> QED BY <1>16, <2>1, <2>2 DEF Start
<1>17. ASSUME NEW n \in Sessions, NEW s \in Seats, CleanSeat(n, s) PROVE IsoInv'
  BY <1>17, DevicesKnown DEF CleanSeat, Released, Destroyed, IsoInv, SeatTypes
<1>18. ASSUME NEW n \in Sessions, NEW s \in Seats, Exit(n, s) PROVE IsoInv'
  BY <1>18 DEF Exit, launchVars, IsoInv, SeatTypes
<1>19. ASSUME NEW n \in Sessions, NEW s \in Seats, StopSessionSeat(n, s) PROVE IsoInv'
  BY <1>19, DevicesKnown DEF StopSessionSeat, EndSeat, Released, Destroyed, Signalled,
     launchVars, IsoInv, LinkInv, OneEach, SeatTypes
<1>20. ASSUME NEW n \in Sessions, NEW s \in Seats, HandleExit(n, s) PROVE IsoInv'
  BY <1>20, DevicesKnown DEF HandleExit, Released, Destroyed, launchVars, IsoInv, LinkInv,
     OneEach, SeatTypes, Numbers, Calls
<1> QED BY <1>0, <1>1, <1>2, <1>3, <1>4, <1>5, <1>6, <1>7, <1>8, <1>9, <1>10, <1>11,
   <1>12, <1>13, <1>14, <1>15, <1>16, <1>17, <1>18, <1>19, <1>20 DEF Next

-----------------------------------------------------------------------------
(* Without overlapping launches a game has one session: while it is launched the table has none, afterwards the table *)
(* has it until it is stopped, and then its seats are being dealt with.                                               *)
OrphanInv ==
  /\ \A n \in Launching : sessions[game[n]] = 0 /\ \A m \in Launching : m # n => game[m] # game[n]
  /\ \A n \in Sessions : pc[n] = "launched" /\ stop[n] = "no" => sessions[game[n]] = n
  /\ \A n \in Sessions, s \in Seats : proc[n][s] = "running" =>
       /\ pc[n] \in {"preparing", "cleaning", "launched"}
       /\ pc[n] = "cleaning" => s \in prepared[n]
       /\ pc[n] = "launched" /\ stop[n] # "no" => stop[n] = "stopping" /\ s \in todo[n]

LEMMA OrphanInit == Init => OrphanInv
BY DEF Init, OrphanInv, Launching

LEMMA OrphanStep == SeatTypes /\ LinkInv /\ ~Overlap /\ OrphanInv /\ [Next]_vars => OrphanInv'
<1> SUFFICES ASSUME SeatTypes, LinkInv, ~Overlap, OrphanInv, [Next]_vars PROVE OrphanInv'
  OBVIOUS
<1>0. CASE UNCHANGED vars
  BY <1>0 DEF vars, launchVars, stopVars, OrphanInv, Launching, SeatTypes
<1>1. CASE Crash
  BY <1>1 DEF Crash, NewProcess, OrphanInv, Launching, SeatTypes
<1>2. CASE StopAll
  BY <1>2 DEF StopAll, launchVars, stopVars, OrphanInv, Launching, SeatTypes
<1>3. CASE Quit
  BY <1>3 DEF Quit, NewProcess, OrphanInv, Launching, SeatTypes
<1>4. ASSUME NEW g \in Games, Stop(g) PROVE OrphanInv'
  BY <1>4 DEF Stop, TakenOut, launchVars, OrphanInv, Launching, SeatTypes
<1>5. ASSUME NEW g \in Games, NEW s \in Seats, StopSeat(g, s) PROVE OrphanInv'
  BY <1>5 DEF StopSeat, EndSeat, Released, Destroyed, Signalled, launchVars, stopVars,
     OrphanInv, Launching, SeatTypes
<1>6. ASSUME NEW n \in Sessions, Check(n) PROVE OrphanInv'
  BY <1>6 DEF Check, stopVars, OrphanInv, Launching, SeatTypes
<1>7. ASSUME NEW n \in Sessions, LockRecord(n) PROVE OrphanInv'
  BY <1>7, ZeroNoSession DEF LockRecord, stopVars, supVars, OrphanInv, LinkInv, Launching,
     SeatTypes, Numbers, Calls
<1>8. ASSUME NEW n \in Sessions, LockApply(n) PROVE OrphanInv'
  BY <1>8 DEF LockApply, stopVars, OrphanInv, Launching, SeatTypes
<1>9. ASSUME NEW n \in Sessions, CleanCheck(n) PROVE OrphanInv'
  BY <1>9 DEF CleanCheck, stopVars, OrphanInv, Launching, SeatTypes
<1>10. ASSUME NEW n \in Sessions, CleanRestore(n) PROVE OrphanInv'
  BY <1>10 DEF CleanRestore, Restore, stopVars, OrphanInv, Launching, SeatTypes
<1>11. ASSUME NEW n \in Sessions, Register(n) PROVE OrphanInv'
  <2>1. PICK g \in Games : g = game[n]
    BY DEF SeatTypes
  <2>2. /\ sessions' = [sessions EXCEPT ![g] = n] /\ pc' = [pc EXCEPT ![n] = "launched"] /\ pc[n] = "preparing"
        /\ game' = game /\ prepared' = prepared /\ proc' = proc /\ stop' = stop /\ todo' = todo
    BY <1>11, <2>1 DEF Register, stopVars
  <2>3. n \in Launching /\ sessions[g] = 0 /\ stop[n] = "no" /\ Launching' = Launching \ {n}
    BY <2>1, <2>2 DEF Launching, OrphanInv, LinkInv, SeatTypes
  <2>4. ASSUME NEW k \in Launching' PROVE sessions'[game'[k]] = 0 /\ \A m \in Launching' : m # k => game'[m] # game'[k]
    BY <2>1, <2>2, <2>3, <2>4 DEF OrphanInv, SeatTypes
  <2>5. ASSUME NEW k \in Sessions, pc'[k] = "launched", stop'[k] = "no" PROVE sessions'[game'[k]] = k
    <3>1. CASE k = n
      BY <2>1, <2>2, <3>1 DEF SeatTypes
    <3>2. CASE k # n
      <4>1. sessions[game[k]] = k
        BY <2>2, <2>5, <3>2 DEF OrphanInv, SeatTypes
      <4>2. game[k] # g
        BY <2>3, <4>1, ZeroNoSession
      <4> QED BY <2>2, <4>1, <4>2 DEF SeatTypes
    <3> QED BY <3>1, <3>2
  <2>6. \A k \in Sessions, s \in Seats : proc'[k][s] = "running" =>
          /\ pc'[k] \in {"preparing", "cleaning", "launched"}
          /\ pc'[k] = "cleaning" => s \in prepared'[k]
          /\ pc'[k] = "launched" /\ stop'[k] # "no" => stop'[k] = "stopping" /\ s \in todo'[k]
    BY <2>2, <2>3 DEF OrphanInv, SeatTypes
  <2> QED BY <2>4, <2>5, <2>6 DEF OrphanInv
<1>12. ASSUME NEW n \in Sessions, StopCheck(n) PROVE OrphanInv'
  BY <1>12 DEF StopCheck, launchVars, OrphanInv, Launching, SeatTypes
<1>13. ASSUME NEW n \in Sessions, StopRestore(n) PROVE OrphanInv'
  BY <1>13 DEF StopRestore, Restore, launchVars, OrphanInv, Launching, SeatTypes
<1>14. ASSUME NEW n \in Sessions, Finish(n) PROVE OrphanInv'
  <2>1. CASE sessions[game[n]] = 0
    BY <1>14, <2>1 DEF Finish, TakenOut, launchVars, OrphanInv, Launching, SeatTypes
  <2>2. CASE sessions[game[n]] # 0
    <3>1. PICK g \in Games : g = game[n]
      BY DEF SeatTypes
    <3>2. PICK m \in Sessions : m = sessions[g]
      BY <2>2, <3>1 DEF SeatTypes, Numbers
    <3>3. /\ sessions' = [sessions EXCEPT ![g] = 0] /\ stop' = [stop EXCEPT ![m] = "stopping"] /\ todo' = [todo EXCEPT ![m] = Seats]
          /\ game' = game /\ pc' = pc /\ proc' = proc /\ prepared' = prepared
      BY <1>14, <2>2, <3>1, <3>2 DEF Finish, TakenOut, launchVars
    <3>4. game[m] = g /\ pc[m] = "launched"
      BY <3>2 DEF LinkInv
    <3> QED BY <3>2, <3>3, <3>4 DEF OrphanInv, Launching, SeatTypes
  <2> QED BY <2>1, <2>2
<1>15. ASSUME NEW n \in Sessions, NEW s \in Seats, Prepare(n, s) PROVE OrphanInv'
  <2>1. /\ pc[n] = "preparing" /\ s \notin prepared[n] /\ holder' \in [AllDevices -> Numbers] /\ sink' \in [Seats -> Numbers]
        /\ UNCHANGED <<sessions, game, proc, stopVars, supVars, scaleVars, quitting, restarts>>
    BY <1>15, PrepareOutcome DEF Prepare
  <2>2. CASE SeatPrepared(n, s)
    BY <2>1, <2>2 DEF SeatPrepared, stopVars, OrphanInv, Launching, SeatTypes
  <2>3. CASE pc' = [pc EXCEPT ![n] = "cleaning"] /\ prepared' = prepared /\ holder' = holder
    BY <2>1, <2>3, ZeroNoSession DEF stopVars, supVars, OrphanInv, LinkInv, Launching,
       SeatTypes
  <2> QED BY <1>15, <2>2, <2>3, PrepareOutcome
<1>16. ASSUME NEW n \in Sessions, NEW s \in Seats, Start(n, s) PROVE OrphanInv'
  <2>1. CASE proc' = [proc EXCEPT ![n][s] = "running"] /\ UNCHANGED pc
    BY <1>16, <2>1 DEF Start, stopVars, OrphanInv, Launching, SeatTypes
  <2>2. CASE pc' = [pc EXCEPT ![n] = "cleaning"] /\ UNCHANGED proc
    BY <1>16, <2>2 DEF Start, stopVars, OrphanInv, Launching, SeatTypes
  <2> QED BY <1>16, <2>1, <2>2 DEF Start
<1>17. ASSUME NEW n \in Sessions, NEW s \in Seats, CleanSeat(n, s) PROVE OrphanInv'
  BY <1>17 DEF CleanSeat, Released, Destroyed, stopVars, OrphanInv, Launching, SeatTypes
<1>18. ASSUME NEW n \in Sessions, NEW s \in Seats, Exit(n, s) PROVE OrphanInv'
  BY <1>18 DEF Exit, launchVars, stopVars, OrphanInv, Launching, SeatTypes
<1>19. ASSUME NEW n \in Sessions, NEW s \in Seats, StopSessionSeat(n, s) PROVE OrphanInv'
  BY <1>19 DEF StopSessionSeat, EndSeat, Released, Destroyed, Signalled, launchVars,
     OrphanInv, Launching, SeatTypes
<1>20. ASSUME NEW n \in Sessions, NEW s \in Seats, HandleExit(n, s) PROVE OrphanInv'
  BY <1>20 DEF HandleExit, Released, Destroyed, launchVars, stopVars, OrphanInv,
     Launching, SeatTypes
<1> QED BY <1>0, <1>1, <1>2, <1>3, <1>4, <1>5, <1>6, <1>7, <1>8, <1>9, <1>10, <1>11,
   <1>12, <1>13, <1>14, <1>15, <1>16, <1>17, <1>18, <1>19, <1>20 DEF Next

-----------------------------------------------------------------------------
(* The user gets the display's scale back: LockDisplays records it before kscreen-doctor changes it, and whichever of  *)
(* StopSession, cleanupPrepared and a new process is the last restores it, as long as kscreen-doctor does not fail to.  *)
THEOREM ScaleComesBack ==
  ASSUME ~ScreenFails
  PROVE  Spec => []ScaleReturned
<1>1. SeatTypes /\ ScaleInv => ScaleReturned
  BY DEF SeatTypes, ScaleInv, ScaleReturned, QuietMeansRestored, ScaleRecoverable
<1>2. SeatTypes /\ LinkInv /\ ScaleInv /\ [Next]_vars => ScaleInv'
  BY ScaleStep
<1> QED BY <1>1, <1>2, TypesInit, TypesStep, LinkInit, LinkStep, ScaleInit, PTL DEF Spec

(* Devices are held by sessions that run and by no other, however launches, exits, StopSeat and StopSession interleave. *)
(* A seat that runs has grabbed its device; with several devices Grab is content with one of them, so here each seat    *)
(* has at most one.                                                                                                     *)
THEOREM GrabsFollowSeats ==
  ASSUME OneEach
  PROVE  Spec => []GrabsExact
<1>1. ASSUME SeatTypes, LinkInv, GrabInv, IsoInv PROVE GrabsExact
  <2>1. ASSUME NEW n \in Sessions, Over(n), NEW d \in AllDevices, holder[d] = n PROVE FALSE
    <3>1. PICK s \in Seats : d \in Devices[s]
      BY DEF AllDevices
    <3>2. /\ pc[n] \in {"preparing", "cleaning", "launched"}
          /\ pc[n] = "launched" => s \notin handled[n] /\ (stop[n] = "no" \/ stop[n] = "stopping")
      BY <1>1, <2>1, <3>1 DEF GrabInv
    <3> QED BY <1>1, <2>1, <3>2 DEF Over, LinkInv
  <2>2. ASSUME NEW n \in Registered, NEW s \in Seats, proc[n][s] = "running", NEW d \in Devices[s] PROVE holder[d] = n
    <3>1. n \in Sessions /\ pc[n] = "launched"
      BY <1>1 DEF Registered, LinkInv
    <3> QED BY <1>1, <2>2, <3>1 DEF IsoInv
  <2> QED BY <2>1, <2>2 DEF GrabsExact, GrabsReturned, InputIsolated
<1>2. SeatTypes /\ LinkInv /\ FreshInv /\ IsoInv /\ [Next]_vars => IsoInv'
  BY IsoStep
<1> QED BY <1>1, <1>2, TypesInit, TypesStep, LinkInit, LinkStep, FreshInit, FreshStep,
   GrabInit, GrabStep, IsoInit, PTL DEF Spec

(* No seat runs on unattended when a game is not launched twice at a time: its process belongs to a launch under way,   *)
(* whose cleanupPrepared would kill it, to a session that StopSession finds in the table, or to one being stopped.      *)
THEOREM SeatsAttended ==
  ASSUME ~Overlap
  PROVE  Spec => []NoOrphanSeat
<1>1. ASSUME SeatTypes, OrphanInv PROVE NoOrphanSeat
  <2>1. SUFFICES ASSUME NEW n \in Sessions, NEW s \in Seats, proc[n][s] = "running"
                 PROVE  n \in Launching \cup Registered \cup Stopping
    BY DEF NoOrphanSeat
  <2>2. CASE pc[n] # "launched"
    BY <1>1, <2>1, <2>2 DEF OrphanInv, Launching
  <2>3. CASE pc[n] = "launched" /\ stop[n] = "no"
    <3>1. sessions[game[n]] = n /\ game[n] \in Games
      BY <1>1, <2>3 DEF OrphanInv, SeatTypes
    <3> QED BY <3>1 DEF Registered
  <2>4. CASE pc[n] = "launched" /\ stop[n] # "no"
    BY <1>1, <2>1, <2>4 DEF OrphanInv, Stopping
  <2> QED BY <2>2, <2>3, <2>4
<1>2. SeatTypes /\ LinkInv /\ OrphanInv /\ [Next]_vars => OrphanInv'
  BY OrphanStep
<1> QED BY <1>1, <1>2, TypesInit, TypesStep, LinkInit, LinkStep, OrphanInit, PTL DEF Spec
====
