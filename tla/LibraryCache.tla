---------------------------- MODULE LibraryCache ----------------------------
(***************************************************************************)
(* The warm library cache: what detector.Inspect remembers of one game     *)
(* directory, in memory and in a file, and the operations of the engine    *)
(* that look it up, fill it and throw it away.                             *)
(*                                                                         *)
(* A record is believed while the signature of a few sentinel files (the   *)
(* launch profile, the emulator's settings, manifests, the mod registry)   *)
(* and the executable are what they were.  Everything else in the          *)
(* directory may change without changing the signature; the operations     *)
(* that do so call InvalidateGameCache afterwards.  Content is abstracted  *)
(* to version numbers that only grow, as modification times do.            *)
(***************************************************************************)
EXTENDS Naturals

CONSTANTS
    Callers,     \* goroutines that inspect the directory or change it
    MaxChange    \* bound: changes of each kind to the directory

ASSUME CallersAssumption == MaxChange \in Nat

VARIABLES
    libDir,      \* the directory: version of sentinels, of the rest, of the executable
    mem,         \* gamesMemoryCache[gameDir]
    file,        \* <cache>/games/<key>.json
    job,         \* what each caller is doing
    blind        \* the callers that overlapped a change they cannot notice (see CacheFresh)

libVars == <<libDir, mem, file, job, blind>>

NoRec == [sig |-> 0, exe |-> 0, sen |-> 0, rest |-> 0, late |-> FALSE]
Torn == [NoRec EXCEPT !.late = TRUE]
NoJob == [kind |-> "none", at |-> "idle", sig |-> 0, got |-> NoRec]

(* Where an operation starts: with the signature, with its change of the directory, or with telling the cache. *)
FirstStep(kind) ==
    CASE kind \in {"inspect", "status"} -> "sign"
      [] kind \in {"profile", "apply", "uninstall"} -> "change"
      [] kind = "reset" -> "forget"

-----------------------------------------------------------------------------
(* The inspection of a directory, detector.Inspect and engine.InspectLocal. *)

ComputeSentinelSignature == libDir.sen

isExecutableValid(rec) == rec.exe = libDir.exe

Usable(rec, sig) == rec \notin {NoRec, Torn} /\ rec.sig = sig /\ isExecutableValid(rec)

(* The caller goes on at a step of its operation, with what it has got, or returns. *)
GoWith(c, rec, at) == job' = [job EXCEPT ![c] = IF at = "idle" THEN NoJob ELSE [@ EXCEPT !.at = at, !.got = rec]]

Goto(c, at) == GoWith(c, job[c].got, at)

(* A record of what caller c scanned, kept under signature sig: the executable is stat'ed when the record is made. *)
CachedGameRecord(c, sig) ==
    [job[c].got EXCEPT !.sig = sig, !.exe = libDir.exe, !.late = c \in blind]

(* A caller is blind from the start when a change it cannot see has been made and not yet been announced. *)
Unannounced == \E d \in Callers : job[d].kind = "apply" /\ job[d].at \in {"settings", "forget", "unlink"}

StartJob(c, kind) ==
    /\ job[c] = NoJob
    /\ job' = [job EXCEPT ![c] = [NoJob EXCEPT !.kind = kind, !.at = FirstStep(kind)]]
    /\ blind' = IF Unannounced THEN blind \cup {c} ELSE blind \ {c}
    /\ UNCHANGED <<libDir, mem, file>>

InspectLocal(c) == StartJob(c, "inspect")

(* These ask Steam about what the inspection found and keep the record again. *)
InspectStatus(c) == StartJob(c, "status")
CheckGameUpdates(c) == StartJob(c, "status")
CheckLibraryUpdates(c) == StartJob(c, "status")

(* These change the files of the game and then tell the cache. *)
ApplyGame(c) == StartJob(c, "apply")
Rollback(c) == StartJob(c, "apply")
FetchGameDLCs(c) == StartJob(c, "apply")

(* These change the launch profile, a sentinel, and then tell the cache; ResetProfile tells the cache first. *)
SaveProfileMerged(c) == StartJob(c, "profile")
IncrementPlaytime(c) == StartJob(c, "profile")
ResetProfile(c) == StartJob(c, "reset")

StartUninstall(c) == StartJob(c, "uninstall")

(* The signature is taken before anything is looked up or read. *)
Sign(c) ==
    /\ job[c].at = "sign"
    /\ job' = [job EXCEPT ![c].sig = ComputeSentinelSignature, ![c].at = "lookup"]
    /\ UNCHANGED <<libDir, mem, file, blind>>

(* What follows a result. *)
After(c) == IF job[c].kind = "status" THEN "enrich" ELSE "idle"

GetCachedGameMemory(c) ==
    /\ job[c].at = "lookup"
    /\ IF Usable(mem, job[c].sig) THEN GoWith(c, mem, After(c)) ELSE Goto(c, "read")
    /\ UNCHANGED <<libDir, mem, file, blind>>

GetCachedGameFile(c) ==
    /\ job[c].at = "read"
    /\ IF Usable(file, job[c].sig)
         THEN GoWith(c, file, "promote")
         ELSE Goto(c, "walk")
    /\ UNCHANGED <<libDir, mem, file, blind>>

(* The record read from the file is put into memory after the file was read, under a lock of its own. *)
GetCachedGamePromote(c) ==
    /\ job[c].at = "promote"
    /\ mem' = [job[c].got EXCEPT !.late = @ \/ c \in blind]
    /\ Goto(c, After(c))
    /\ UNCHANGED <<libDir, file, blind>>

(* The walk over the directory, and after it the launch profile and the mods. *)
InspectWalk(c) ==
    /\ job[c].at = "walk"
    /\ GoWith(c, [NoRec EXCEPT !.rest = libDir.rest], "profile")
    /\ UNCHANGED <<libDir, mem, file, blind>>

InspectProfile(c) ==
    /\ job[c].at = "profile"
    /\ GoWith(c, [job[c].got EXCEPT !.sen = libDir.sen], "keep")
    /\ UNCHANGED <<libDir, mem, file, blind>>

(* Mutant of SaveCachedGameMemory: the signature is computed when the record is kept, after the scan. *)
SaveSignedNow(c) ==
    /\ job[c].at = "keep"
    /\ mem' = CachedGameRecord(c, ComputeSentinelSignature)
    /\ GoWith(c, mem', "write")
    /\ UNCHANGED <<libDir, file, blind>>

(* SaveCachedGame: memory under the lock, then the file, which a kill may leave torn. *)
SaveCachedGameMemory(c) ==
    /\ job[c].at = "keep"
    /\ mem' = CachedGameRecord(c, job[c].sig)
    /\ GoWith(c, mem', "write")
    /\ UNCHANGED <<libDir, file, blind>>

SaveCachedGameFile(c) ==
    /\ job[c].at \in {"write", "rewrite"}
    /\ file' = [job[c].got EXCEPT !.late = @ \/ c \in blind]
    /\ Goto(c, IF job[c].at = "write" THEN After(c) ELSE "idle")
    /\ UNCHANGED <<libDir, mem, blind>>

(* InspectStatus and CheckGameUpdates keep the enriched record under the signature of that moment. *)
InspectStatusSave(c) ==
    /\ job[c].at = "enrich"
    /\ mem' = [CachedGameRecord(c, ComputeSentinelSignature) EXCEPT !.late = @ \/ job[c].got.late]
    /\ GoWith(c, mem', "rewrite")
    /\ UNCHANGED <<libDir, file, blind>>

-----------------------------------------------------------------------------
(* The operations that change the directory. *)

Running(kinds) == {d \in Callers : job[d].kind \in kinds}

(* A change of the rest passes unnoticed by every inspection under way, one of the sentinels by those that sign again. *)
ChangeRest ==
    /\ libDir.rest < MaxChange
    /\ libDir' = [libDir EXCEPT !.rest = @ + 1]
    /\ blind' = blind \cup Running({"inspect", "status"})

ChangeSentinels ==
    /\ libDir.sen < MaxChange
    /\ libDir' = [libDir EXCEPT !.sen = @ + 1]
    /\ blind' = blind \cup Running({"status"})

(* SaveProfileDirect replaces the profile by a rename; ResetProfile removes it. *)
SaveProfileDirect(c) ==
    /\ job[c].kind \in {"profile", "reset"} /\ job[c].at = "change"
    /\ ChangeSentinels
    /\ Goto(c, IF job[c].kind = "profile" THEN "forget" ELSE "idle")
    /\ UNCHANGED <<mem, file>>

(* The files are changed, perhaps the settings, and then the cache is told. *)
ApplyFiles(c) ==
    /\ job[c].kind = "apply" /\ job[c].at = "change"
    /\ ChangeRest
    /\ Goto(c, "settings")
    /\ UNCHANGED <<mem, file>>

ApplySettings(c) ==
    /\ job[c].at = "settings"
    /\ \/ ChangeSentinels
       \/ UNCHANGED <<libDir, blind>>
    /\ Goto(c, "forget")
    /\ UNCHANGED <<mem, file>>

(* InvalidateGameCache: the memory under the lock, then the file. *)
InvalidateMemory(c) ==
    /\ job[c].at = "forget"
    /\ mem' = NoRec
    /\ Goto(c, "unlink")
    /\ UNCHANGED <<libDir, file, blind>>

(* Mutant of InvalidateFile: only the memory is cleared. *)
InvalidateMemoryOnly(c) ==
    /\ job[c].at = "unlink"
    /\ Goto(c, IF job[c].kind = "reset" THEN "change" ELSE "idle")
    /\ UNCHANGED <<libDir, mem, file, blind>>

InvalidateFile(c) ==
    /\ job[c].at = "unlink"
    /\ file' = NoRec
    /\ Goto(c, IF job[c].kind = "reset" THEN "change" ELSE "idle")
    /\ UNCHANGED <<libDir, mem, blind>>

OutOfDate(rec) == IF rec = NoRec THEN rec ELSE [rec EXCEPT !.late = TRUE]

(* UninstallDepot removes files and tells nobody: every record there is, or is being made, is now out of date. *)
UninstallDepot(c) ==
    /\ job[c].kind = "uninstall" /\ job[c].at = "change"
    /\ ChangeRest
    /\ mem' = OutOfDate(mem)
    /\ file' = OutOfDate(file)
    /\ Goto(c, "idle")

(* The game is updated or replaced from outside: the executable's time and size change. *)
ReplaceExe ==
    /\ libDir.exe < MaxChange
    /\ libDir' = [libDir EXCEPT !.exe = @ + 1]
    /\ UNCHANGED <<mem, file, job, blind>>

(* gamux is killed.  os.WriteFile truncates before it writes, so a record being written may be lost; *)
(* a record that an operation was about to remove stays.                                            *)
Kill ==
    /\ \E c \in Callers : job[c] # NoJob
    /\ mem' = NoRec
    /\ \/ file' = IF Unannounced THEN OutOfDate(file) ELSE file
       \/ /\ \E c \in Callers : job[c].at \in {"write", "rewrite"}
          /\ file' = Torn
    /\ job' = [c \in Callers |-> NoJob]
    /\ blind' = {}
    /\ UNCHANGED libDir

-----------------------------------------------------------------------------
LibraryInit ==
    /\ libDir = [sen |-> 1, rest |-> 1, exe |-> 1]
    /\ mem = NoRec
    /\ file = NoRec
    /\ job = [c \in Callers |-> NoJob]
    /\ blind = {}

LibraryStep(c) ==
    \/ InspectLocal(c) \/ InspectStatus(c) \/ CheckGameUpdates(c) \/ CheckLibraryUpdates(c)
    \/ ApplyGame(c) \/ Rollback(c) \/ FetchGameDLCs(c) \/ StartUninstall(c)
    \/ SaveProfileMerged(c) \/ IncrementPlaytime(c) \/ ResetProfile(c)
    \/ Sign(c) \/ GetCachedGameMemory(c) \/ GetCachedGameFile(c) \/ GetCachedGamePromote(c)
    \/ InspectWalk(c) \/ InspectProfile(c)
    \/ SaveCachedGameMemory(c) \/ SaveCachedGameFile(c) \/ InspectStatusSave(c)
    \/ SaveProfileDirect(c) \/ ApplyFiles(c) \/ ApplySettings(c)
    \/ InvalidateMemory(c) \/ InvalidateFile(c) \/ UninstallDepot(c)

LibraryNext == (\E c \in Callers : LibraryStep(c)) \/ ReplaceExe \/ Kill

LibrarySpec == LibraryInit /\ [][LibraryNext]_libVars

(* Every record that a lookup would believe now, in memory or in the file, tells the directory as it is, unless  *)
(* its maker overlapped a change that the signature it kept it under cannot show (late), or an operation is      *)
(* between changing the files and telling the cache.  So stale answers have no other source than those two.      *)
CacheFresh ==
    \A rec \in {mem, file} :
        Usable(rec, libDir.sen) /\ ~rec.late /\ ~Unannounced
            => rec.sen = libDir.sen /\ rec.rest = libDir.rest

(* The same without the exemption: what the comment on CachedGameRecord promises.  It does not hold. *)
CacheFreshAlways ==
    \A rec \in {mem, file} :
        Usable(rec, libDir.sen) /\ ~Unannounced => rec.sen = libDir.sen /\ rec.rest = libDir.rest
=============================================================================
