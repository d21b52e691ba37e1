----------------------------- MODULE SaveBackups -----------------------------
(***************************************************************************)
(* saves.Service and saves.BackupManager for one game: snapshots of its     *)
(* save locations written to <id>.zip.tmp and renamed, rolling retention,   *)
(* restoring a snapshot location by location, and the Ludusavi database     *)
(* that is loaded in the background and that locations may depend on.       *)
(* Calls come from the front ends and from the goroutine that the engine    *)
(* starts at every game exit, so several may run at a time.                 *)
(***************************************************************************)
EXTENDS Naturals, FiniteSets, FiniteSetsExt

CONSTANTS
  Locations,   \* where the game keeps its data; each stands for the files below it
  Callers,     \* goroutines that call the service
  Retention,   \* retentionCount
  SameSecond,  \* two calls of CreateBackup may begin in one second
  MayFail,     \* a file may be unreadable or not writable
  MaxEdits,    \* bound on the changes the game makes
  MaxBackups,  \* bound on the calls of CreateBackup
  MaxCrashes   \* bound on the number of times gamux is killed

(* A location: the path <area>/<dir>/<base> and what makes it known.  An area is  *)
(* the emulator's directory for the application ("gse"), the game's directory,    *)
(* one of the user's directories in the Wine prefix, or the home directory.       *)
Path(l) == [area |-> l.area, dir |-> l.dir, base |-> l.base]

ASSUME SaveSets ==
  /\ \A l \in Locations : l.source \in {"disk", "database", "guess"}
  /\ Retention \in Nat \ {0}
  /\ SameSecond \in BOOLEAN /\ MayFail \in BOOLEAN
  /\ MaxEdits \in Nat /\ MaxBackups \in Nat /\ MaxCrashes \in Nat

VARIABLES
  disk,      \* the content of each location, a version number; 0 is no data
  index,     \* the database is loaded
  time,      \* the clock in seconds, of which an identifier is made
  calls,     \* the number of calls of CreateBackup, which also numbers the files
  file,      \* the content of every archive file ever created
  tmp, zip,  \* the directory: the file named <id>.zip.tmp and <id>.zip
  pc, id,    \* of each caller: where it is, the identifier it works on,
  handle,    \* the file it has open,
  todo,      \* and the locations or the identifiers it has yet to deal with
  success,   \* history: archives that CreateBackup reported and nobody deleted
  intact,    \* history: callers whose restoring nothing has disturbed
  crashes    \* history

saveVars == <<disk, index, time, calls, file, tmp, zip, pc, id, handle, todo, success, intact, crashes>>

Times == 1..MaxBackups
FileNos == 1..MaxBackups

(* BackupMetadata and the entries of a zip: the bytes under each name, the last   *)
(* ones written if there are several, and the hash taken for each location.       *)
(* Its modification time is that of its closing; 0 while it is open.              *)
Empty == [data |-> <<>>, hash |-> <<>>, writers |-> {}, closed |-> 0]

(* The caller returns: it lets go of its file. *)
Idle(c) ==
  /\ pc' = [pc EXCEPT ![c] = "idle"]
  /\ id' = [id EXCEPT ![c] = 0]
  /\ handle' = [handle EXCEPT ![c] = 0]

Put(f, k, v) == [x \in DOMAIN f \cup {k} |-> IF x = k THEN v ELSE f[x]]

SavesInit ==
  /\ disk = [l \in Locations |-> 1]
  /\ index = FALSE
  /\ time = 1 /\ calls = 0
  /\ file = [n \in FileNos |-> Empty]
  /\ tmp = [t \in Times |-> 0] /\ zip = [t \in Times |-> 0]
  /\ pc = [c \in Callers |-> "idle"]
  /\ id = [c \in Callers |-> 0] /\ handle = [c \in Callers |-> 0]
  /\ todo = [c \in Callers |-> {}]
  /\ success = {} /\ intact = {} /\ crashes = 0

-----------------------------------------------------------------------------
(* LoadOrFetch, from the disk or the network, in the goroutine of NewService. *)
Load ==
  /\ ~index /\ index' = TRUE
  /\ UNCHANGED <<disk, time, calls, file, tmp, zip, pc, id, handle, todo, success, intact, crashes>>

(* The game changes its data. *)
Play(l) ==
  /\ Max({disk[k] : k \in Locations}) < MaxEdits
  /\ disk' = [disk EXCEPT ![l] = Max({disk[k] : k \in Locations}) + 1]
  /\ intact' = {}
  /\ UNCHANGED <<index, time, calls, file, tmp, zip, pc, id, handle, todo, success, crashes>>

(* Resolve: what is on the disk at the usual places, what the database names,    *)
(* existing or not, and only if that is nothing, a guess by the game's name;      *)
(* of these CreateBackup takes the ones that hold something.                      *)
Known ==
  {l \in Locations : \/ l.source = "disk" /\ disk[l] # 0
                     \/ l.source = "database" /\ index}

Found ==
  {l \in (IF Known # {} THEN Known ELSE {l \in Locations : l.source = "guess"}) : disk[l] # 0}

-----------------------------------------------------------------------------
(* CreateBackup *)

(* Mutant of Open: the archive is written under its own name. *)
OpenInPlace(c) ==
  /\ pc[c] = "idle" /\ calls < MaxBackups /\ Found # {}
  /\ calls' = calls + 1
  /\ time' = calls' /\ id' = [id EXCEPT ![c] = time']
  /\ handle' = [handle EXCEPT ![c] = calls']
  /\ tmp' = [tmp EXCEPT ![time'] = calls'] /\ zip' = [zip EXCEPT ![time'] = calls']
  /\ file' = [file EXCEPT ![calls'] = [Empty EXCEPT !.writers = {c}]]
  /\ pc' = [pc EXCEPT ![c] = "adding"]
  /\ todo' = [todo EXCEPT ![c] = Found]
  /\ UNCHANGED <<disk, index, success, intact, crashes>>

(* The locations are resolved, the identifier is the second it is now, and its  *)
(* temporary file is created or, if another caller has it open, truncated.      *)
Open(c) ==
  /\ pc[c] = "idle" /\ calls < MaxBackups /\ Found # {}
  /\ calls' = calls + 1
  /\ time' \in (IF SameSecond /\ calls > 0 THEN {time, time + 1} ELSE {calls'})
  /\ id' = [id EXCEPT ![c] = time']
  /\ handle' = [handle EXCEPT ![c] = IF tmp[time'] # 0 THEN tmp[time'] ELSE calls']
  /\ tmp' = [tmp EXCEPT ![time'] = handle'[c]]
  /\ file' = [file EXCEPT ![handle'[c]] = [Empty EXCEPT !.writers = {c} \cup file[handle'[c]].writers]]
  /\ pc' = [pc EXCEPT ![c] = "adding"]
  /\ todo' = [todo EXCEPT ![c] = Found]
  /\ UNCHANGED <<disk, index, zip, success, intact, crashes>>

(* The walk over the locations, in any order: what cannot be read is left out. *)
Add(c, l) ==
  /\ pc[c] = "adding" /\ l \in todo[c]
  /\ todo' = [todo EXCEPT ![c] = @ \ {l}]
  /\ \/ file' = [file EXCEPT ![handle[c]].data = Put(@, l.base, disk[l]),
                             ![handle[c]].hash = Put(@, l, disk[l])]
     \/ MayFail /\ UNCHANGED file
  /\ UNCHANGED <<disk, index, time, calls, tmp, zip, pc, id, handle, success, intact, crashes>>

(* Nothing could be read: the temporary file is removed. *)
GiveUp(c) ==
  /\ pc[c] = "adding" /\ todo[c] = {} /\ file[handle[c]].hash = <<>>
  /\ tmp' = [tmp EXCEPT ![id[c]] = 0]
  /\ Idle(c)
  /\ UNCHANGED <<disk, index, time, calls, file, zip, todo, success, intact, crashes>>

(* The metadata is written, the file closed and whatever is at the temporary   *)
(* name renamed; if nothing is there any more CreateBackup fails.              *)
Finalize(c) ==
  /\ pc[c] = "adding" /\ todo[c] = {} /\ file[handle[c]].hash # <<>>
  /\ file' = [file EXCEPT ![handle[c]].closed = Max({file[n].closed : n \in FileNos}) + 1]
  /\ IF tmp[id[c]] # 0
     THEN /\ zip' = [zip EXCEPT ![id[c]] = tmp[id[c]]]
          /\ pc' = [pc EXCEPT ![c] = "pruning"]
          /\ success' = success \cup {tmp[id[c]]}
          /\ UNCHANGED <<id, handle>>
     ELSE Idle(c) /\ UNCHANGED <<zip, success>>
  /\ tmp' = [tmp EXCEPT ![id[c]] = 0]
  /\ UNCHANGED <<disk, index, time, calls, todo, intact, crashes>>

Archives == {t \in Times : zip[t] # 0}

Excess == IF Cardinality(Archives) > Retention THEN Cardinality(Archives) - Retention ELSE 0

Before(t, u) == file[zip[t]].closed < file[zip[u]].closed

(* Mutant of Victims: sorted the other way round. *)
VictimsNewest ==
  CHOOSE v \in SUBSET Archives :
    Cardinality(v) = Excess /\ \A t \in v, u \in Archives \ v : Before(u, t)

(* pruneOldBackups: the oldest by modification time, as many as are too many. *)
Victims ==
  CHOOSE v \in SUBSET Archives :
    Cardinality(v) = Excess /\ \A t \in v, u \in Archives \ v : Before(t, u)

(* The directory is read, *)
PruneList(c) ==
  /\ pc[c] = "pruning"
  /\ pc' = [pc EXCEPT ![c] = "removing"]
  /\ todo' = [todo EXCEPT ![c] = Victims]
  /\ UNCHANGED <<disk, index, time, calls, file, tmp, zip, id, handle, success, intact, crashes>>

(* and each archive removed. *)
PruneRemove(c) ==
  /\ pc[c] = "removing"
  /\ \E t \in todo[c] :
       /\ zip' = [zip EXCEPT ![t] = 0]
       /\ todo' = [todo EXCEPT ![c] = @ \ {t}]
  /\ UNCHANGED <<disk, index, time, calls, file, tmp, pc, id, handle, success, intact, crashes>>

(* CreateBackup returns; its deferred call removes the temporary name once more. *)
Return(c) ==
  /\ pc[c] = "removing" /\ todo[c] = {}
  /\ Idle(c)
  /\ tmp' = [tmp EXCEPT ![id[c]] = 0]
  /\ UNCHANGED <<disk, index, time, calls, file, zip, todo, success, intact, crashes>>

(* DeleteBackup *)
Delete(t) ==
  /\ zip[t] # 0
  /\ zip' = [zip EXCEPT ![t] = 0]
  /\ success' = success \ {zip[t]}
  /\ UNCHANGED <<disk, index, time, calls, file, tmp, pc, id, handle, todo, intact, crashes>>

-----------------------------------------------------------------------------
(* RestoreBackup *)

Readable(n) == file[n].closed # 0 /\ Cardinality(file[n].writers) = 1

(* The archive is opened and its metadata read. *)
Restore(c, t) ==
  /\ pc[c] = "idle" /\ zip[t] # 0 /\ Readable(zip[t])
  /\ pc' = [pc EXCEPT ![c] = "restoring"]
  /\ handle' = [handle EXCEPT ![c] = zip[t]]
  /\ todo' = [todo EXCEPT ![c] = DOMAIN file[zip[t]].hash]
  /\ intact' = {c}
  /\ UNCHANGED <<disk, index, time, calls, file, tmp, zip, id, success, crashes>>

(* Mutant of deriveSemanticPrefix: what is in the prefix is taken for <home>. *)
deriveHome(l) == IF l.area \in {"game", "gse"} THEN Path(l) ELSE [Path(l) EXCEPT !.area = "home"]

(* The path with the area's tag for the area; everything of the emulator has the *)
(* same one.                                                                     *)
deriveSemanticPrefix(l) ==
  IF l.area = "gse" THEN [tag |-> "<gbeRemote>"] ELSE Path(l)

(* The path it stands for on this device. *)
TargetPath(sem) ==
  IF "tag" \in DOMAIN sem THEN [area |-> "gse", dir |-> "", base |-> "remote"] ELSE sem

(* One entry is extracted beside its target and renamed; a failure is logged.     *)
Extract(c, l) ==
  /\ pc[c] = "restoring" /\ l \in todo[c]
  /\ todo' = [todo EXCEPT ![c] = @ \ {l}]
  /\ \/ /\ disk' = [k \in Locations |-> IF Path(k) = TargetPath(deriveSemanticPrefix(l))
                                        THEN file[handle[c]].data[l.base] ELSE disk[k]]
        /\ intact' = intact \cap {c}
     \/ /\ MayFail
        /\ intact' = intact \ {c}
        /\ UNCHANGED disk
  /\ UNCHANGED <<index, time, calls, file, tmp, zip, pc, id, handle, success, crashes>>

(* RestoreBackup returns nil. *)
Restored(c) ==
  /\ pc[c] = "restoring" /\ todo[c] = {}
  /\ Idle(c)
  /\ intact' = intact \ {c}
  /\ UNCHANGED <<disk, index, time, calls, file, tmp, zip, todo, success, crashes>>

(* gamux is killed; temporary files stay. *)
Crash ==
  /\ crashes < MaxCrashes
  /\ crashes' = crashes + 1
  /\ index' = FALSE
  /\ pc' = [c \in Callers |-> "idle"]
  /\ id' = [c \in Callers |-> 0] /\ handle' = [c \in Callers |-> 0]
  /\ todo' = [c \in Callers |-> {}]
  /\ intact' = {}
  /\ UNCHANGED <<disk, time, calls, file, tmp, zip, success>>

-----------------------------------------------------------------------------
SavesNext ==
  \/ Load \/ Crash
  \/ \E l \in Locations : Play(l)
  \/ \E t \in Times : Delete(t)
  \/ \E c \in Callers :
       \/ Open(c) \/ GiveUp(c) \/ Finalize(c) \/ PruneList(c) \/ PruneRemove(c) \/ Return(c) \/ Restored(c)
       \/ \E l \in Locations : Add(c, l) \/ Extract(c, l)
       \/ \E t \in Times : Restore(c, t)

SavesSpec == SavesInit /\ [][SavesNext]_saveVars

-----------------------------------------------------------------------------
(* Every <id>.zip in the directory is a closed archive of one writer, whenever     *)
(* gamux is killed and whoever else is making a backup (CreateBackup).             *)
ArchivesWhole == \A t \in Archives : Readable(zip[t])

(* An archive that CreateBackup reported disappears only when the user deletes it   *)
(* or when Retention younger ones have been made, also when several calls prune     *)
(* at a time (pruneOldBackups).                                                     *)
RetentionKeepsNewest ==
  \A n \in success :
    \/ \E t \in Times : zip[t] = n
    \/ Cardinality({m \in FileNos : file[m].closed > file[n].closed}) >= Retention

(* The snapshots a user may count on: whole, and kept until newer ones replace them  *)
(* (CreateBackup, pruneOldBackups).                                                  *)
SnapshotsKept == ArchivesWhole /\ RetentionKeepsNewest

(* Restoring an archive, while nothing else writes and no file fails, gives every    *)
(* location that was recorded the content it had when it was recorded                *)
(* (deriveSemanticPrefix in CreateBackup against the replacements in RestoreBackup). *)
RoundTrip ==
  \A c \in Callers :
    (pc[c] = "restoring" /\ todo[c] = {} /\ c \in intact) =>
      \A l \in DOMAIN file[handle[c]].hash : disk[l] = file[handle[c]].hash[l]

(* What the comment of CreateBackup says: the archive has every location that held   *)
(* something. It does not hold: the database may not be loaded yet and a file that   *)
(* cannot be read is left out.                                                       *)
BackupComplete ==
  [][\A c \in Callers : Finalize(c) =>
       \A l \in Locations : l.source # "guess" /\ disk[l] # 0 => l \in DOMAIN file[handle[c]].hash]_saveVars
=============================================================================
