------------------------------ MODULE Emulator ------------------------------
(***************************************************************************)
(* The Goldberg emulator in one game directory: gbe.Apply in portable and  *)
(* in loader mode, gbe.Revert, and the .ORIGINAL backups both rest on      *)
(* (src/gbe/gbe.go, revert.go, loader.go, settings.go, interfaces.go,      *)
(* src/util/util.go, reached through the strategies of                     *)
(* src/compat/strategy.go).                                                *)
(*                                                                         *)
(* The directory holds one Steamworks library ("lib": steam_api64.dll or   *)
(* libsteam_api.so) and possibly the client library next to it ("client":  *)
(* steamclient64.dll or steamclient.so), both beside the executable in a   *)
(* subdirectory Bin of the game's root.  A file is abstracted to who wrote *)
(* it and in which version.  Backups carry a timestamp in their name, so   *)
(* the lexical order in which directories are read is the order in which   *)
(* the backups were made: baks[f] lists them oldest first.                 *)
(***************************************************************************)
EXTENDS Naturals, Sequences, FiniteSets

CONSTANTS Regimes,       \* how the game may be treated, see RegimeType
          MaxGame,       \* bound: versions of the game
          MaxEmu,        \* bound: releases of the emulator
          MaxBaks        \* bound: backups per file

Files == {"lib", "client"}
Dirs == {"root", "bin"}
AllModes == {"portable", "loader", "revert"}

Platforms == {"windows", "linux"}

RegimeType ==
    [platforms : SUBSET Platforms,                                 \* of the game
     client    : BOOLEAN,                                          \* it ships the client library itself
     modes     : SUBSET AllModes,                                  \* the operations asked for
     faults    : SUBSET {"kept", "uncreated", "torn", "stuck"},    \* the failures of the disk
     patched   : BOOLEAN]  \* the game and the emulator are updated while the game is patched too

ASSUME EmulatorAssumption ==
    /\ Regimes \subseteq RegimeType
    /\ MaxGame \in Nat \ {0} /\ MaxEmu \in Nat \ {0} /\ MaxBaks \in Nat \ {0}

Absent == [by |-> "nobody", ver |-> 0]
Torn == [by |-> "torn", ver |-> 0]         \* a copy that stopped half-way
Link == [by |-> "emulator", ver |-> 0]     \* a symlink into the emulator's directory
Game(v) == [by |-> "game", ver |-> v]
Emu(v) == [by |-> "emulator", ver |-> v]

VARIABLES regime,    \* never changes
          platform,  \* the game's platform
          content,   \* content[f]: what the file holds
          baks,      \* baks[f]: its .ORIGINAL backups, oldest first
          ifaces,    \* the binary steam_interfaces.txt was extracted from
          artifacts, \* <<kind, directory>> of the emulator's other files
          game,      \* version of the game installed last
          emu,       \* release in the emulator's own directory (GbeDir)
          op         \* the operation that completed last

emuVars == <<regime, platform, content, baks, ifaces, artifacts, game, emu, op>>

Modes == regime.modes
Faults == regime.faults
Unpatched == \A f \in Files : baks[f] = <<>>

Ships == IF regime.client THEN Files ELSE {"lib"}
Contents == {Torn, Link} \cup {Game(v) : v \in 1 .. MaxGame} \cup {Emu(v) : v \in 1 .. MaxEmu}
Windows == platform = "windows"
Kinds == {"client", "appid", "settings"}

-----------------------------------------------------------------------------
(* util.BackupAndReplace(src, dest): rename dest to a timestamped backup,  *)
(* then CopyFile, which creates dest and streams into it.  "kept": the     *)
(* rename fails and nothing changes; "uncreated": os.Create fails;         *)
(* "torn": io.Copy fails half-way.                                         *)
Outcomes == {"copied"} \cup (Faults \ {"stuck"})
Stuck == IF "stuck" \in Faults THEN BOOLEAN ELSE {FALSE}

Replaced(old, outcome) ==
    CASE outcome = "copied"    -> Emu(emu)
      [] outcome = "torn"      -> Torn
      [] outcome = "uncreated" -> Absent
      [] outcome = "kept"      -> old

(* Mutant: one fixed .ORIGINAL name, so a second backup overwrites the     *)
(* first.                                                                  *)
BackedUpOver(bs, old, outcome) == IF outcome = "kept" THEN bs ELSE <<old>>

BackedUp(bs, old, outcome) == IF outcome = "kept" THEN bs ELSE Append(bs, old)

(* The walk of gbe.Apply for files named platformCfg.Target.               *)
TargetFound == content["lib"] # Absent

(* Mutant of InterfaceSource: the library in place is read. *)
InterfaceSourceInPlace(c, b) == c["lib"]

(* The binary the interface names are read from: the first backup in       *)
(* directory order, else the library itself (the state after the replace). *)
InterfaceSource(c, b) == IF b["lib"] # <<>> THEN b["lib"][1] ELSE c["lib"]

(* GenerateAndSaveInterfaces: a source that cannot be read writes nothing. *)
GenerateAndSaveInterfaces(c, b) ==
    IF InterfaceSource(c, b) = Absent THEN ifaces ELSE InterfaceSource(c, b)

(* What every Apply leaves behind besides libraries: steam_appid.txt and   *)
(* steam_settings in the root and beside the executable and the library    *)
(* (FetchDLCs, ResolveTargetSettingsDirs, SyncEmulatorSettings).           *)
SettingsEverywhere == {"appid", "settings"} \X Dirs

(* CleanLoaderArtifacts: the walk removes every file with a loader's name; *)
(* the client library of Windows is one of them, whoever wrote it.         *)
CleanLoaderArtifacts(c) == IF Windows THEN [c EXCEPT !["client"] = Absent] ELSE c

(* gbe.Apply, portable: clean loader artifacts, replace the library unless *)
(* its hash is the emulator's, replace the client library whenever one is  *)
(* there.  A failed replacement of the library is logged and skips the     *)
(* rest of the work for it, yet Apply returns nil.                         *)
ApplyPortable(out) ==
    LET c0       == CleanLoaderArtifacts(content)
        outdated == TargetFound /\ content["lib"] # Emu(emu)
        failed   == outdated /\ out["lib"] # "copied"
        replaced == {f \in Files :
                       \/ f = "lib" /\ outdated
                       \/ f = "client" /\ TargetFound /\ ~failed /\ c0["client"] # Absent}
        c1       == [f \in Files |-> IF f \in replaced THEN Replaced(c0[f], out[f]) ELSE c0[f]]
        b1       == [f \in Files |-> IF f \in replaced THEN BackedUp(baks[f], c0[f], out[f])
                                     ELSE baks[f]]
    IN /\ "portable" \in Modes
       /\ \A f \in Files : Len(b1[f]) <= MaxBaks
       /\ content' = c1
       /\ baks' = b1
       /\ ifaces' = IF TargetFound /\ ~failed THEN GenerateAndSaveInterfaces(c1, b1) ELSE ifaces
       /\ artifacts' = (artifacts \ (IF Windows THEN {<<"client", "root">>} ELSE {}))
                         \cup SettingsEverywhere
       /\ op' = "portable"
       /\ UNCHANGED <<regime, platform, game, emu>>

(* Mutant of RestoreOriginalBackup: the backup is left where it is. *)
RestoreNothing(c, b, stuck) == [c |-> c, b |-> b]

(* RestoreOriginalBackup(targetFile): the file is removed and the first    *)
(* backup in directory order renamed to it; when renames fail, the file    *)
(* stays removed.                                                          *)
RestoreOriginalBackup(c, b, stuck) ==
    IF b["lib"] = <<>> THEN [c |-> c, b |-> b]
    ELSE IF stuck THEN [c |-> [c EXCEPT !["lib"] = Absent], b |-> b]
    ELSE [c |-> [c EXCEPT !["lib"] = b["lib"][1]], b |-> [b EXCEPT !["lib"] = Tail(@)]]

(* SetupLoaderMode: on Windows, links to the client libraries replace what *)
(* stands beside the library (and in the root, see ApplyLoader).           *)
SetupLoaderMode(c) == IF Windows THEN [c EXCEPT !["client"] = Link] ELSE c

(* gbe.Apply, loader: for the library found, restore its backup and set up *)
(* the loader.                                                             *)
ApplyLoader(stuck) ==
    LET r  == IF TargetFound THEN RestoreOriginalBackup(content, baks, stuck)
              ELSE [c |-> content, b |-> baks]
        c1 == IF TargetFound THEN SetupLoaderMode(r.c) ELSE r.c
    IN /\ "loader" \in Modes
       /\ content' = c1
       /\ baks' = r.b
       /\ ifaces' = IF TargetFound THEN GenerateAndSaveInterfaces(c1, r.b) ELSE ifaces
       /\ artifacts' = artifacts \cup SettingsEverywhere
                         \cup (IF TargetFound /\ Windows THEN {<<"client", "root">>} ELSE {})
       /\ op' = "loader"
       /\ UNCHANGED <<regime, platform, game, emu>>

(* Mutant of Revert: the backups are deleted, not renamed. *)
RevertUnrestored(stuck) ==
    /\ "revert" \in Modes
    /\ baks' = [f \in Files |-> <<>>]
    /\ ifaces' = Absent
    /\ artifacts' = {}
    /\ op' = "revert"
    /\ UNCHANGED <<regime, platform, content, game, emu>>

(* gbe.Revert: one walk in lexical order removes the files with a loader's *)
(* name and steam_settings, and renames every backup over its target, so   *)
(* the youngest one is what stays; then the root's steam_appid.txt goes.   *)
(* A rename that fails is logged.                                          *)
Revert(stuck) ==
    LET c0       == CleanLoaderArtifacts(content)
        restored == {f \in Files : baks[f] # <<>> /\ ~stuck[f]}
    IN /\ "revert" \in Modes
       /\ content' = [f \in Files |-> IF f \in restored THEN baks[f][Len(baks[f])] ELSE c0[f]]
       /\ baks' = [f \in Files |-> IF f \in restored THEN <<>> ELSE baks[f]]
       /\ ifaces' = Absent
       /\ artifacts' = {a \in artifacts : a[1] = "appid" /\ a[2] # "root"}
       /\ op' = IF \E f \in Files : stuck[f] THEN "stuck" ELSE "revert"
       /\ UNCHANGED <<regime, platform, game, emu>>

(* A depot update writes the game's own files of the next version over     *)
(* whatever is there (external to this component).                         *)
UpdateGame ==
    /\ game < MaxGame
    /\ regime.patched \/ Unpatched
    /\ game' = game + 1
    /\ content' = [f \in Files |-> IF f \in Ships THEN Game(game + 1) ELSE content[f]]
    /\ op' = "update"
    /\ UNCHANGED <<regime, platform, baks, ifaces, artifacts, emu>>

(* github.UpdateGBE unpacks a newer release into the emulator's directory. *)
UpdateGBE ==
    /\ emu < MaxEmu
    /\ regime.patched \/ Unpatched
    /\ emu' = emu + 1
    /\ op' = "upgrade"
    /\ UNCHANGED <<regime, platform, content, baks, ifaces, artifacts, game>>

EmulatorInit ==
    /\ regime \in Regimes
    /\ platform \in regime.platforms
    /\ content = [f \in Files |-> IF f \in Ships THEN Game(1) ELSE Absent]
    /\ baks = [f \in Files |-> <<>>]
    /\ ifaces = Absent
    /\ artifacts = {}
    /\ game = 1
    /\ emu = 1
    /\ op = "install"

EmulatorNext ==
    \/ \E out \in [Files -> Outcomes] : ApplyPortable(out)
    \/ \E stuck \in Stuck : ApplyLoader(stuck)
    \/ \E stuck \in [Files -> Stuck] : Revert(stuck)
    \/ UpdateGame
    \/ UpdateGBE

EmulatorSpec == EmulatorInit /\ [][EmulatorNext]_emuVars

-----------------------------------------------------------------------------
(* Every file holds a known content and at most MaxBaks backups; the       *)
(* emulator's other files are of the kinds Apply writes.                   *)
EmulatorTypeOK ==
    /\ regime \in Regimes /\ platform \in regime.platforms
    /\ content \in [Files -> Contents \cup {Absent}]
    /\ baks \in [Files -> Seq(Contents)] /\ \A f \in Files : Len(baks[f]) <= MaxBaks
    /\ ifaces \in Contents \cup {Absent}
    /\ artifacts \subseteq Kinds \X Dirs
    /\ game \in 1 .. MaxGame /\ emu \in 1 .. MaxEmu
    /\ op \in AllModes \cup {"install", "update", "upgrade", "stuck"}

Official == Game(game)

(* What gbe.Revert promises: afterwards every library the game ships holds *)
(* the game's own bytes, in the version installed last, whatever sequence  *)
(* of applications, mode changes and updates came before.                  *)
RevertRestores == op = "revert" => \A f \in Ships : content[f] = Official

(* What loader mode promises: after it is applied, no library of the game  *)
(* is anyone else's or of an older version, even when portable mode had    *)
(* replaced it (a failed rename may leave it missing, its backup kept).    *)
LoaderPristine == op = "loader" => \A f \in Ships : content[f] \in {Official, Absent}

(* Whatever mode the game leaves, it has its own libraries again           *)
(* (gbe.Revert, and RestoreOriginalBackup before loader mode).             *)
OriginalsRestored == RevertRestores /\ LoaderPristine

(* The backups are the only copy of the official library while the         *)
(* emulator sits in its place: no operation may destroy the last one.      *)
NeverLost == \A f \in Ships : \/ content[f] = Official
                               \/ \E i \in 1 .. Len(baks[f]) : baks[f][i] = Official

(* The interface list the emulator is given (steam_interfaces.txt) always  *)
(* comes from the game's library: never from the emulator that replaced it *)
(* and never from a torn copy.                                             *)
InterfacesOfGame == ifaces # Absent => ifaces.by = "game"

(* While the emulator is in place the game's own library is kept and is    *)
(* the one it is configured from (BackupAndReplace, InterfaceSource).      *)
OriginalKept == NeverLost /\ InterfacesOfGame

(* After a revert nothing of the emulator is left in the directory.        *)
RevertCleans ==
    op = "revert" => /\ artifacts = {}
                     /\ \A f \in Files : content[f].by # "emulator" /\ baks[f] = <<>>
=============================================================================
