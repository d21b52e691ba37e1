------------------------------- MODULE Depots -------------------------------
(***************************************************************************)
(* The depots of one game: which of them a filter selects (classification, *)
(* platform, language, conflicts between editions), and the operations     *)
(* that put their files into the game's directory, take them out and       *)
(* compare the directory with the manifests (package manifest, the engine's*)
(* DownloadGame, UninstallDepot and VerifyIntegrity).                      *)
(*                                                                         *)
(* A file is its path with the hash the manifest gives it; a depot's files *)
(* are abstracted to the kinds and markers the rules look for.             *)
(***************************************************************************)
EXTENDS Integers, FiniteSets, FiniteSetsExt

CONSTANTS
    Catalog,         \* the depots: number -> what its manifest and Steam's metadata say (see DepotRecord)
    Kind,            \* path -> "exe" (or .dll), "elf", "mac", "lib" (a shared object), "media", "data"
    EmuPaths,        \* paths of steam_api libraries, which the emulator replaces
    Requests,        \* the filters downloads are asked with
    SystemLanguage,  \* what the environment of the process says
    MaxDamage        \* bound: files damaged by others

Depot == DOMAIN Catalog
Paths == DOMAIN Kind

(* Steam's metadata: lang, os, arch, optional, dlc, and word, what the name says: "soundtrack", "hd", "voice",   *)
(* "dlc" or a language. From the manifest: script, the region of an install script; tongue, a language (or "hd") *)
(* that most of the paths name; files: path -> hash.                                                             *)
DepotRecord(d) ==
    /\ {"lang", "os", "arch", "optional", "dlc", "word", "script", "tongue", "files"} = DOMAIN Catalog[d]
    /\ DOMAIN Catalog[d].files \subseteq Paths
    /\ \A p \in DOMAIN Catalog[d].files : Catalog[d].files[p] \notin {"none", "cut", "rot", "emu"}

ASSUME DepotsAssumption ==
    /\ \A d \in Depot : d \in Nat /\ DepotRecord(d)
    /\ EmuPaths \subseteq Paths /\ MaxDamage \in Nat /\ IsFiniteSet(Paths) /\ IsFiniteSet(Depot)

VARIABLES
    depDisk,     \* what stands at each path: a hash, "cut" (another size), "rot" (the same size), "emu" or "none"
    depKept,     \* paths with an original kept beside them by the emulator
    depDone,     \* history: the filter of the last completed download
    damaged,     \* history: paths that others, or an uninstallation, changed since then
    depOp        \* history: the last operation and the depot it was for

depVars == <<depDisk, depKept, depDone, damaged, depOp>>

FilesOf(d) == Catalog[d].files
PathsOf(d) == DOMAIN FilesOf(d)
KindsOf(d) == {Kind[p] : p \in PathsOf(d)}

-----------------------------------------------------------------------------
(* Classification. *)

(* The platform the kinds of the files point to; a depot of media is a soundtrack, a mixture is for all. *)
ClassifyDepot(d) ==
    LET on == {k \in {"exe", "elf", "mac"} : k \in KindsOf(d)} IN
    CASE KindsOf(d) = {"media"} -> "soundtrack"
      [] on = {"exe"} -> "windows"
      [] on = {"elf"} -> "linux"
      [] on = {"mac"} -> "macos"
      [] OTHER -> "common"

containsExecutable(d) == KindsOf(d) \cap {"exe", "elf", "mac", "lib"} # {}

(* What is known of a depot without its manifest: nothing when Steam could not be asked. *)
DepotMeta(d, known) ==
    IF known THEN Catalog[d]
    ELSE [Catalog[d] EXCEPT !.lang = "", !.os = "", !.arch = "", !.optional = FALSE, !.dlc = FALSE, !.word = ""]

(* A rule gives a category with a language, or nothing. *)
classifyByKeywords(word) == {<<c, "">> : c \in {word} \cap {"soundtrack", "hd"}}

(* Steam's metadata: a language makes a language pack only of a depot that is optional or says so in its name. *)
classifyByMeta(m) ==
    IF classifyByKeywords(m.word) # {} THEN classifyByKeywords(m.word)
    ELSE IF m.lang # "" /\ (m.optional \/ m.word = "voice") THEN {<<"locale", m.lang>>}
    ELSE IF m.dlc THEN {<<"dlc", "">>} ELSE {}

classifyByName(m) ==
    CASE m.word = "dlc" -> {<<"dlc", "">>}
      [] m.word \notin {"", "voice", "dlc"} -> {<<"locale", m.word>>}
      [] OTHER -> {}

classifyByFiles(d) ==
    IF ClassifyDepot(d) = "soundtrack" THEN {<<"soundtrack", "">>}
    ELSE IF Catalog[d].tongue = "hd" THEN {<<"hd", "">>}
    ELSE IF Catalog[d].tongue # "" THEN {<<"locale", Catalog[d].tongue>>} ELSE {}

Only(rule) == CHOOSE c \in rule : TRUE

(* The first rule that says something wins; executables make a depot of the base game part of its core. *)
ClassifyDepotContent(d, m) ==
    IF m.dlc THEN Only(classifyByMeta(m))
    ELSE IF containsExecutable(d) THEN <<"core", "">>
    ELSE IF classifyByMeta(m) # {} THEN Only(classifyByMeta(m))
    ELSE IF classifyByName(m) # {} THEN Only(classifyByName(m))
    ELSE IF classifyByFiles(d) # {} THEN Only(classifyByFiles(d)) ELSE <<"core", "">>

Chinese == {"schinese", "tchinese"}
Lusophone == {"portuguese", "brazilian"}

(* Normalized names; "all" and none match everything. *)
LanguagesMatch(a, b) ==
    a = b \/ {a, b} \cap {"", "all"} # {} \/ {a, b} \subseteq Chinese \/ {a, b} \subseteq Lusophone

MatchesPlatform(cat, platform) ==
    cat = "common" \/ cat = [win64 |-> "windows", win32 |-> "windows", linux |-> "linux", macos |-> "macos",
                             soundtrack |-> "soundtrack"][platform]

MatchesOSList(os, platform) == os \in {"", "all"} \/ MatchesPlatform(os, platform)

(* Steam's list of systems, where it has one, counts before what the files look like. *)
RightPlatform(d, m, platform) ==
    IF m.os # "" THEN MatchesOSList(m.os, platform) ELSE MatchesPlatform(ClassifyDepot(d), platform)

(* A 32-bit depot gives way to a 64-bit one of the same kind. *)
RightArch(d, f) ==
    LET m == DepotMeta(d, f.meta) IN
    /\ ~ /\ f.platform = "win64" /\ m.arch = "32"
         /\ \E o \in Depot \ {d} : LET mo == DepotMeta(o, f.meta) IN
              mo.arch = "64" /\ MatchesOSList(mo.os, f.platform) /\ mo.dlc = m.dlc
    /\ ~(f.platform = "win32" /\ m.arch = "64")

(* A filter: platform ("" for any), language, the depots asked for or refused by number, whether optional ones    *)
(* count and whether Steam's metadata is there.                                                                   *)
ShouldIncludeDepot(d, f) ==
    LET m == DepotMeta(d, f.meta)
        c == ClassifyDepotContent(d, m)
    IN
    /\ d \notin f.excluded
    /\ IF f.included # {} THEN d \in f.included
       ELSE /\ f.platform # "" => RightPlatform(d, m, f.platform) /\ RightArch(d, f)
            /\ c[1] = "soundtrack" => f.platform = "soundtrack" \/ f.optional
            /\ c[1] = "hd" => f.optional
            /\ c[1] = "locale" => LanguagesMatch(c[2], IF f.language = "" THEN "english" ELSE f.language)

-----------------------------------------------------------------------------
(* Conflicts. *)

hasConflict(a, b) == \E p \in PathsOf(a) \cap PathsOf(b) : FilesOf(a)[p] # FilesOf(b)[p]

(* The metadata's language, the region of the install script and, per file, the language its path names. *)
scoreDepotAffinity(d, m, lang) ==
    LET says(l, points) == IF LanguagesMatch(l, lang) THEN points ELSE -points
        paths == 2 * Cardinality(PathsOf(d))
    IN  (IF m.lang # "" THEN says(m.lang, 60) ELSE 0) + (IF m.dlc THEN 20 ELSE 0)
        + (CASE m.script = "" -> 0
             [] m.script = "english" -> IF lang = "english" THEN 80 ELSE 0
             [] m.script = "german" -> IF LanguagesMatch("german", lang) THEN 80 ELSE -60
             [] OTHER -> says(m.script, 80))
        + (CASE m.tongue \in {"japanese", "russian"} -> says(m.tongue, paths)
             [] m.tongue = "english" /\ lang = "english" -> paths
             [] OTHER -> 0)

TargetLanguage(f) ==
    CASE f.language = "" -> SystemLanguage
      [] f.language = "all" -> "english"
      [] OTHER -> f.language

countConflicts(d, active) == Cardinality({o \in active \ {d} : hasConflict(d, o)})

(* Of a conflicting pair a < b, the one that has to go. *)
Loser(a, b, active, lang, known) ==
    LET score(d) == scoreDepotAffinity(d, DepotMeta(d, known), lang)
    IN  CASE score(a) > score(b) -> b
          [] score(a) < score(b) -> a
          [] OTHER -> IF countConflicts(b, active) < countConflicts(a, active) THEN a ELSE b

(* The conflicting pair that comes first in the order of the numbers. *)
FirstOf(pairs) == CHOOSE x \in pairs : \A y \in pairs : x[1] < y[1] \/ (x[1] = y[1] /\ x[2] <= y[2])

Conflicts(active) == {x \in active \X active : x[1] < x[2] /\ hasConflict(x[1], x[2])}

(* Mutant of ReconcileDepots: only the first conflict is settled. *)
ReconcileOnce(candidates, f) ==
    IF Conflicts(candidates) = {} THEN candidates
    ELSE LET x == FirstOf(Conflicts(candidates)) IN candidates \ {Loser(x[1], x[2], candidates, TargetLanguage(f), f.meta)}

(* The first conflicting pair is settled, until there is none. *)
Settled(candidates, lang, known) ==
    LET settle[active \in SUBSET candidates] ==
          IF Conflicts(active) = {} THEN active
          ELSE LET x == FirstOf(Conflicts(active)) IN settle[active \ {Loser(x[1], x[2], active, lang, known)}]
    IN  settle[candidates]

(* ReconcileDepots works out the language first and looks at the filter no more. *)
ReconcileDepots(candidates, f) == Settled(candidates, TargetLanguage(f), f.meta)

(* LoadManifestFromDirWithFilter: the depots a filter selects of those in [Manifests], which holds them all once   *)
(* anything was downloaded; when the language leaves none, languages do not count.                                 *)
Candidates(f) ==
    LET strict == {d \in Depot : ShouldIncludeDepot(d, f)}
        relaxed == {d \in Depot : ShouldIncludeDepot(d, [f EXCEPT !.language = "all"])}
    IN  IF strict = {} /\ f.language \notin {"", "all"} THEN relaxed ELSE strict

SelectedBy(f) == ReconcileDepots(Candidates(f), f)

(* A verification asks for a platform, in no language and without Steam's metadata; a plain download asks in the  *)
(* system's language, and goes without the metadata when Steam does not answer.                                   *)
VerifyFilter(platform) ==
    [platform |-> platform, language |-> "", included |-> {}, excluded |-> {}, optional |-> FALSE, meta |-> FALSE]

PlainFilter(platform) == [VerifyFilter(platform) EXCEPT !.language = SystemLanguage]

Filters == Requests \cup {VerifyFilter(p) : p \in {"win64", "linux"}}

Selected == [f \in Filters |-> SelectedBy(f)]

(* The merged list of files; of a path in several depots the first counts. *)
Merged(depots) ==
    [p \in UNION {PathsOf(d) : d \in depots} |-> FilesOf(Min({d \in depots : p \in PathsOf(d)}))[p]]

FilesFor == [f \in Filters |-> Merged(Selected[f])]

-----------------------------------------------------------------------------
(* Operations. *)

(* DownloadGame to its end: every selected file is brought to its content. *)
DownloadGame(f) ==
    /\ \E files \in {FilesFor[f]} :
         /\ depDisk' = [p \in Paths |-> IF p \in DOMAIN files THEN files[p] ELSE depDisk[p]]
         /\ damaged' = {p \in damaged : p \notin DOMAIN files}
    /\ depDone' = f
    /\ depOp' = <<"download", 0>>
    /\ UNCHANGED depKept

SizeMatches(d, p) == depDisk[p] \in {FilesOf(d)[p], "rot"}

(* The depot list calls a depot installed when most of its files are there with their sizes. *)
Installed(d) == 100 * Cardinality({p \in PathsOf(d) : SizeMatches(d, p)}) >= 85 * Cardinality(PathsOf(d))

(* Mutant of ProtectedPaths: only depots that are installed completely are protected. *)
ProtectedWhole(d) ==
    UNION {PathsOf(o) : o \in {o \in Depot \ {d} : \A p \in PathsOf(o) : SizeMatches(o, p) /\ depDisk[p] # "rot"}}

(* UninstallDepot keeps what also belongs to another depot that looks installed: 70 % of its (first 30) files. *)
ProtectedPaths(d) ==
    UNION {PathsOf(o) : o \in {o \in Depot \ {d} :
        10 * Cardinality({p \in PathsOf(o) : SizeMatches(o, p)}) >= 7 * Cardinality(PathsOf(o))}}

UninstallDepot_(d) ==
    \E gone \in {PathsOf(d) \ ProtectedPaths(d)} :
    /\ depDisk' = [p \in Paths |-> IF p \in gone THEN "none" ELSE depDisk[p]]
    /\ damaged' = damaged \cup {p \in gone : depDisk[p] # "none"}
    /\ depOp' = <<"uninstall", d>>
    /\ UNCHANGED <<depDone, depKept>>

(* The emulator replaces a library and keeps the original beside it. *)
ApplyEmulator(p) ==
    /\ depDisk[p] \notin {"none", "emu"}
    /\ depDisk' = [depDisk EXCEPT ![p] = "emu"]
    /\ depKept' = depKept \cup {p}
    /\ depOp' = <<"apply", 0>>
    /\ UNCHANGED <<depDone, damaged>>

(* Somebody else removes, truncates or spoils a file. *)
Damage(p, how) ==
    /\ Cardinality(damaged) < MaxDamage
    /\ depDisk[p] \notin {"none", "emu"} /\ depDisk[p] # how
    /\ depDisk' = [depDisk EXCEPT ![p] = how]
    /\ damaged' = damaged \cup {p}
    /\ depOp' = <<"damage", 0>>
    /\ UNCHANGED <<depDone, depKept>>

-----------------------------------------------------------------------------
(* ScanDepotIntegrity: the selected files by platform alone, compared with the directory. *)

Official(platform) == FilesFor[VerifyFilter(platform)]

(* Mutant of ModifiedFiles: a file of the right size is not read. *)
ModifiedSizes(platform) ==
    {p \in DOMAIN Official(platform) : depDisk[p] = "cut" /\ p \notin depKept}

(* Another size or another hash; a library whose original is kept may be anything. *)
ModifiedFiles(platform) ==
    LET files == Official(platform) IN {p \in DOMAIN files : depDisk[p] \notin {"none", files[p]} /\ p \notin depKept}

(* A shared object that is missing is put down to another platform. *)
MissingFiles(platform) ==
    {p \in DOMAIN Official(platform) : depDisk[p] = "none" /\ Kind[p] # "lib"}

-----------------------------------------------------------------------------
(* The first download has been made. *)
DepotsInit ==
    /\ depDone \in Requests
    /\ \E files \in {FilesFor[depDone]} :
       depDisk = [p \in Paths |-> IF p \in DOMAIN files THEN files[p] ELSE "none"]
    /\ damaged = {}
    /\ depKept = {}
    /\ depOp = <<"none", 0>>

DepotsNext ==
    \/ \E f \in Requests : DownloadGame(f)
    \/ \E d \in Depot : UninstallDepot_(d)
    \/ \E p \in EmuPaths : ApplyEmulator(p)
    \/ \E p \in Paths, how \in {"none", "cut", "rot"} : Damage(p, how)

DepotsSpec == DepotsInit /\ [][DepotsNext]_depVars

(* A verification after a plain download without metadata finds exactly the files that were damaged or uninstalled   *)
(* since: the depots that are compared are those that were downloaded, whatever editions and languages conflict. Left *)
(* out are the libraries whose original the emulator keeps and shared objects that are gone.                          *)
VerifyExact ==
    \A platform \in {"win64", "linux"} : depDone = PlainFilter(platform) =>
        ModifiedFiles(platform) \cup MissingFiles(platform)
            = {p \in damaged \cap DOMAIN Official(platform) :
                 IF depDisk[p] = "none" THEN Kind[p] # "lib" ELSE p \notin depKept}

(* Right after a download every selected depot is complete: none of them was given another's content for a path they share. *)
SelectionWhole ==
    depOp[1] = "download" => \A d \in Selected[depDone] : \A p \in PathsOf(d) : depDisk[p] = FilesOf(d)[p]

(* Uninstalling a depot leaves every other depot that the list calls installed installed, shared files included. *)
UninstallSpares ==
    [][\A d \in Depot : depOp' = <<"uninstall", d>> =>
          \A o \in Depot \ {d} : Installed(o) => Installed(o)']_depVars
=============================================================================
